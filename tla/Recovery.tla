------------------------------ MODULE Recovery ------------------------------
(***************************************************************************)
(* What a database leaves on the disk and what DB::Open makes of it:        *)
(* NewDB, Recover, RecoverWalFile, RemoveObsoleteFiles (db_impl.cc),        *)
(* VersionSet::Recover, LogAndApply, ReuseManifest (version_set.cc),        *)
(* VersionEdit's encoding and SetCurrentFile, at the grain of file system   *)
(* operations.  The process may die and the power may fail between any two  *)
(* of them, during an Open too, and the database is opened again.           *)
(*                                                                          *)
(* Once open, the database writes, switches memtables, flushes and          *)
(* compacts: WritePath and LSM have those in detail, and here they are what *)
(* changes files.  A version is the set of its SST files: levels do not     *)
(* matter to recovery.  An entry is its sequence number, and a batch has    *)
(* one entry.  prev_log_number_ is 0 throughout and left out, so that only  *)
(* number >= LogNumber() keeps a WAL file (db_impl.cc:212): NoGarbage.      *)
(***************************************************************************)
EXTENDS Integers, FiniteSets, Sequences, SequencesExt

CONSTANTS
    MaxWrites,        \* bound on LastSequence
    MaxOpens,         \* bound on the calls of DB::Open
    MaxBusy,          \* writes, switches and compactions start in the first MaxBusy of them
    MaxPower,         \* the power fails after the first MaxPower of them
    MaxFaults,        \* bound on the file system calls that fail
    MaxSwitch,        \* no memtable is switched beyond this file number, but for one in a compaction
    MaxCompact,       \* no compaction starts beyond this file number
    WriteBufferSize,  \* gDBConfig->write_buffer_size, in entries
    TargetFileSize    \* TargetFileSize(), in MANIFEST records

ASSUME RecoveryAssumption ==
    {MaxWrites, MaxOpens, MaxBusy, MaxPower, MaxFaults, MaxSwitch, MaxCompact,
     WriteBufferSize, TargetFileSize} \subseteq Nat

VARIABLES
    disk,             \* the file system
    pc,               \* "closed", "opening", "opened", or "corrupt": Open found no database
    reuse_logs,       \* gDBConfig->reuse_logs in this process
    op,               \* the call that is at work on the files
    versions,         \* the VersionSet
    mem, imm,         \* the entries of mem_; the memtable imm_ points to, if any
    wal_file_number,  \* wal_file_number_, 0 if there is no WAL file
    compaction,       \* the inputs and the output of the compaction under way
    bg_error,         \* bg_error_ is set
    acked,            \* entries whose Write has returned, without those a power failure took
    durable,          \* entries whose Write has returned with sync
    lax,              \* a MANIFEST was reused whose last records were never synced
    lost,             \* the power failed after that
    opens, faults     \* how many so far

processVars == <<reuse_logs, op, versions, mem, imm, wal_file_number, compaction, bg_error>>
vars == <<disk, pc, processVars, acked, durable, lax, lost, opens, faults>>

-----------------------------------------------------------------------------
(***************************************************************************)
(* The file system.  A file is its type and number.  disk.dir is the        *)
(* database directory: the states that a power failure may leave it in, the *)
(* last the one that programs see.  cur is the MANIFEST that CURRENT names. *)
(***************************************************************************)
Manifest(n) == <<"manifest", n>>
Wal(n) == <<"wal", n>>
Sst(n) == <<"sst", n>>
Temp(n) == <<"dbtmp", n>>

EmptyDir == [cur |-> 0, files |-> {}]
EmptyDisk == [dir |-> <<EmptyDir>>, data |-> <<>>, synced |-> <<>>]

Dir(dk) == Last(dk.dir)
Numbers(dir, type) == {f[2] : f \in {g \in dir.files : g[1] = type}}

(* Contents of files that are in no state of the directory are gone. *)
Tidy(dk) ==
    LET left == UNION {dk.dir[i].files : i \in DOMAIN dk.dir}
    IN  [dir |-> dk.dir, data |-> [f \in left |-> dk.data[f]],
         synced |-> [f \in left |-> dk.synced[f]]]

ChangeDir(dk, dir) ==
    IF dir = Dir(dk) THEN dk ELSE [dk EXCEPT !.dir = Append(@, dir)]

(* NewWritableFile: a new file, or an old one cut to nothing. *)
NewWritableFile(dk, f) ==
    LET cut == [dk EXCEPT !.data = [g \in DOMAIN @ \cup {f} |-> IF g = f THEN <<>> ELSE @[g]],
                          !.synced = [g \in DOMAIN @ \cup {f} |-> IF g = f THEN 0 ELSE @[g]]]
    IN  ChangeDir(cut, [Dir(dk) EXCEPT !.files = @ \cup {f}])

(* Append and Flush: the data reaches the operating system. *)
AddRecord(dk, f, rec) == [dk EXCEPT !.data[f] = Append(@, rec)]

(* fsync of the file, and of a directory.  The file system keeps the order  *)
(* of changes (as ext4 and xfs do): fsync of a file makes all earlier       *)
(* changes of the directory durable.                                        *)
SyncFd(dk, f) ==
    Tidy([dk EXCEPT !.synced[f] = Len(dk.data[f]), !.dir = <<Last(@)>>])
SyncDir(dk, dirname) == IF dirname = "db" THEN Tidy([dk EXCEPT !.dir = <<Last(@)>>]) ELSE dk

(* Dirname, of a name without a separator and of one in the database       *)
(* directory; dirname_ is taken after filename was moved to filename_.     *)
Dirname(filename) == IF filename = "" THEN "." ELSE "db"
StoredDirname(f) == LET moved_from == "" IN Dirname(moved_from)

(* Mutant: Sync does not reach the MANIFEST itself. *)
SyncDirOnly(dk, f) == IF f[1] = "manifest" THEN SyncDir(dk, StoredDirname(f)) ELSE SyncFd(dk, f)

(* SyncDirIfManifest, then the file. *)
Sync(dk, f) ==
    SyncFd(IF f[1] = "manifest" THEN SyncDir(dk, StoredDirname(f)) ELSE dk, f)

RemoveFile(dk, f) == Tidy(ChangeDir(dk, [Dir(dk) EXCEPT !.files = @ \ {f}]))

(* The two steps of SetCurrentFile. *)
WriteStringToFileSync(dk, n) == SyncFd(AddRecord(NewWritableFile(dk, Temp(n)), Temp(n), n), Temp(n))
RenameToCurrent(dk, n) == Tidy(ChangeDir(dk, [cur |-> n, files |-> Dir(dk).files \ {Temp(n)}]))

-----------------------------------------------------------------------------
(***************************************************************************)
(* VersionEdit and the MANIFEST.  An optional field is a set of at most one *)
(* value; a record on the disk is the set of its tagged fields.  Torn is a  *)
(* record of which only a part was written.                                 *)
(***************************************************************************)
NoEdit == [wal |-> {}, next |-> {}, last |-> {}, new |-> {}, deleted |-> {}]

EncodeTo(edit) == UNION {{<<tag, v>> : v \in edit[tag]} : tag \in DOMAIN edit}
DecodeFrom(rec) == [tag \in DOMAIN NoEdit |-> {field[2] : field \in {g \in rec : g[1] = tag}}]
Torn == {<<"torn", 0>>}

(* What the Reader returns: a record that ends with the file is no error. *)
Records(recs) == IF recs # <<>> /\ Last(recs) = Torn THEN Front(recs) ELSE recs
Spoilt(recs) == Torn \in {Records(recs)[i] : i \in DOMAIN Records(recs)}

(* Builder::Apply and SaveTo. *)
Apply(builder, edit) ==
    [added |-> builder.added \cup edit.new, deleted |-> (builder.deleted \cup edit.deleted) \ edit.new]
SaveTo(base, builder) == (base \cup builder.added) \ builder.deleted
NoChange == [added |-> {}, deleted |-> {}]

(* The loop of VersionSet::Recover: the last value of each field, and the   *)
(* files that are left.                                                     *)
LastField(recs, tag) ==
    LET with == {i \in DOMAIN recs : \E field \in recs[i] : field[1] = tag}
    IN  IF with = {} THEN {} ELSE DecodeFrom(recs[Max(with)])[tag]
ReadManifest(recs) ==
    [wal |-> LastField(recs, "wal"), next |-> LastField(recs, "next"), last |-> LastField(recs, "last"),
     files |-> SaveTo({}, FoldLeft(LAMBDA b, rec : Apply(b, DecodeFrom(rec)), NoChange, recs))]

(* VersionSet::Recover and the check of DBImpl::Recover find nothing wrong  *)
(* with dir: the MANIFEST is there, whole and complete, and every SST       *)
(* number it names belongs to some file.                                    *)
Openable(dk, dir) ==
    /\ Manifest(dir.cur) \in dir.files
    /\ LET recs == dk.data[Manifest(dir.cur)]
           m == ReadManifest(Records(recs))
       IN  /\ ~Spoilt(recs)
           /\ m.next # {} /\ m.wal # {} /\ m.last # {}
           /\ m.files \subseteq {f[2] : f \in dir.files}

The(s) == CHOOSE x \in s : TRUE

(* The WAL files DBImpl::Recover replays. *)
WalsFrom(dir, min_wal) == {n \in Numbers(dir, "wal") : n >= min_wal}

-----------------------------------------------------------------------------
(***************************************************************************)
(* The process                                                             *)
(***************************************************************************)
NewVersionSet == [manifest |-> 0, log_open |-> FALSE, next |-> 2, last |-> 0, wal |-> 0, files |-> {}]
NoOp == [call |-> "none", at |-> "none", edit |-> NoEdit, number |-> 0, ents |-> {},
         wals |-> {}, pos |-> 0, max_sequence |-> 0, save |-> FALSE, todo |-> {}]
NoCompaction == [in |-> {}, out |-> 0]

Init ==
    /\ disk = EmptyDisk /\ pc = "closed"
    /\ reuse_logs = FALSE /\ op = NoOp /\ versions = NewVersionSet
    /\ mem = {} /\ imm = {} /\ wal_file_number = 0
    /\ compaction = NoCompaction /\ bg_error = FALSE
    /\ acked = {} /\ durable = {} /\ lax = FALSE /\ lost = FALSE /\ opens = 0 /\ faults = 0

Forget ==
    /\ reuse_logs' = FALSE /\ op' = NoOp /\ versions' = NewVersionSet
    /\ mem' = {} /\ imm' = {} /\ wal_file_number' = 0
    /\ compaction' = NoCompaction /\ bg_error' = FALSE

history == <<acked, durable, lax, lost, opens>>
memory == <<mem, imm, wal_file_number>>

(* Mutant: the numbers of replayed WAL files are not marked. *)
MarkNothing(vs, n) == vs

(* MarkFileNumberAsUsed *)
MarkFileNumberAsUsed(vs, n) == IF vs.next <= n THEN [vs EXCEPT !.next = n + 1] ELSE vs
NewFileNumber(vs) == [vs EXCEPT !.next = @ + 1]

(* A file system call fails, having left dk: Open gives up, a flush or a    *)
(* compaction is a background error.                                        *)
Fail(dk) ==
    /\ faults < MaxFaults /\ faults' = faults + 1
    /\ disk' = dk
    /\ IF pc = "opening" THEN pc' = "closed" /\ Forget
       ELSE /\ bg_error' = TRUE /\ op' = NoOp
            /\ compaction' = IF op.call = "compact" THEN NoCompaction ELSE compaction
            /\ UNCHANGED <<pc, reuse_logs, versions, memory>>
    /\ UNCHANGED history

-----------------------------------------------------------------------------
(* Mutants: WAL files are compared with wal_file_number_; temporary files   *)
(* are kept.                                                                *)
ObsoleteByWalFile(dir, vs, pending) ==
    {f \in dir.files : CASE f[1] = "wal" -> f[2] < wal_file_number
                         [] f[1] = "manifest" -> f[2] < vs.manifest
                         [] OTHER -> f[2] \notin vs.files \cup pending}
ObsoleteNoTemp(dir, vs, pending) ==
    {f \in dir.files : CASE f[1] = "wal" -> f[2] < vs.wal
                         [] f[1] = "manifest" -> f[2] < vs.manifest
                         [] OTHER -> f[1] = "sst" /\ f[2] \notin vs.files \cup pending}

(***************************************************************************)
(* RemoveObsoleteFiles: the files are chosen with the mutex held and        *)
(* removed one by one without it.                                           *)
(***************************************************************************)
Obsolete(dir, vs, pending) ==
    {f \in dir.files :
        CASE f[1] = "wal" -> f[2] < vs.wal
          [] f[1] = "manifest" -> f[2] < vs.manifest
          [] OTHER -> f[2] \notin vs.files \cup pending}

BeginRemove(dk, vs) ==
    op' = [NoOp EXCEPT !.call = op.call, !.at = "remove",
                       !.todo = IF bg_error THEN {} ELSE Obsolete(Dir(dk), vs, {compaction'.out})]

RemoveOne ==
    /\ op.at = "remove" /\ op.todo # {}
    /\ \E f \in op.todo : disk' = RemoveFile(disk, f) /\ op' = [op EXCEPT !.todo = @ \ {f}]
    /\ UNCHANGED <<pc, reuse_logs, versions, memory, compaction, bg_error, history, faults>>

RemoveDone ==
    /\ op.at = "remove" /\ op.todo = {}
    /\ op' = NoOp
    /\ pc' = "opened"
    /\ UNCHANGED <<disk, reuse_logs, versions, memory, compaction, bg_error, history, faults>>

-----------------------------------------------------------------------------
(***************************************************************************)
(* LogAndApply, from NewDB too, which writes its record and CURRENT in the  *)
(* same way: op.edit is the edit, op.at the next call.                      *)
(***************************************************************************)
BeginLog(vs, edit) ==
    op' = [op EXCEPT !.at = IF vs.log_open THEN "record" ELSE "create",
                     !.edit = [edit EXCEPT !.wal = IF @ = {} THEN {vs.wal} ELSE @,
                                           !.next = {vs.next}, !.last = {vs.last}]]

ManifestNumber == IF op.call = "newdb" THEN 1 ELSE versions.manifest
NewManifest == op.call = "newdb" \/ (pc = "opening" /\ ~versions.log_open)

CreateManifest ==
    /\ op.at = "create"
    /\ \/ /\ disk' = NewWritableFile(disk, Manifest(ManifestNumber))
          /\ op' = [op EXCEPT !.at = IF op.call = "newdb" THEN "record" ELSE "snapshot"]
          /\ UNCHANGED <<pc, reuse_logs, versions, memory, compaction, bg_error, history, faults>>
       \/ Fail(disk)

(* Of the disk when a write, a sync or SetCurrentFile fails: a new MANIFEST *)
(* is removed, except by NewDB once it is whole.                            *)
Abandon(dk) == IF NewManifest THEN RemoveFile(dk, Manifest(ManifestNumber)) ELSE dk

Write(rec) ==
    \/ /\ disk' = AddRecord(disk, Manifest(ManifestNumber), rec)
       /\ op' = [op EXCEPT !.at = IF op.at = "snapshot" THEN "record" ELSE "sync"]
       /\ UNCHANGED <<pc, reuse_logs, versions, memory, compaction, bg_error, history, faults>>
    \/ Fail(Abandon(AddRecord(disk, Manifest(ManifestNumber), Torn)))

WriteSnapshot ==
    /\ op.at = "snapshot"
    /\ Write(EncodeTo([NoEdit EXCEPT !.new = versions.files]))

WriteEdit ==
    /\ op.at = "record"
    /\ Write(EncodeTo(op.edit))

(* The last part of LogAndApply, and what its callers do next. *)
Install(dk) ==
    LET vs == [versions EXCEPT !.files = SaveTo(@, Apply(NoChange, op.edit)),
                               !.wal = The(op.edit.wal), !.log_open = TRUE]
    IN  IF op.call = "newdb"
        THEN /\ op' = [NoOp EXCEPT !.call = "open", !.at = "recover"]
             /\ UNCHANGED <<versions, imm, compaction>>
        ELSE /\ versions' = vs
             /\ imm' = IF op.call = "flush" THEN {} ELSE imm
             /\ compaction' = IF op.call = "compact" THEN NoCompaction ELSE compaction
             /\ BeginRemove(dk, vs)

SyncManifest ==
    /\ op.at = "sync"
    /\ \/ /\ disk' = Sync(disk, Manifest(ManifestNumber))
          /\ IF NewManifest THEN op' = [op EXCEPT !.at = "temp"] /\ UNCHANGED <<versions, imm, compaction>>
             ELSE Install(disk')
          /\ UNCHANGED <<pc, reuse_logs, mem, wal_file_number, bg_error, history, faults>>
       \/ Fail(Abandon(disk))

(* SetCurrentFile.  NewDB keeps its MANIFEST when this fails. *)
NotCurrent(dk) == IF op.call = "newdb" THEN dk ELSE Abandon(dk)

WriteTemp ==
    /\ op.at = "temp"
    /\ \/ /\ disk' = WriteStringToFileSync(disk, ManifestNumber)
          /\ op' = [op EXCEPT !.at = "rename"]
          /\ UNCHANGED <<pc, reuse_logs, versions, memory, compaction, bg_error, history, faults>>
       \/ Fail(NotCurrent(RemoveFile(NewWritableFile(disk, Temp(ManifestNumber)), Temp(ManifestNumber))))

RenameTemp ==
    /\ op.at = "rename"
    /\ \/ /\ disk' = RenameToCurrent(disk, ManifestNumber)
          /\ Install(disk')
          /\ UNCHANGED <<pc, reuse_logs, mem, wal_file_number, bg_error, history, faults>>
       \/ Fail(NotCurrent(RemoveFile(disk, Temp(ManifestNumber))))

-----------------------------------------------------------------------------
(***************************************************************************)
(* WriteToLevel0: a number, a file, its entries, and the edit.             *)
(***************************************************************************)
BeginBuild(o, ents) ==
    /\ disk' = NewWritableFile(disk, Sst(versions.next))
    /\ op' = [o EXCEPT !.at = "build", !.number = versions.next, !.ents = ents]

(* Mutant: the SST file is not synced. *)
BuildUnsynced(dk, n, ents) == [dk EXCEPT !.data[Sst(n)] = SetToSeq(ents)]

BuildSST(dk, n, ents) ==
    LET f == Sst(n)
    IN  Sync([dk EXCEPT !.data[f] = SetToSeq(ents)], f)

FinishBuild ==
    /\ op.at = "build"
    /\ \/ /\ disk' = BuildSST(disk, op.number, op.ents)
          /\ LET edit == [op.edit EXCEPT !.new = @ \cup {op.number}]
             IN  IF op.call = "flush" THEN BeginLog(versions, [edit EXCEPT !.wal = {wal_file_number}])
                 ELSE op' = [op EXCEPT !.at = "replay", !.edit = edit, !.number = 0, !.ents = {}]
          /\ UNCHANGED <<pc, reuse_logs, versions, memory, compaction, bg_error, history, faults>>
       \/ Fail(RemoveFile(disk, Sst(op.number)))

-----------------------------------------------------------------------------
(***************************************************************************)
(* DB::Open                                                                *)
(***************************************************************************)
Open ==
    /\ pc = "closed" /\ opens < MaxOpens
    /\ pc' = "opening" /\ opens' = opens + 1
    /\ reuse_logs' \in BOOLEAN
    /\ op' = IF Dir(disk).cur = 0
             THEN [NoOp EXCEPT !.call = "newdb", !.at = "create",
                               !.edit = [NoEdit EXCEPT !.wal = {0}, !.next = {2}, !.last = {0}]]
             ELSE [NoOp EXCEPT !.call = "open", !.at = "recover"]
    /\ UNCHANGED <<disk, versions, memory, compaction, bg_error, acked, durable, lax, lost, faults>>

(* VersionSet::Recover with ReuseManifest, and DBImpl::Recover as far as    *)
(* the list of WAL files.                                                   *)
Recover ==
    /\ op.at = "recover" /\ Openable(disk, Dir(disk))
    /\ LET dir == Dir(disk)
           recs == disk.data[Manifest(dir.cur)]
           m == ReadManifest(Records(recs))
           vs == [manifest |-> The(m.next), log_open |-> FALSE, next |-> The(m.next) + 1,
                  last |-> The(m.last), wal |-> The(m.wal), files |-> m.files]
           begin == [op EXCEPT !.at = "replay",
                               !.wals = WalsFrom(dir, vs.wal)]
       IN  \/ /\ reuse_logs /\ Len(recs) < TargetFileSize
              /\ versions' = [vs EXCEPT !.manifest = dir.cur, !.log_open = TRUE]
              /\ op' = begin
              /\ lax' = (lax \/ disk.synced[Manifest(dir.cur)] < Len(recs))
              /\ UNCHANGED faults
           \/ /\ ~(reuse_logs /\ Len(recs) < TargetFileSize)
              /\ versions' = vs
              /\ op' = [begin EXCEPT !.save = TRUE]
              /\ UNCHANGED <<lax, faults>>
           \/ /\ reuse_logs /\ Len(recs) < TargetFileSize  \* NewAppendableFile fails
              /\ faults < MaxFaults /\ faults' = faults + 1
              /\ versions' = vs
              /\ op' = [begin EXCEPT !.save = TRUE]
              /\ UNCHANGED lax
    /\ UNCHANGED <<disk, pc, reuse_logs, memory, compaction, bg_error, acked, durable, lost, opens>>

RecoverCorrupt ==
    /\ op.at = "recover" /\ ~Openable(disk, Dir(disk))
    /\ pc' = "corrupt" /\ Forget
    /\ UNCHANGED <<disk, history, faults>>

(* RecoverWalFile, of the WAL files in the order of their numbers.  What is *)
(* left of the first of them:                                               *)
FirstWal == Min(op.wals)
Rest == LET w == disk.data[Wal(FirstWal)] IN SubSeq(w, op.pos + 1, Len(w))

(* Mutant: max_sequence is not kept up. *)
SeenNothing(s) == op.max_sequence

(* max_sequence *)
Seen(s) == Max({op.max_sequence} \cup ToSet(s))

(* ... more than a memtable, which becomes an SST file, *)
ReplayFull ==
    /\ op.at = "replay" /\ op.wals # {} /\ Len(Rest) > WriteBufferSize
    /\ LET part == SubSeq(Rest, 1, WriteBufferSize + 1)
       IN  BeginBuild([op EXCEPT !.pos = @ + Len(part), !.max_sequence = Seen(part), !.save = TRUE],
                      ToSet(part))
    /\ versions' = NewFileNumber(versions)
    /\ UNCHANGED <<pc, reuse_logs, memory, compaction, bg_error, history, faults>>

(* Mutant: any WAL file is reused, not only the last. *)
ReuseAny == reuse_logs /\ op.pos = 0

(* ... the end of a file that goes on being used, *)
CanReuse == reuse_logs /\ op.wals = {FirstWal} /\ op.pos = 0
NextWal(o) == [o EXCEPT !.wals = @ \ {FirstWal}, !.pos = 0, !.max_sequence = Seen(Rest)]

ReplayReuse ==
    /\ op.at = "replay" /\ op.wals # {} /\ Len(Rest) <= WriteBufferSize /\ CanReuse
    /\ mem' = ToSet(Rest) /\ wal_file_number' = FirstWal
    /\ versions' = MarkFileNumberAsUsed(versions, FirstWal)
    /\ op' = NextWal(op)
    /\ UNCHANGED <<disk, pc, reuse_logs, imm, compaction, bg_error, history, faults>>

(* ... or the end of one that does not, with a last SST file. *)
ReplayEnd ==
    /\ op.at = "replay" /\ op.wals # {} /\ Len(Rest) <= WriteBufferSize
    /\ IF CanReuse THEN faults < MaxFaults /\ faults' = faults + 1  \* NewAppendableFile fails
       ELSE UNCHANGED faults
    /\ IF Rest = <<>>
       THEN /\ versions' = MarkFileNumberAsUsed(versions, FirstWal)
            /\ op' = NextWal(op)
            /\ UNCHANGED disk
       ELSE /\ BeginBuild([NextWal(op) EXCEPT !.save = TRUE], ToSet(Rest))
            /\ versions' = MarkFileNumberAsUsed(NewFileNumber(versions), FirstWal)
    /\ UNCHANGED <<pc, reuse_logs, memory, compaction, bg_error, history>>

(* The rest of Recover and of Open: the last sequence number, a WAL file if *)
(* none was reused, and the new state of the MANIFEST if there is any.      *)
FinishRecover ==
    /\ op.at = "replay" /\ op.wals = {}
    /\ LET reused == wal_file_number # 0
           seen == [versions EXCEPT !.last = Max({@, op.max_sequence})]
           vs == IF reused THEN seen ELSE NewFileNumber(seen)
           num == IF reused THEN wal_file_number ELSE seen.next
       IN  \/ /\ disk' = IF reused THEN disk ELSE NewWritableFile(disk, Wal(num))
              /\ versions' = vs /\ wal_file_number' = num
              /\ IF op.save THEN BeginLog(vs, [op.edit EXCEPT !.wal = {num}]) /\ UNCHANGED compaction
                 ELSE UNCHANGED compaction /\ BeginRemove(disk', vs)
              /\ UNCHANGED <<pc, reuse_logs, mem, imm, bg_error, history, faults>>
           \/ ~reused /\ Fail(disk)

-----------------------------------------------------------------------------
(***************************************************************************)
(* The open database                                                       *)
(***************************************************************************)
WriteEntry(sync) ==
    /\ pc = "opened" /\ ~bg_error /\ versions.last < MaxWrites /\ opens <= MaxBusy
    /\ LET e == versions.last + 1
           f == Wal(wal_file_number)
           written == AddRecord(disk, f, e)
       IN  /\ disk' = IF sync THEN Sync(written, f) ELSE written
           /\ mem' = mem \cup {e}
           /\ versions' = [versions EXCEPT !.last = e]
           /\ acked' = acked \cup {e}
           /\ durable' = IF sync THEN durable \cup {e} ELSE durable
    /\ UNCHANGED <<pc, reuse_logs, op, imm, wal_file_number, compaction, bg_error, lax, lost, opens, faults>>

(* MakeRoomForWrite switches to a new memtable and WAL file. *)
Switch ==
    /\ pc = "opened" /\ ~bg_error /\ imm = {} /\ opens <= MaxBusy
    /\ versions.next <= MaxSwitch \/ versions.next = compaction.out + 1
    /\ disk' = NewWritableFile(disk, Wal(versions.next))
    /\ wal_file_number' = versions.next
    /\ versions' = NewFileNumber(versions)
    /\ imm' = {mem} /\ mem' = {}
    /\ UNCHANGED <<pc, reuse_logs, op, compaction, bg_error, history, faults>>

(* CompactMemTable, from BackgroundCompaction or DoCompactionWork, which    *)
(* does not look at bg_error_.  An empty memtable makes no file.            *)
Flush ==
    /\ pc = "opened" /\ op = NoOp /\ imm # {}
    /\ bg_error => compaction # NoCompaction
    /\ versions' = NewFileNumber(versions)
    /\ LET begin == [NoOp EXCEPT !.call = "flush"]
           vs == versions'
       IN  IF The(imm) = {}
           THEN /\ op' = [begin EXCEPT !.at = "record",
                                       !.edit = [NoEdit EXCEPT !.wal = {wal_file_number},
                                                               !.next = {vs.next}, !.last = {vs.last}]]
                /\ UNCHANGED disk
           ELSE BeginBuild(begin, The(imm))
    /\ UNCHANGED <<pc, reuse_logs, memory, compaction, bg_error, history, faults>>

(* BackgroundCompaction picks input files and opens an output file. *)
Compact ==
    /\ pc = "opened" /\ op = NoOp /\ compaction = NoCompaction
    /\ ~bg_error /\ imm = {} /\ versions.next <= MaxCompact /\ opens <= MaxBusy
    /\ \E in \in SUBSET versions.files \ {{}} :
           compaction' = [in |-> in, out |-> versions.next]
    /\ disk' = NewWritableFile(disk, Sst(versions.next))
    /\ versions' = NewFileNumber(versions)
    /\ UNCHANGED <<pc, reuse_logs, op, memory, bg_error, history, faults>>

(* FinishCompactionOutputFile and InstallCompactionResults. *)
FinishCompaction ==
    /\ pc = "opened" /\ op = NoOp /\ compaction # NoCompaction
    /\ LET ents == UNION {ToSet(disk.data[Sst(n)]) : n \in compaction.in}
           edit == [NoEdit EXCEPT !.new = {compaction.out}, !.deleted = compaction.in]
       IN  \/ /\ disk' = BuildSST(disk, compaction.out, ents)
              /\ op' = [NoOp EXCEPT !.call = "compact", !.at = "record",
                                    !.edit = [edit EXCEPT !.wal = {versions.wal}, !.next = {versions.next},
                                                          !.last = {versions.last}]]
              /\ UNCHANGED <<compaction, bg_error, faults>>
           \/ /\ faults < MaxFaults /\ faults' = faults + 1
              /\ compaction' = NoCompaction /\ bg_error' = TRUE
              /\ UNCHANGED <<disk, op>>
    /\ UNCHANGED <<pc, reuse_logs, versions, memory, history>>

(* ~DBImpl waits for the background thread. *)
Close ==
    /\ pc = "opened" /\ op = NoOp /\ compaction = NoCompaction
    /\ pc' = "closed" /\ Forget
    /\ UNCHANGED <<disk, history, faults>>

-----------------------------------------------------------------------------
(***************************************************************************)
(* The process dies: what it wrote is there.  The power fails: the          *)
(* directory is in one of its states, and a file ends anywhere behind what  *)
(* was synced of it, a MANIFEST inside a record too.                        *)
(***************************************************************************)
Die ==
    /\ pc \in {"opening", "opened"}
    /\ pc' = "closed" /\ Forget
    /\ UNCHANGED <<disk, history, faults>>

Recovered(dk, dir) ==
    LET m == ReadManifest(Records(dk.data[Manifest(dir.cur)]))
    IN  (UNION {ToSet(dk.data[Sst(n)]) : n \in m.files})
          \cup (UNION {ToSet(dk.data[Wal(n)]) : n \in WalsFrom(dir, The(m.wal))})

(* What is left of a file that is cut at len; of a MANIFEST a part of the   *)
(* next record may be left as well.                                         *)
CutTo(f, len, torn) ==
    LET rest == SubSeq(disk.data[f], 1, len)
    IN  IF torn /\ f[1] = "manifest" /\ len < Len(disk.data[f]) THEN Append(rest, Torn) ELSE rest

PowerFails ==
    /\ pc = "closed" /\ opens <= MaxPower
    /\ \E i \in DOMAIN disk.dir, torn \in BOOLEAN :
         LET dir == disk.dir[i]
             loose == {f \in dir.files : disk.synced[f] < Len(disk.data[f])}
         IN  \E len \in [loose -> UNION {0..Len(disk.data[f]) : f \in loose}] :
               /\ \A f \in loose : len[f] >= disk.synced[f] /\ len[f] <= Len(disk.data[f])
               /\ disk' = LET data == [f \in dir.files |-> IF f \in loose THEN CutTo(f, len[f], torn)
                                                           ELSE disk.data[f]]
                          IN  [dir |-> <<dir>>, data |-> data, synced |-> [f \in dir.files |-> Len(data[f])]]
               /\ acked' = IF Openable(disk', dir) THEN acked \cap Recovered(disk', dir) ELSE {}
    /\ lost' = (lost \/ lax)
    /\ UNCHANGED <<pc, processVars, durable, lax, opens, faults>>

-----------------------------------------------------------------------------
Next ==
    \/ Open \/ Recover \/ RecoverCorrupt
    \/ ReplayFull \/ ReplayReuse \/ ReplayEnd \/ FinishRecover
    \/ CreateManifest \/ WriteSnapshot \/ WriteEdit \/ SyncManifest \/ WriteTemp \/ RenameTemp
    \/ FinishBuild \/ RemoveOne \/ RemoveDone
    \/ \E sync \in BOOLEAN : WriteEntry(sync)
    \/ Switch \/ Flush \/ Compact \/ FinishCompaction \/ Close
    \/ Die \/ PowerFails

Spec == Init /\ [][Next]_vars

-----------------------------------------------------------------------------
(***************************************************************************)
(* Properties                                                              *)
(***************************************************************************)

(* No MANIFEST has a record behind a torn one.  Two things write one there: *)
(* ReuseManifest after a power failure, and a compaction that logs its      *)
(* result after the flush inside it failed to (db_impl.cc:861).             *)
Intact == \A f \in DOMAIN disk.data : f[1] = "manifest" => ~Spoilt(disk.data[f])

(* Whatever crashes and failed calls left, Open finds a database: CURRENT   *)
(* names a MANIFEST that exists and is complete, and the files it names are *)
(* there.  It reports a corruption only behind a torn record, or when the   *)
(* power failed after a MANIFEST was reused whose end had not been synced:  *)
(* RemoveObsoleteFiles removes the inputs of a compaction whose record the  *)
(* power failure then takes.                                                *)
OpenSucceeds == Intact /\ ~lost => pc # "corrupt"

(* At no point of a write, a switch, a flush, a compaction, a removal of    *)
(* files or a recovery would the death of the process lose an acknowledged  *)
(* entry: CURRENT leads to it, through an SST file or a WAL file (with the  *)
(* exceptions of OpenSucceeds).                                             *)
CrashSafe ==
    Intact /\ ~lost /\ acked # {} =>
        Openable(disk, Dir(disk)) /\ acked \subseteq Recovered(disk, Dir(disk))

(* At no point would a power failure lose an entry that was written with    *)
(* sync, whichever state it leaves the directory in and wherever it cuts    *)
(* the MANIFEST behind what was synced.  README.md: "fsync" makes sure that *)
(* the data reaches the disk.                                               *)
FsyncKeepsData ==
    Intact /\ durable # {} =>
        \A i \in DOMAIN disk.dir :
            LET dir == disk.dir[i]
                m == Manifest(dir.cur)
            IN  /\ m \in dir.files
                /\ \A len \in disk.synced[m]..Len(disk.data[m]) :
                       LET left == [disk EXCEPT !.data = [f \in dir.files |->
                                       SubSeq(@[f], 1, IF f = m THEN len ELSE disk.synced[f])]]
                       IN  Openable(left, dir) /\ durable \subseteq Recovered(left, dir)

(* The same, unless Open went on with a MANIFEST whose last record a dead   *)
(* process had written and not synced: RemoveObsoleteFiles then trusts a    *)
(* record that a power failure may still take.                              *)
SyncedSurvive == ~lax => FsyncKeepsData

(* The entries that the open database serves. *)
Served ==
    (UNION {ToSet(disk.data[Sst(n)]) : n \in versions.files}) \cup mem \cup UNION imm

(* At any time a restart would find exactly the entries that are served:    *)
(* the replay of the WAL files, in pieces, reused or not, adds up to what   *)
(* the memtables held (with the exceptions of OpenSucceeds).                *)
RestartExact ==
    Intact /\ ~lost /\ pc = "opened" => Served = Recovered(disk, Dir(disk))

(* The next sequence number is above that of every entry, also when the     *)
(* MANIFEST is older than the WAL files and when some of them lost their    *)
(* end (not so once a power failure took records that were relied on).      *)
SequenceFresh == pc = "opened" /\ ~lost => \A e \in Served : e <= versions.last

(* The next file number is above that of every file in use, also of WAL     *)
(* files whose number never reached the MANIFEST.                           *)
NumbersFresh ==
    pc = "opened" =>
        \A n \in versions.files \cup {versions.manifest} \cup WalsFrom(Dir(disk), versions.wal) :
            n < versions.next

(* What a crash left behind is gone once the database is open and idle: no  *)
(* SST file outside the version, no WAL file or MANIFEST older than the     *)
(* ones in use, and no temporary file but for one whose number a crash made *)
(* free for an SST file.                                                    *)
(* As to WAL files the code disagrees with a comment: wal_format.h:47 says  *)
(* "always keep the current and the previous WAL file, which gives another  *)
(* layer of safety" (README.md has the original).  RemoveObsoleteFiles also *)
(* keeps a file with number PrevWalNumber() (db_impl.cc:212), but nothing   *)
(* ever sets that to another number than 0 (db_impl.cc:490, 1423), and no   *)
(* file has number 0.  This property is what the code does: the previous    *)
(* WAL file goes once its memtable is flushed.  That the comment's second   *)
(* file is not needed is what CrashSafe and SyncedSurvive say, within their *)
(* exceptions.                                                              *)
NoGarbage ==
    pc = "opened" /\ ~lost /\ op = NoOp /\ compaction = NoCompaction /\ imm = {} /\ ~bg_error =>
        /\ Numbers(Dir(disk), "sst") = versions.files
        /\ Numbers(Dir(disk), "dbtmp") \subseteq versions.files
        /\ \A n \in Numbers(Dir(disk), "wal") : n >= versions.wal
        /\ \A n \in Numbers(Dir(disk), "manifest") : n >= Dir(disk).cur
=============================================================================
