----------------------------- MODULE WritePath -----------------------------
(***************************************************************************)
(* The write path of DBImpl (src/src/db/db_impl.cc): the queue of writers,  *)
(* group commit, MakeRoomForWrite with its memtable and WAL switch, the     *)
(* background thread that flushes the immutable memtable and compacts       *)
(* level 0, the sticky background error, shutdown, and the point reads that *)
(* run beside them.                                                         *)
(*                                                                          *)
(* mtx_ is a variable: a step that ends with the mutex held leaves mtx set, *)
(* so that nobody else enters a critical section in between; a critical     *)
(* section that is entered and left in one step needs mtx to be free.       *)
(* A condition variable is the set of threads whose pc says they are        *)
(* blocked in it: only a signal, or a spurious wake-up, makes them runnable.*)
(*                                                                          *)
(* Each element of Calls is one call of Write (or of TEST_CompactMemTable,  *)
(* which is a Write of a null batch followed by a wait).  An entry of a     *)
(* batch is represented by the sequence number it is given; a batch by the  *)
(* number of its entries; a memtable by the number of the WAL file that was *)
(* created with it.                                                         *)
(***************************************************************************)
EXTENDS Integers, Sequences, FiniteSets

CONSTANTS
    Calls,            \* calls of DBImpl::Write, each made at most once
    Readers,          \* calls of DBImpl::Get
    MaxBatch,         \* largest number of entries in a batch
    Batches,          \* the batches callers pass: sizes, and NullBatch
    Syncs,            \* the values of WriteOptions::sync they pass
    SmallBatch,       \* 128 KB: a leader no larger than this limits its group
    MaxGroup,         \* 1 MB: the largest group
    WriteBufferSize,  \* gDBConfig->write_buffer_size, in entries
    L0Trigger,        \* gDBConfig->l0_compaction_trigger
    L0Slowdown,       \* gDBConfig->l0_slowdown_writes_trigger
    L0Stop,           \* gDBConfig->l0_stop_writes_trigger
    Faults,           \* the I/O operations that may fail
    Spurious          \* whether condition variables wake up without a signal

ASSUME ConstantsAssumption ==
    /\ MaxBatch \in Nat /\ SmallBatch \in Nat /\ MaxGroup \in Nat
    /\ WriteBufferSize \in Nat
    /\ Batches \subseteq -1..MaxBatch /\ Syncs \subseteq BOOLEAN
    /\ L0Trigger \in Nat \ {0} /\ L0Slowdown \in Nat \ {0} /\ L0Stop \in Nat \ {0}
    /\ Faults \subseteq {"append", "sync", "create", "close", "build", "manifest"}
    /\ Spurious \in BOOLEAN

NullBatch == -1       \* the null WriteBatch* that asks for a memtable switch
NoMem == 0            \* imm_ == nullptr

Free == "free"        \* nobody holds mtx_
Closer == "closer"    \* the thread that runs ~DBImpl
Threads == Calls \cup {Closer}
ASSUME ThreadsAssumption == {Free, Closer} \cap Calls = {}

VARIABLES
    mtx,            \* mtx_: the thread that holds it, or Free
    pc,             \* where each call of Write, and ~DBImpl, is
    batch,          \* w_info.batch: number of entries, or NullBatch
    sync,           \* w_info.sync
    done,           \* w_info.done
    status,         \* the Status the call returns: "ok" or "error"
    writers_info,   \* writers_info_: the queue of writers
    force,          \* MakeRoomForWrite's local of that name
    allow_delay,    \* MakeRoomForWrite's local of that name
    group,          \* the group being committed: its length and sequence numbers
    seqs,           \* the sequence numbers the entries of each call were given
    sync_error,     \* Write's local of that name
    last_sequence,  \* versions_->LastSequence()
    mt,             \* the entries of each memtable, by WAL number
    wal_number,     \* wal_file_number_; also names mem_
    imm,            \* imm_: a memtable, or NoMem
    wal_files,      \* the WAL files that exist
    wal_recs,       \* the entries of the records of each WAL file
    wal_synced,     \* those of them that fdatasync has made durable
    wal_torn,       \* an append to this WAL file has failed half way
    log_number,     \* versions_->LogNumber()
    manifest_log,   \* the log number a recovery would read from the MANIFEST
    sst,            \* entries in the SSTs of versions_->current()
    manifest_sst,   \* entries in the SSTs the MANIFEST names
    manifest_torn,  \* "no"; "tail": its last append failed; "middle": the append
                    \* of an edit succeeded behind one that failed
    l0,             \* versions_->SSTNumOfLevel(0)
    bg_error,       \* bg_error_ is not OK
    scheduled,      \* background_compaction_scheduled_
    tasks,          \* BGWork tasks in the queue of the thread pool
    bg,             \* where the background thread is
    job,            \* its locals
    shutting_down,  \* shutting_down_
    reader          \* the state of each Get

callVars == <<pc, batch, sync, done, status, writers_info, force, allow_delay,
              group, seqs, sync_error>>
memVars == <<last_sequence, mt, wal_number, imm>>
walVars == <<wal_files, wal_recs, wal_synced, wal_torn>>
verVars == <<log_number, manifest_log, sst, manifest_sst, manifest_torn, l0>>
bgVars == <<bg_error, scheduled, tasks, bg, job>>
vars == <<mtx, callVars, memVars, walVars, verVars, bgVars, shutting_down, reader>>

-----------------------------------------------------------------------------
(***************************************************************************)
(* Condition variables                                                     *)
(***************************************************************************)

(* w_info.cv.Signal() for the calls in S, given their program counters p. *)
SignalWriters(p, S) ==
    [w \in Threads |-> IF w \in S /\ p[w] = "cvwait" THEN "cvwake" ELSE p[w]]

(* Mutant: nobody is woken. *)
SignalAll_Nobody(p) == p

(* background_work_finished_signal_.SignalAll() *)
SignalAll(p) ==
    [w \in Threads |-> IF p[w] = "bgwait" THEN "bgwake"
                       ELSE IF p[w] = "flushwait" THEN "flushwake" ELSE p[w]]

(* RecordBackgroundError: the first error sticks and wakes every waiter. *)
RecordBackgroundError(p) ==
    /\ bg_error' = TRUE
    /\ pc' = IF bg_error THEN p ELSE SignalAll(p)

(* Mutant: the immutable memtable is not a reason to schedule work. *)
NeedsWork_LevelsOnly(i, files) == files >= L0Trigger

(* The background work MaybeScheduleCompaction finds to do. *)
NeedsWork(i, files) == i # NoMem \/ files >= L0Trigger

(* MaybeScheduleCompaction, given the values its caller has just assigned: *)
(* the new value of background_compaction_scheduled_.                      *)
MaybeScheduleCompaction(sch, err, i, files) ==
    sch \/ (~shutting_down /\ ~err /\ NeedsWork(i, files))

-----------------------------------------------------------------------------
(***************************************************************************)
(* DBImpl::Write                                                           *)
(***************************************************************************)

(* The entries of the first n batches of queue q, by batch and position. *)
GroupEntries(q, n) ==
    {e \in (1..n) \X (1..MaxBatch) : e[2] <= batch[q[e[1]]]}

(* WriteBatchInternal::Count of their concatenation, and its size. *)
Count(q, n) == Cardinality(GroupEntries(q, n))

MaxGroupSize(size) == IF size <= SmallBatch THEN size + SmallBatch ELSE MaxGroup

(* Mutant: a sync write may join the group of a leader that does not sync. *)
JoinsGroup_AnySync(q, i) ==
    batch[q[i]] # NullBatch => Count(q, i) <= MaxGroupSize(Count(q, 1))

(* The test BuildBatchGroup makes of the i-th writer before it goes on. *)
JoinsGroup(q, i) ==
    /\ sync[q[i]] => sync[q[1]]
    /\ batch[q[i]] # NullBatch => Count(q, i) <= MaxGroupSize(Count(q, 1))

(* BuildBatchGroup stops after the n-th writer of queue q. *)
BuildBatchGroup(q, n) ==
    /\ n \in 1..Len(q)
    /\ \A i \in 2..n : JoinsGroup(q, i)
    /\ n < Len(q) => ~JoinsGroup(q, n + 1)

(* Mutant: the group is numbered from the last sequence number in use. *)
BatchSeqs_FromLast(q, i, base) ==
    (base + Count(q, i - 1))..(base + Count(q, i) - 1)

(* The sequence numbers of the i-th batch of a group numbered from base + 1. *)
BatchSeqs(q, i, base) ==
    (base + Count(q, i - 1) + 1)..(base + Count(q, i))

NoGroup == [n |-> 0, lo |-> 0, hi |-> 0, ins |-> 0]

(* A call enters the queue; the first in it goes on to MakeRoomForWrite with *)
(* the mutex held, the others wait.                                          *)
Write(w, b, s) ==
    /\ pc[w] = "idle" /\ mtx = Free /\ ~shutting_down
    /\ batch' = [batch EXCEPT ![w] = b]
    /\ sync' = [sync EXCEPT ![w] = s]
    /\ writers_info' = Append(writers_info, w)
    /\ IF writers_info = <<>>
       THEN /\ pc' = [pc EXCEPT ![w] = "room"]
            /\ mtx' = w
            /\ force' = (b = NullBatch) /\ allow_delay' = (b # NullBatch)
       ELSE /\ pc' = [pc EXCEPT ![w] = "cvwait"]
            /\ UNCHANGED <<mtx, force, allow_delay>>
    /\ UNCHANGED <<done, status, group, seqs, sync_error, memVars, walVars,
                   verVars, bgVars, shutting_down, reader>>

(* Where a call goes once Write has returned: TEST_CompactMemTable goes on *)
(* to wait for the flush if its null Write succeeded.                      *)
AfterWrite(w, st) ==
    IF batch[w] = NullBatch /\ st = "ok" THEN "flushwake" ELSE "returned"

(* Write's loop around w_info.cv.Wait(), after a wake-up. *)
AwakeWriter(w) ==
    /\ pc[w] = "cvwake" /\ mtx = Free
    /\ \/ /\ done[w]
          /\ pc' = [pc EXCEPT ![w] = AfterWrite(w, status[w])]
          /\ UNCHANGED <<mtx, force, allow_delay>>
       \/ /\ ~done[w] /\ writers_info[1] = w
          /\ pc' = [pc EXCEPT ![w] = "room"]
          /\ mtx' = w
          /\ force' = (batch[w] = NullBatch) /\ allow_delay' = (batch[w] # NullBatch)
       \/ /\ ~done[w] /\ writers_info[1] # w
          /\ pc' = [pc EXCEPT ![w] = "cvwait"]
          /\ UNCHANGED <<mtx, force, allow_delay>>
    /\ UNCHANGED <<batch, sync, done, status, writers_info, group, seqs,
                   sync_error, memVars, walVars, verVars, bgVars, shutting_down,
                   reader>>

(* std::condition_variable may wake up a thread nobody has signalled. *)
SpuriousWakeup(w) ==
    /\ Spurious /\ pc[w] \in {"cvwait", "bgwait", "flushwait"}
    /\ pc' = IF pc[w] = "cvwait" THEN SignalWriters(pc, {w})
             ELSE [pc EXCEPT ![w] = SignalAll(pc)[w]]
    /\ UNCHANGED <<mtx, batch, sync, done, status, writers_info, force,
                   allow_delay, group, seqs, sync_error, memVars, walVars,
                   verVars, bgVars, shutting_down, reader>>

-----------------------------------------------------------------------------
(***************************************************************************)
(* DBImpl::MakeRoomForWrite: one action per branch of its loop, in the      *)
(* order in which they are tried.                                           *)
(***************************************************************************)

DelayWrite == allow_delay /\ l0 >= L0Slowdown

(* Mutant: one file too many before writes stop. *)
StopWrites_OneMore == l0 > L0Stop

StopWrites == l0 >= L0Stop
MemHasRoom == ~force /\ Cardinality(mt[wal_number]) <= WriteBufferSize

InRoom(w) == pc[w] = "room" /\ mtx = w

(* A background error: the write fails with it. *)
RoomError(w) ==
    /\ InRoom(w) /\ bg_error
    /\ status' = [status EXCEPT ![w] = "error"]
    /\ pc' = [pc EXCEPT ![w] = "finish"]
    /\ UNCHANGED <<mtx, batch, sync, done, writers_info, force, allow_delay,
                   group, seqs, sync_error, memVars, walVars, verVars, bgVars,
                   shutting_down, reader>>

(* Close to the limit on level-0 files: sleep once for a millisecond. *)
RoomDelay(w) ==
    /\ InRoom(w) /\ ~bg_error /\ DelayWrite
    /\ mtx' = Free
    /\ pc' = [pc EXCEPT ![w] = "sleep"]
    /\ UNCHANGED <<batch, sync, done, status, writers_info, force, allow_delay,
                   group, seqs, sync_error, memVars, walVars, verVars, bgVars,
                   shutting_down, reader>>

SleepDone(w) ==
    /\ pc[w] = "sleep" /\ mtx = Free
    /\ mtx' = w
    /\ allow_delay' = FALSE
    /\ pc' = [pc EXCEPT ![w] = "room"]
    /\ UNCHANGED <<batch, sync, done, status, writers_info, force, group, seqs,
                   sync_error, memVars, walVars, verVars, bgVars,
                   shutting_down, reader>>

(* The memtable has room: MakeRoomForWrite returns OK.  A null batch is then *)
(* done; any other write builds its group and releases the mutex to log it.  *)
RoomOK(w) ==
    /\ InRoom(w) /\ ~bg_error /\ ~DelayWrite /\ MemHasRoom
    /\ status' = [status EXCEPT ![w] = "ok"]
    /\ \/ /\ batch[w] = NullBatch
          /\ pc' = [pc EXCEPT ![w] = "finish"]
          /\ UNCHANGED <<mtx, group, seqs>>
       \/ /\ batch[w] # NullBatch
          /\ \E n \in 1..Len(writers_info) :
                /\ BuildBatchGroup(writers_info, n)
                /\ group' = [n |-> n, lo |-> last_sequence, ins |-> last_sequence,
                             hi |-> last_sequence + Count(writers_info, n)]
                /\ seqs' = [c \in Calls |->
                      IF \E i \in 1..n : writers_info[i] = c
                      THEN UNION {BatchSeqs(writers_info, i, last_sequence) :
                                    i \in {j \in 1..n : writers_info[j] = c}}
                      ELSE seqs[c]]
          /\ pc' = [pc EXCEPT ![w] = "append"]
          /\ mtx' = Free
    /\ UNCHANGED <<batch, sync, done, writers_info, force, allow_delay,
                   sync_error, memVars, walVars, verVars, bgVars,
                   shutting_down, reader>>

(* The memtable is full (or a switch is forced), but the previous one is   *)
(* still being flushed, or level 0 has too many files: wait.               *)
RoomWait(w) ==
    /\ InRoom(w) /\ ~bg_error /\ ~DelayWrite /\ ~MemHasRoom
    /\ imm # NoMem \/ StopWrites
    /\ mtx' = Free
    /\ pc' = [pc EXCEPT ![w] = "bgwait"]
    /\ UNCHANGED <<batch, sync, done, status, writers_info, force, allow_delay,
                   group, seqs, sync_error, memVars, walVars, verVars, bgVars,
                   shutting_down, reader>>

AwakeRoom(w) ==
    /\ pc[w] = "bgwake" /\ mtx = Free
    /\ mtx' = w
    /\ pc' = [pc EXCEPT ![w] = "room"]
    /\ UNCHANGED <<batch, sync, done, status, writers_info, force, allow_delay,
                   group, seqs, sync_error, memVars, walVars, verVars, bgVars,
                   shutting_down, reader>>

RoomCanSwitch(w) ==
    /\ InRoom(w) /\ ~bg_error /\ ~DelayWrite /\ ~MemHasRoom
    /\ imm = NoMem /\ ~StopWrites

(* NewWritableFile fails: the file number is given back, the write fails. *)
RoomSwitchFails(w) ==
    /\ RoomCanSwitch(w) /\ "create" \in Faults
    /\ status' = [status EXCEPT ![w] = "error"]
    /\ pc' = [pc EXCEPT ![w] = "finish"]
    /\ UNCHANGED <<mtx, batch, sync, done, writers_info, force, allow_delay,
                   group, seqs, sync_error, memVars, walVars, verVars, bgVars,
                   shutting_down, reader>>

(* A table indexed by WAL number, with an entry for the next WAL file. *)
Extend(f, x) ==
    [i \in 1..(wal_number + 1) |-> IF i = wal_number + 1 THEN x ELSE f[i]]

(* Switch to a new WAL file and a new memtable; a failure to close the old *)
(* file is recorded and stops all later writes.                            *)
RoomSwitch(w) ==
    /\ RoomCanSwitch(w)
    /\ \E closeFails \in BOOLEAN :
        /\ closeFails => "close" \in Faults
        /\ IF closeFails THEN RecordBackgroundError(pc) ELSE UNCHANGED <<bg_error, pc>>
        /\ wal_number' = wal_number + 1
        /\ wal_files' = wal_files \cup {wal_number + 1}
        /\ wal_recs' = Extend(wal_recs, {})
        /\ wal_synced' = Extend(wal_synced, {})
        /\ wal_torn' = Extend(wal_torn, FALSE)
        /\ mt' = Extend(mt, {})
        /\ imm' = wal_number
        /\ force' = FALSE
        /\ scheduled' = MaybeScheduleCompaction(scheduled, closeFails, wal_number, l0)
        /\ tasks' = IF scheduled' /\ ~scheduled THEN tasks + 1 ELSE tasks
    /\ UNCHANGED <<mtx, batch, sync, done, status, writers_info, allow_delay,
                   group, seqs, sync_error, last_sequence, verVars, bg, job,
                   shutting_down, reader>>

-----------------------------------------------------------------------------
(***************************************************************************)
(* DBImpl::Write without the mutex: the WAL record, then the memtable      *)
(***************************************************************************)

GroupSeqs == (group.lo + 1)..group.hi

(* Writer::AddRecord for the whole group.  A failed append leaves part of a *)
(* record, or a writer whose block_offset_ no longer agrees with the file:  *)
(* whether a later record of the same file can be read back then depends on *)
(* where it falls in the blocks.                                            *)
AddRecord(w) ==
    /\ pc[w] = "append"
    /\ \/ /\ \E readable \in BOOLEAN :
               /\ ~readable => wal_torn[wal_number]
               /\ wal_recs' = IF readable
                              THEN [wal_recs EXCEPT ![wal_number] = @ \cup GroupSeqs]
                              ELSE wal_recs
          /\ pc' = [pc EXCEPT ![w] = IF sync[w] THEN "sync" ELSE "insert"]
          /\ UNCHANGED <<status, wal_torn>>
       \/ /\ "append" \in Faults
          /\ wal_torn' = [wal_torn EXCEPT ![wal_number] = TRUE]
          /\ status' = [status EXCEPT ![w] = "error"]
          /\ pc' = [pc EXCEPT ![w] = "relock"]
          /\ UNCHANGED wal_recs
    /\ UNCHANGED <<mtx, batch, sync, done, writers_info, force, allow_delay, group,
                   seqs, sync_error, memVars, wal_files, wal_synced, verVars,
                   bgVars, shutting_down, reader>>

(* wal_file_->Sync() *)
SyncWal(w) ==
    /\ pc[w] = "sync"
    /\ \/ /\ wal_synced' = [wal_synced EXCEPT ![wal_number] = wal_recs[wal_number]]
          /\ pc' = [pc EXCEPT ![w] = "insert"]
          /\ UNCHANGED <<status, sync_error>>
       \/ /\ "sync" \in Faults
          /\ sync_error' = TRUE
          /\ status' = [status EXCEPT ![w] = "error"]
          /\ pc' = [pc EXCEPT ![w] = "relock"]
          /\ UNCHANGED wal_synced
    /\ UNCHANGED <<mtx, batch, sync, done, writers_info, force, allow_delay, group,
                   seqs, memVars, wal_files, wal_recs, wal_torn, verVars, bgVars,
                   shutting_down, reader>>

(* WriteBatchInternal::InsertInto: one entry at a time, readers looking on. *)
(* It fails on a malformed batch only, which no caller makes.               *)
InsertInto(w) ==
    /\ pc[w] = "insert"
    /\ IF group.ins < group.hi
       THEN /\ mt' = [mt EXCEPT ![wal_number] = @ \cup {group.ins + 1}]
            /\ group' = [group EXCEPT !.ins = @ + 1]
            /\ UNCHANGED pc
       ELSE /\ pc' = [pc EXCEPT ![w] = "relock"]
            /\ UNCHANGED <<mt, group>>
    /\ UNCHANGED <<mtx, batch, sync, done, status, writers_info, force, allow_delay,
                   seqs, sync_error, last_sequence, wal_number, imm, walVars,
                   verVars, bgVars, shutting_down, reader>>

GroupLength == IF group.n = 0 THEN 1 ELSE group.n

(* Mutant: the writer that has become the front is not woken. *)
NewFront_Forgotten(rest) == {}

(* The writer to wake when the group has left the queue. *)
NewFront(rest) == IF rest = <<>> THEN {} ELSE {rest[1]}

(* The last critical section of Write: publish the sequence number, pop the *)
(* group, hand its members their status, wake them and the new front.       *)
FinishWrite(w) ==
    /\ \/ pc[w] = "relock" /\ mtx = Free
       \/ pc[w] = "finish" /\ mtx = w
    /\ mtx' = Free
    /\ LET n == GroupLength
           members == {writers_info[i] : i \in 2..n}
           rest == SubSeq(writers_info, n + 1, Len(writers_info))
           woken == SignalWriters([pc EXCEPT ![w] = AfterWrite(w, status[w])],
                                  members \cup NewFront(rest))
       IN /\ writers_info' = rest
          /\ done' = [c \in Calls |-> done[c] \/ c \in members]
          /\ status' = [c \in Calls |-> IF c \in members THEN status[w] ELSE status[c]]
          /\ IF sync_error THEN RecordBackgroundError(woken)
             ELSE pc' = woken /\ UNCHANGED bg_error
    /\ last_sequence' = IF group.n = 0 THEN last_sequence ELSE group.hi
    /\ group' = NoGroup
    /\ sync_error' = FALSE
    /\ UNCHANGED <<batch, sync, force, allow_delay, seqs, mt, wal_number, imm,
                   walVars, verVars, scheduled, tasks, bg, job, shutting_down, reader>>

(* TEST_CompactMemTable's wait for imm_ to be flushed. *)
AwaitFlush(w) ==
    /\ pc[w] = "flushwake" /\ mtx = Free
    /\ IF imm # NoMem /\ ~bg_error /\ ~shutting_down
       THEN pc' = [pc EXCEPT ![w] = "flushwait"] /\ UNCHANGED status
       ELSE /\ pc' = [pc EXCEPT ![w] = "returned"]
            /\ status' = [status EXCEPT ![w] =
                            IF imm # NoMem /\ bg_error THEN "error" ELSE @]
    /\ UNCHANGED <<mtx, batch, sync, done, writers_info, force, allow_delay, group,
                   seqs, sync_error, memVars, walVars, verVars, bgVars,
                   shutting_down, reader>>

-----------------------------------------------------------------------------
(***************************************************************************)
(* The background thread                                                   *)
(***************************************************************************)

NoJob == [nested |-> FALSE, inputs |-> 0, move |-> FALSE, log |-> 0, l0 |-> 0]

(* The end of BackgroundCall, given the values its caller has just assigned. *)
EndBackgroundCall(err, i, files) ==
    /\ scheduled' = MaybeScheduleCompaction(FALSE, err, i, files)
    /\ tasks' = IF scheduled' THEN tasks + 1 ELSE tasks
    /\ bg' = "idle"
    /\ job' = NoJob
    /\ pc' = SignalAll(pc)

(* CompactMemTable returns: to BackgroundCall, or to the DoCompactionWork *)
(* that found an immutable memtable in the middle of its loop.            *)
EndFlush(err, i, files) ==
    IF job.nested
    THEN /\ bg' = "compact"
         /\ job' = [nested |-> FALSE, inputs |-> job.inputs, move |-> job.move,
                     log |-> 0, l0 |-> 0]
         /\ pc' = SignalAll(pc)
         /\ UNCHANGED <<scheduled, tasks>>
    ELSE EndBackgroundCall(err, i, files)

(* BackgroundCall takes a task: flush if there is an immutable memtable,    *)
(* otherwise compact level 0 if it has reached its trigger.  CompactMemTable *)
(* and DoCompactionWork release the mutex at once; IsJustMove needs no merge.*)
BackgroundCall ==
    /\ bg = "idle" /\ tasks > 0 /\ mtx = Free
    /\ \/ /\ shutting_down \/ bg_error
          /\ scheduled' = FALSE /\ tasks' = tasks - 1
          /\ pc' = SignalAll(pc)
          /\ UNCHANGED <<bg, job>>
       \/ /\ ~shutting_down /\ ~bg_error /\ imm # NoMem
          /\ tasks' = tasks - 1 /\ bg' = "flush"
          /\ UNCHANGED <<scheduled, job, pc>>
       \/ /\ ~shutting_down /\ ~bg_error /\ imm = NoMem /\ l0 >= L0Trigger
          /\ \E k \in 1..l0, m \in BOOLEAN :
               /\ m => k = 1
               /\ job' = [job EXCEPT !.inputs = k, !.move = m]
               /\ bg' = IF m THEN "compactlog" ELSE "compact"
          /\ tasks' = tasks - 1
          /\ UNCHANGED <<scheduled, pc>>
    /\ UNCHANGED <<mtx, batch, sync, done, status, writers_info, force, allow_delay,
                   group, seqs, sync_error, memVars, walVars, verVars, bg_error,
                   shutting_down, reader>>

(* DoCompactionWork sees has_imm_ and calls CompactMemTable. *)
NestedFlush ==
    /\ bg = "compact" /\ imm # NoMem /\ mtx = Free
    /\ bg' = "flush"
    /\ job' = [job EXCEPT !.nested = TRUE]
    /\ UNCHANGED <<mtx, callVars, memVars, walVars, verVars, bg_error, scheduled,
                   tasks, shutting_down, reader>>

(* Mutant: the edit names the WAL file after the one in use. *)
EditLogNumber_Next == wal_number + 1

(* edit.SetWalNumber: no WAL file before the memtable's own is needed. *)
EditLogNumber == wal_number

(* BuildSST is over: give the flush up on an error or a shutdown, otherwise *)
(* fix the version edit and release the mutex to write it to the MANIFEST.  *)
(* An empty memtable makes no file; a file may go to a level above 0.       *)
FlushBuilt ==
    /\ bg = "flush" /\ mtx = Free
    /\ \/ /\ shutting_down \/ "build" \in Faults
          /\ bg_error' = TRUE
          /\ EndFlush(TRUE, imm, l0)
       \/ /\ ~shutting_down
          /\ \E n \in (IF mt[imm] = {} THEN {0} ELSE {0, 1}) :
               job' = [job EXCEPT !.log = EditLogNumber, !.l0 = n]
          /\ bg' = "flushlog"
          /\ UNCHANGED <<bg_error, scheduled, tasks, pc>>
    /\ UNCHANGED <<mtx, batch, sync, done, status, writers_info, force, allow_delay,
                   group, seqs, sync_error, memVars, walVars, verVars,
                   shutting_down, reader>>

(* The MANIFEST after an append that went through, or one that did not. *)
ManifestAppend(appended) ==
    IF manifest_torn = "no" THEN (IF appended THEN "no" ELSE "tail")
    ELSE (IF appended THEN "middle" ELSE manifest_torn)

(* VersionSet::LogAndApply without the mutex: append the edit to the        *)
(* MANIFEST and sync it; either can fail.  A recovery cannot read an edit   *)
(* that follows a failed append.                                            *)
FlushLogged ==
    /\ bg = "flushlog"
    /\ \E appended, synced \in BOOLEAN :
        /\ ~(appended /\ synced) => "manifest" \in Faults
        /\ IF appended /\ manifest_torn = "no"
           THEN manifest_log' = job.log /\ manifest_sst' = sst \cup mt[imm]
           ELSE UNCHANGED <<manifest_log, manifest_sst>>
        /\ manifest_torn' = ManifestAppend(appended)
        /\ bg' = IF appended /\ synced THEN "flushapply" ELSE "flushfail"
    /\ UNCHANGED <<mtx, callVars, memVars, walVars, log_number, sst, l0, bg_error,
                   scheduled, tasks, job, shutting_down, reader>>

(* CompactMemTable commits: install the version, drop imm_, and go on to   *)
(* RemoveObsoleteFiles, which does nothing after a background error.       *)
FlushApply ==
    /\ bg = "flushapply" /\ mtx = Free
    /\ log_number' = job.log
    /\ sst' = sst \cup mt[imm]
    /\ l0' = l0 + job.l0
    /\ imm' = NoMem
    /\ IF bg_error THEN EndFlush(TRUE, NoMem, l0 + job.l0)
       ELSE bg' = "remove" /\ UNCHANGED <<scheduled, tasks, job, pc>>
    /\ UNCHANGED <<mtx, batch, sync, done, status, writers_info, force, allow_delay,
                   group, seqs, sync_error, last_sequence, mt, wal_number, walVars,
                   manifest_log, manifest_sst, manifest_torn, bg_error,
                   shutting_down, reader>>

FlushFail ==
    /\ bg = "flushfail" /\ mtx = Free
    /\ bg_error' = TRUE
    /\ EndFlush(TRUE, imm, l0)
    /\ UNCHANGED <<mtx, batch, sync, done, status, writers_info, force, allow_delay,
                   group, seqs, sync_error, memVars, walVars, verVars,
                   shutting_down, reader>>

(* Mutant: the WAL file of the current memtable is obsolete too. *)
KeepWal_After(f) == f > log_number

(* The WAL files RemoveObsoleteFiles keeps: PrevWalNumber() is always 0. *)
KeepWal(f) == f >= log_number

(* The deletions of RemoveObsoleteFiles, made without the mutex, then the  *)
(* rest of the caller's critical section.                                  *)
RemoveObsoleteFiles ==
    /\ bg = "remove" /\ mtx = Free
    /\ wal_files' = {f \in wal_files : KeepWal(f)}
    /\ EndFlush(bg_error, imm, l0)
    /\ UNCHANGED <<mtx, batch, sync, done, status, writers_info, force, allow_delay,
                   group, seqs, sync_error, memVars, wal_recs, wal_synced, wal_torn,
                   verVars, bg_error, shutting_down, reader>>

(* DoCompactionWork's loop is over: an error, or a shutdown it has noticed, *)
(* ends the compaction; otherwise InstallCompactionResults logs the new     *)
(* version.  shutting_down_ is read before the mutex is taken, so that a    *)
(* later shutdown goes unnoticed.                                           *)
CompactionDone ==
    /\ bg = "compact" /\ mtx = Free
    /\ \/ /\ shutting_down \/ "build" \in Faults
          /\ bg_error' = TRUE
          /\ EndBackgroundCall(TRUE, imm, l0)
       \/ /\ bg' = "compactlog"
          /\ UNCHANGED <<bg_error, scheduled, tasks, job, pc>>
    /\ UNCHANGED <<mtx, batch, sync, done, status, writers_info, force, allow_delay,
                   group, seqs, sync_error, memVars, walVars, verVars,
                   shutting_down, reader>>

(* LogAndApply of a compaction: the edit carries the current log number and *)
(* the entries stay the same.  Success installs the version, then           *)
(* RemoveObsoleteFiles runs unless the file was only moved.                 *)
CompactionApply ==
    /\ bg = "compactlog" /\ mtx = Free
    /\ \/ /\ "manifest" \in Faults
          /\ \E appended \in BOOLEAN : manifest_torn' = ManifestAppend(appended)
          /\ bg_error' = TRUE
          /\ EndBackgroundCall(TRUE, imm, l0)
          /\ UNCHANGED l0
       \/ /\ manifest_torn' = ManifestAppend(TRUE)
          /\ l0' = l0 - job.inputs
          /\ IF job.move \/ bg_error
             THEN EndBackgroundCall(bg_error, imm, l0 - job.inputs)
             ELSE bg' = "remove" /\ UNCHANGED <<scheduled, tasks, job, pc>>
          /\ UNCHANGED bg_error
    /\ UNCHANGED <<mtx, batch, sync, done, status, writers_info, force, allow_delay,
                   group, seqs, sync_error, memVars, walVars, log_number,
                   manifest_log, sst, manifest_sst, shutting_down, reader>>

-----------------------------------------------------------------------------
(***************************************************************************)
(* ~DBImpl and DBImpl::Get                                                 *)
(***************************************************************************)

(* ~DBImpl may only run once every call has returned. *)
Close ==
    /\ pc[Closer] = "idle" /\ mtx = Free
    /\ \A w \in Calls : pc[w] \in {"idle", "returned"}
    /\ \A r \in Readers : reader[r].pc # "reading"
    /\ shutting_down' = TRUE
    /\ pc' = [pc EXCEPT ![Closer] = "bgwake"]
    /\ UNCHANGED <<mtx, batch, sync, done, status, writers_info, force, allow_delay,
                   group, seqs, sync_error, memVars, walVars, verVars, bgVars, reader>>

(* Mutant: it only waits for tasks the pool has not started. *)
StillScheduled_Queued == tasks > 0

StillScheduled == scheduled

(* ... and waits until no background work is scheduled. *)
AwaitBackground ==
    /\ pc[Closer] = "bgwake" /\ mtx = Free
    /\ pc' = [pc EXCEPT ![Closer] = IF StillScheduled THEN "bgwait" ELSE "returned"]
    /\ UNCHANGED <<mtx, batch, sync, done, status, writers_info, force, allow_delay,
                   group, seqs, sync_error, memVars, walVars, verVars, bgVars,
                   shutting_down, reader>>

(* Mutant: the immutable memtable is not searched. *)
ReadRefs_NoImm ==
    [pc |-> "reading", snap |-> last_sequence, mem |-> wal_number, imm |-> NoMem,
     sst |-> sst]

(* The snapshot Get reads at and the tables it keeps references to. *)
ReadRefs ==
    [pc |-> "reading", snap |-> last_sequence, mem |-> wal_number, imm |-> imm,
     sst |-> sst]

(* Get takes its snapshot and its references under the mutex ... *)
Get(r) ==
    /\ reader[r].pc = "idle" /\ mtx = Free /\ ~shutting_down
    /\ reader' = [reader EXCEPT ![r] = ReadRefs]
    /\ UNCHANGED <<mtx, callVars, memVars, walVars, verVars, bgVars, shutting_down>>

(* ... and gives them up when it has searched them, without the mutex.     *)
GetDone(r) ==
    /\ reader[r].pc = "reading" /\ mtx = Free
    /\ reader' = [reader EXCEPT ![r].pc = "returned"]
    /\ UNCHANGED <<mtx, callVars, memVars, walVars, verVars, bgVars, shutting_down>>

-----------------------------------------------------------------------------
(* A freshly opened, empty database: DB::Open has created the first WAL    *)
(* file and logged its number.                                             *)
Init ==
    /\ mtx = Free
    /\ pc = [t \in Threads |-> "idle"]
    /\ batch = [w \in Calls |-> 0] /\ sync = [w \in Calls |-> FALSE]
    /\ done = [w \in Calls |-> FALSE] /\ status = [w \in Calls |-> "ok"]
    /\ writers_info = <<>> /\ force = FALSE /\ allow_delay = FALSE
    /\ group = NoGroup /\ seqs = [w \in Calls |-> {}] /\ sync_error = FALSE
    /\ last_sequence = 0 /\ mt = [f \in 1..1 |-> {}] /\ wal_number = 1 /\ imm = NoMem
    /\ wal_files = {1} /\ wal_recs = [f \in 1..1 |-> {}]
    /\ wal_synced = [f \in 1..1 |-> {}] /\ wal_torn = [f \in 1..1 |-> FALSE]
    /\ log_number = 1 /\ manifest_log = 1 /\ sst = {} /\ manifest_sst = {}
    /\ manifest_torn = "no" /\ l0 = 0
    /\ bg_error = FALSE /\ scheduled = FALSE /\ tasks = 0 /\ bg = "idle" /\ job = NoJob
    /\ shutting_down = FALSE
    /\ reader = [r \in Readers |-> [pc |-> "idle", snap |-> 0, mem |-> 1,
                                    imm |-> NoMem, sst |-> {}]]

(* The steps of a call of Write (or TEST_CompactMemTable) once it is made. *)
WriterStep(w) ==
    \/ AwakeWriter(w)
    \/ RoomError(w) \/ RoomDelay(w) \/ SleepDone(w) \/ RoomOK(w) \/ RoomWait(w)
    \/ AwakeRoom(w) \/ RoomSwitchFails(w) \/ RoomSwitch(w)
    \/ AddRecord(w) \/ SyncWal(w) \/ InsertInto(w) \/ FinishWrite(w)
    \/ AwaitFlush(w)

BackgroundStep ==
    \/ BackgroundCall \/ NestedFlush
    \/ FlushBuilt \/ FlushLogged \/ FlushApply \/ FlushFail
    \/ CompactionDone \/ CompactionApply
    \/ RemoveObsoleteFiles

Next ==
    \/ \E w \in Calls :
        \/ \E b \in Batches, s \in Syncs : Write(w, b, s)
        \/ WriterStep(w)
    \/ \E t \in Threads : SpuriousWakeup(t)
    \/ BackgroundStep
    \/ Close \/ AwaitBackground
    \/ \E r \in Readers : Get(r) \/ GetDone(r)

Spec == Init /\ [][Next]_vars

(* Threads are scheduled: a call that has been made, the background thread *)
(* and the thread that closes the database take the steps they can take.   *)
(* Nobody has to make a call, and no wake-up comes without a signal.  The  *)
(* loop of DoCompactionWork goes over a finite input, so that it ends      *)
(* however often it is interrupted by a flush (one that fails is tried     *)
(* again at the next entry): strong fairness of its end.                   *)
Fairness ==
    /\ \A w \in Calls : WF_vars(WriterStep(w))
    /\ WF_vars(BackgroundStep)
    /\ SF_vars(CompactionDone)
    /\ WF_vars(AwaitBackground)
    /\ \A r \in Readers : WF_vars(GetDone(r))

FairSpec == Spec /\ Fairness

-----------------------------------------------------------------------------
(***************************************************************************)
(* Properties                                                              *)
(***************************************************************************)

PCs == {"idle", "cvwait", "cvwake", "room", "sleep", "bgwait", "bgwake", "append",
        "sync", "insert", "relock", "finish", "flushwait", "flushwake", "returned"}

CallTypes ==
    /\ mtx \in Calls \cup {Free} /\ pc \in [Threads -> PCs]
    /\ batch \in [Calls -> NullBatch..MaxBatch] /\ sync \in [Calls -> BOOLEAN]
    /\ done \in [Calls -> BOOLEAN] /\ status \in [Calls -> {"ok", "error"}]
    /\ writers_info \in Seq(Calls)
    /\ group \in [n : Nat, lo : Nat, hi : Nat, ins : Nat]
    /\ seqs \in [Calls -> SUBSET Nat]

DataTypes ==
    /\ last_sequence \in Nat /\ wal_number \in Nat \ {0}
    /\ mt \in [1..wal_number -> SUBSET Nat] /\ imm \in 0..wal_number
    /\ wal_files \subseteq 1..wal_number
    /\ wal_recs \in [1..wal_number -> SUBSET Nat]
    /\ wal_synced \in [1..wal_number -> SUBSET Nat]
    /\ wal_torn \in [1..wal_number -> BOOLEAN]
    /\ log_number \in 1..wal_number /\ manifest_log \in 1..wal_number
    /\ sst \subseteq Nat /\ manifest_sst \subseteq Nat /\ l0 \in Nat
    /\ manifest_torn \in {"no", "tail", "middle"}

Jobs == [nested : BOOLEAN, inputs : Nat, move : BOOLEAN, log : Nat, l0 : 0..1]

BackgroundTypes ==
    /\ tasks \in Nat
    /\ bg \in {"idle", "flush", "flushlog", "flushapply", "flushfail", "compact",
               "compactlog", "remove"}
    /\ job \in Jobs

ReaderTypes ==
    reader \in [Readers -> [pc : {"idle", "reading", "returned"}, snap : Nat,
                            mem : 1..wal_number, imm : 0..wal_number, sst : SUBSET Nat]]

FlagTypes ==
    /\ force \in BOOLEAN /\ allow_delay \in BOOLEAN /\ sync_error \in BOOLEAN
    /\ bg_error \in BOOLEAN /\ scheduled \in BOOLEAN /\ shutting_down \in BOOLEAN

(* Every variable has its type; a WAL number never exceeds the one in use. *)
TypeOK == CallTypes /\ DataTypes /\ BackgroundTypes /\ ReaderTypes /\ FlagTypes

(* Write has decided the outcome of call w. *)
Completed(w) == done[w] \/ pc[w] \in {"returned", "flushwait", "flushwake"}

(* The calls whose entries the database has promised to keep. *)
Acknowledged == {w \in Calls : Completed(w) /\ status[w] = "ok"}
Committed == UNION {seqs[w] : w \in Acknowledged}

(* What a Get finds in the memtables and the version it holds. *)
Memtable(i) == IF i = NoMem THEN {} ELSE mt[i]
View(r) == (mt[reader[r].mem] \cup Memtable(reader[r].imm) \cup reader[r].sst)
             \cap 1..reader[r].snap

(* At every moment of a Get, what its snapshot lets it see is exactly the  *)
(* entries of the writes that had been acknowledged when it began: no      *)
(* entry of a group that is still being inserted, and none lost to a       *)
(* memtable switch or a flush that runs beside it.                         *)
SnapshotRead ==
    \A r \in Readers : reader[r].pc = "reading" =>
        View(r) = Committed \cap 1..reader[r].snap

(* The entries a recovery would find in the MANIFEST's SSTs and in the WAL *)
(* files it would replay, if recs is what can be read of each WAL file.    *)
LiveWals == {f \in wal_files : f >= manifest_log}
Replayed(recs) == manifest_sst \cup UNION {recs[f] : f \in LiveWals}

(* No append to a file that recovery reads has failed half way, but for    *)
(* the last one to the MANIFEST, which recovery takes for its end.         *)
Intact == manifest_torn # "middle" /\ \A f \in LiveWals : ~wal_torn[f]

(* If the process dies at any point, recovery finds every acknowledged     *)
(* entry in the files that CompactMemTable and RemoveObsoleteFiles have    *)
(* left it, as long as these are intact.                                   *)
Recoverable == Intact => Committed \subseteq Replayed(wal_recs)

(* The same for a power failure and the writes that asked for a sync,      *)
(* those that were committed by another writer of their group included.    *)
SyncDurable ==
    Intact => \A w \in Acknowledged : sync[w] => seqs[w] \subseteq Replayed(wal_synced)

(* The README's promise for WAL writes, whatever happened to other appends. *)
WalGuaranteesPersistence ==
    \A w \in Acknowledged : sync[w] => seqs[w] \subseteq Replayed(wal_synced)

(* Level 0 never exceeds the number of files at which writes stop, in a     *)
(* database that began empty (Init).  Recovery may leave more files there:  *)
(* it dumps memtables to level 0 without asking for the limit.              *)
L0Bounded == l0 + (IF imm = NoMem THEN 0 ELSE 1) <= L0Stop

(* Once ~DBImpl has stopped waiting, no background work runs or is queued  *)
(* that would touch the freed database.                                    *)
NoWorkAfterClose == pc[Closer] = "returned" => tasks = 0 /\ bg = "idle"

(* Every call of Write that is made returns. *)
WritesReturn == \A w \in Calls : pc[w] # "idle" ~> pc[w] = "returned"

(* An immutable memtable is flushed, or an error or a shutdown stops it. *)
ImmFlushed == imm # NoMem ~> (imm = NoMem \/ bg_error \/ shutting_down)

(* ~DBImpl terminates. *)
CloseReturns == pc[Closer] # "idle" ~> pc[Closer] = "returned"
-----------------------------------------------------------------------------
(***************************************************************************)
(* Refinement: what the callers see of the write path                      *)
(***************************************************************************)

(* A null batch is part of TEST_CompactMemTable and is over when that is. *)
Outcome(w) ==
    CASE pc[w] = "idle" -> "none"
      [] pc[w] = "returned" \/ (done[w] /\ batch[w] # NullBatch) -> status[w]
      [] OTHER -> "pending"

Abstract == INSTANCE AtomicStore WITH
    outcome <- [w \in Calls |-> Outcome(w)],
    entries <- [w \in Calls |-> IF Outcome(w) = "ok" THEN seqs[w] ELSE {}],
    last <- last_sequence,
    view <- [r \in Readers |-> [begun |-> reader[r].pc # "idle",
                                seen |-> IF reader[r].pc = "idle" THEN {} ELSE View(r)]]

(* Write and Get implement the atomic store, whatever the grouping of the  *)
(* writers, the switches of memtable and the failures.                     *)
ImplementsAtomicStore == Abstract!Spec
=============================================================================
