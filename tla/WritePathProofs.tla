-------------------------- MODULE WritePathProofs --------------------------
(***************************************************************************)
(* Proofs about WritePath, for every value of its constants.               *)
(***************************************************************************)
EXTENDS WritePath, FiniteSetTheorems, WellFoundedInduction, TLAPS

-----------------------------------------------------------------------------
(***************************************************************************)
(* Counting the entries of a group                                         *)
(***************************************************************************)

(* The entries of the first n batches of a queue are finite in number. *)
LEMMA CountType ==
    ASSUME NEW q, NEW n \in Int
    PROVE  /\ IsFiniteSet(GroupEntries(q, n))
           /\ Count(q, n) \in Nat
<1>1. IsFiniteSet(1..n) /\ IsFiniteSet(1..MaxBatch)
  BY FS_Interval, ConstantsAssumption
<1>2. IsFiniteSet((1..n) \X (1..MaxBatch))
  BY <1>1, FS_Product
<1>3. GroupEntries(q, n) \subseteq (1..n) \X (1..MaxBatch)
  BY DEF GroupEntries
<1>4. IsFiniteSet(GroupEntries(q, n))
  BY <1>2, <1>3, FS_Subset
<1>. QED
  BY <1>4, FS_CardinalityType DEF Count

(* The count does not decrease when the group grows. *)
LEMMA CountMonotone ==
    ASSUME NEW q, NEW m \in Int, NEW n \in Int, m <= n
    PROVE  Count(q, m) <= Count(q, n)
<1>1. GroupEntries(q, m) \subseteq GroupEntries(q, n)
  BY DEF GroupEntries
<1>. QED
  BY <1>1, CountType, FS_Subset DEF Count

-----------------------------------------------------------------------------
(***************************************************************************)
(* Types, and what the background thread may rely on when it takes the     *)
(* mutex again                                                             *)
(***************************************************************************)

Flushing == bg \in {"flush", "flushlog", "flushapply", "flushfail"}

JobInv ==
    /\ Flushing => imm # NoMem
    /\ bg \in {"flushlog", "flushapply"} => job.log = wal_number
    /\ (bg \in {"compact", "compactlog"} \/ job.nested) => job.inputs <= l0
    /\ bg \in {"idle", "compact", "compactlog"} => ~job.nested

TypeInv == TypeOK /\ JobInv

USE DEF Threads, Free, Closer, NullBatch, NoMem

LEMMA SignalWritersType ==
    ASSUME NEW S, NEW p \in [Threads -> PCs]
    PROVE  SignalWriters(p, S) \in [Threads -> PCs]
BY DEF SignalWriters, PCs

LEMMA SignalAllType ==
    ASSUME NEW p \in [Threads -> PCs]
    PROVE  SignalAll(p) \in [Threads -> PCs]
BY DEF SignalAll, PCs

LEMMA InitType == Init => TypeInv
<1>. SUFFICES ASSUME Init PROVE TypeInv
  OBVIOUS
<1>. USE DEF Init
<1>1. CallTypes
  BY ConstantsAssumption DEF CallTypes, PCs, NoGroup
<1>2. DataTypes
  BY DEF DataTypes
<1>3. BackgroundTypes /\ JobInv
  BY DEF BackgroundTypes, JobInv, Flushing, NoJob, Jobs
<1>4. ReaderTypes
  BY DEF ReaderTypes
<1>5. FlagTypes
  BY Zenon DEF FlagTypes
<1>. QED
  BY <1>1, <1>2, <1>3, <1>4, <1>5 DEF TypeInv, TypeOK

(* The flags stay Boolean. *)
LEMMA FlagsStayBoolean ==
    ASSUME FlagTypes, [Next]_vars
    PROVE  FlagTypes'
<1>. USE DEF FlagTypes, callVars, memVars, walVars, verVars, bgVars
<1>1. ASSUME NEW w \in Calls, NEW b \in Batches, NEW s \in Syncs, Write(w, b, s)
      PROVE  FlagTypes'
  BY <1>1, Zenon DEF Write
<1>2. ASSUME NEW w \in Calls, AwakeWriter(w)
      PROVE  FlagTypes'
  BY <1>2, Zenon DEF AwakeWriter
<1>3. ASSUME NEW w \in Calls, RoomError(w) \/ RoomDelay(w) \/ SleepDone(w)
      PROVE  FlagTypes'
  BY <1>3, Zenon DEF RoomError, RoomDelay, SleepDone
<1>4. ASSUME NEW w \in Calls, RoomOK(w) \/ RoomWait(w) \/ AwakeRoom(w)
      PROVE  FlagTypes'
  BY <1>4, Zenon DEF RoomOK, RoomWait, AwakeRoom
<1>5. ASSUME NEW w \in Calls, RoomSwitchFails(w)
      PROVE  FlagTypes'
  BY <1>5, Zenon DEF RoomSwitchFails
<1>6. ASSUME NEW w \in Calls, RoomSwitch(w)
      PROVE  FlagTypes'
  BY <1>6, Zenon DEF RoomSwitch, RecordBackgroundError, MaybeScheduleCompaction, NeedsWork
<1>7. ASSUME NEW w \in Calls, AddRecord(w) \/ InsertInto(w) \/ AwaitFlush(w)
      PROVE  FlagTypes'
  BY <1>7, Zenon DEF AddRecord, InsertInto, AwaitFlush
<1>8. ASSUME NEW w \in Calls, SyncWal(w)
      PROVE  FlagTypes'
  BY <1>8, Zenon DEF SyncWal
<1>9. ASSUME NEW w \in Calls, FinishWrite(w)
      PROVE  FlagTypes'
  BY <1>9, Zenon DEF FinishWrite, RecordBackgroundError
<1>10. CASE BackgroundCall \/ NestedFlush
  BY <1>10, Zenon DEF BackgroundCall, NestedFlush
<1>11. CASE FlushBuilt \/ FlushFail
  BY <1>11, Zenon DEF FlushBuilt, FlushFail, EndFlush, EndBackgroundCall,
                      MaybeScheduleCompaction
<1>12. CASE FlushLogged \/ FlushApply
  BY <1>12, Zenon DEF FlushLogged, FlushApply, EndFlush, EndBackgroundCall,
                      MaybeScheduleCompaction
<1>13. CASE CompactionDone \/ CompactionApply \/ RemoveObsoleteFiles
  BY <1>13, Zenon DEF CompactionDone, CompactionApply, RemoveObsoleteFiles, EndFlush,
                      EndBackgroundCall, MaybeScheduleCompaction
<1>14. ASSUME NEW t \in Threads, SpuriousWakeup(t)
       PROVE  FlagTypes'
  BY <1>14, Zenon DEF SpuriousWakeup
<1>15. CASE Close \/ AwaitBackground
  BY <1>15, Zenon DEF Close, AwaitBackground
<1>16. ASSUME NEW r \in Readers, Get(r) \/ GetDone(r)
       PROVE  FlagTypes'
  BY <1>16, Zenon DEF Get, GetDone
<1>17. CASE UNCHANGED vars
  BY <1>17, Zenon DEF vars
<1>. QED
  BY <1>1, <1>2, <1>3, <1>4, <1>5, <1>6, <1>7, <1>8, <1>9, <1>10, <1>11, <1>12,
     <1>13, <1>14, <1>15, <1>16, <1>17, Zenon DEF Next, WriterStep, BackgroundStep

(* What is left of TypeInv' once the flags are known to be Boolean. *)
Typed == CallTypes /\ DataTypes /\ BackgroundTypes /\ ReaderTypes /\ JobInv

(* A step that changes no file, no version and no background state. *)
LEMMA OnlyCalls ==
    ASSUME Typed, UNCHANGED <<memVars, walVars, verVars, tasks, bg, job, reader>>
    PROVE  DataTypes' /\ BackgroundTypes' /\ ReaderTypes' /\ JobInv'
BY DEF Typed, DataTypes, BackgroundTypes, ReaderTypes, JobInv, Flushing, memVars,
       walVars, verVars

(* The steps of a call up to the point where it has the mutex and room. *)
LEMMA TypedEnter ==
    ASSUME Typed, NEW w \in Calls, NEW b \in Batches, NEW s \in Syncs, Write(w, b, s)
    PROVE  Typed'
<1>. USE DEF Typed, CallTypes
<1>1. DataTypes' /\ BackgroundTypes' /\ ReaderTypes' /\ JobInv'
  BY OnlyCalls DEF Write, bgVars
<1>2. sync' \in [Calls -> BOOLEAN] /\ done' \in [Calls -> BOOLEAN]
  BY ConstantsAssumption, Zenon DEF Write
<1>3. mtx' \in Calls \cup {Free} /\ pc' \in [Threads -> PCs]
  BY DEF Write, PCs
<1>4. /\ batch' \in [Calls -> NullBatch..MaxBatch] /\ status' \in [Calls -> {"ok", "error"}]
      /\ writers_info' \in Seq(Calls)
      /\ group' \in [n : Nat, lo : Nat, hi : Nat, ins : Nat]
      /\ seqs' \in [Calls -> SUBSET Nat]
  BY ConstantsAssumption DEF Write
<1>. QED
  BY <1>1, <1>2, <1>3, <1>4

LEMMA TypedWait ==
    ASSUME Typed, NEW w \in Calls,
           \/ AwakeWriter(w) \/ RoomError(w) \/ RoomDelay(w) \/ SleepDone(w)
           \/ RoomWait(w) \/ AwakeRoom(w) \/ RoomSwitchFails(w) \/ AwaitFlush(w)
    PROVE  Typed'
<1>1. /\ UNCHANGED <<memVars, walVars, verVars, tasks, bg, job, reader>>
      /\ UNCHANGED <<batch, sync, done, writers_info, group, seqs>>
  BY DEF AwakeWriter, RoomError, RoomDelay, SleepDone, RoomWait, AwakeRoom,
         RoomSwitchFails, AwaitFlush, bgVars
<1>2. mtx' \in Calls \cup {Free} /\ pc' \in [Threads -> PCs]
  BY DEF AwakeWriter, RoomError, RoomDelay, SleepDone, RoomWait, AwakeRoom, AfterWrite,
         RoomSwitchFails, AwaitFlush, Typed, CallTypes, PCs
<1>3. status' \in [Calls -> {"ok", "error"}]
  BY DEF AwakeWriter, RoomError, RoomDelay, SleepDone, RoomWait, AwakeRoom, AfterWrite,
         RoomSwitchFails, AwaitFlush, Typed, CallTypes
<1>. QED
  BY <1>1, <1>2, <1>3, OnlyCalls DEF Typed, CallTypes

LEMMA GroupSeqsType ==
    ASSUME group \in [n : Nat, lo : Nat, hi : Nat, ins : Nat]
    PROVE  GroupSeqs \subseteq Nat
<1>1. group.lo \in Nat /\ group.hi \in Nat
  OBVIOUS
<1>. QED
  BY <1>1 DEF GroupSeqs

(* The steps that write the group's record and insert its entries. *)
LEMMA TypedLog ==
    ASSUME Typed, NEW w \in Calls, AddRecord(w) \/ SyncWal(w) \/ InsertInto(w)
    PROVE  Typed'
<1>1. /\ UNCHANGED <<mtx, batch, sync, done, writers_info, seqs>>
      /\ UNCHANGED <<last_sequence, wal_number, imm, wal_files, verVars, bgVars, reader>>
  BY DEF AddRecord, SyncWal, InsertInto, memVars, walVars
<1>2. pc' \in [Threads -> PCs] /\ status' \in [Calls -> {"ok", "error"}]
  BY DEF AddRecord, SyncWal, InsertInto, Typed, CallTypes, PCs
<1>3. group' \in [n : Nat, lo : Nat, hi : Nat, ins : Nat]
  <2>1. CASE AddRecord(w) \/ SyncWal(w)
    BY <2>1 DEF AddRecord, SyncWal, Typed, CallTypes
  <2>2. CASE InsertInto(w) /\ group.ins < group.hi
    <3>1. group' = [group EXCEPT !.ins = group.ins + 1]
      BY <2>2 DEF InsertInto
    <3>2. group \in [n : Nat, lo : Nat, hi : Nat, ins : Nat]
      BY DEF Typed, CallTypes
    <3>. QED
      BY <3>1, <3>2
  <2>3. CASE InsertInto(w) /\ ~(group.ins < group.hi)
    BY <2>3 DEF InsertInto, Typed, CallTypes
  <2>. QED
    BY <2>1, <2>2, <2>3
<1>4. CallTypes'
  BY <1>1, <1>2, <1>3 DEF Typed, CallTypes
<1>5. /\ mt' \in [1..wal_number -> SUBSET Nat]
      /\ wal_recs' \in [1..wal_number -> SUBSET Nat]
      /\ wal_synced' \in [1..wal_number -> SUBSET Nat]
  <2>. /\ group \in [n : Nat, lo : Nat, hi : Nat, ins : Nat]
       /\ wal_number \in Nat \ {0} /\ mt \in [1..wal_number -> SUBSET Nat]
       /\ wal_recs \in [1..wal_number -> SUBSET Nat]
       /\ wal_synced \in [1..wal_number -> SUBSET Nat]
    BY DEF Typed, CallTypes, DataTypes
  <2>1. CASE AddRecord(w)
    <3>1. GroupSeqs \subseteq Nat
      BY GroupSeqsType
    <3>2. wal_recs' \in [1..wal_number -> SUBSET Nat]
      <4>1. \/ wal_recs' = wal_recs
            \/ wal_recs' = [wal_recs EXCEPT ![wal_number] = @ \cup GroupSeqs]
        BY <2>1, Zenon DEF AddRecord
      <4>. QED
        BY <3>1, <4>1
    <3>. QED
      BY <2>1, <3>2 DEF AddRecord, memVars
  <2>2. CASE SyncWal(w)
    BY <2>2 DEF SyncWal, memVars
  <2>3. CASE InsertInto(w) /\ group.ins < group.hi
    <3>1. mt' = [mt EXCEPT ![wal_number] = @ \cup {group.ins + 1}]
      BY <2>3 DEF InsertInto
    <3>. QED
      BY <3>1, <2>3 DEF InsertInto, walVars
  <2>4. CASE InsertInto(w) /\ ~(group.ins < group.hi)
    BY <2>4 DEF InsertInto, walVars
  <2>. QED
    BY <2>1, <2>2, <2>3, <2>4
<1>6. wal_torn' \in [1..wal_number -> BOOLEAN]
  BY Zenon DEF AddRecord, SyncWal, InsertInto, walVars, Typed, DataTypes
<1>7. DataTypes'
  BY <1>1, <1>5, <1>6 DEF Typed, DataTypes, verVars
<1>8. BackgroundTypes' /\ ReaderTypes' /\ JobInv'
  BY <1>1 DEF Typed, BackgroundTypes, ReaderTypes, JobInv, Flushing, verVars, bgVars
<1>. QED
  BY <1>4, <1>7, <1>8 DEF Typed

(* The count of a group is what separates its first and last numbers. *)
LEMMA TypedRoomOK ==
    ASSUME Typed, NEW w \in Calls, RoomOK(w)
    PROVE  Typed'
<1>1. /\ UNCHANGED <<memVars, walVars, verVars, tasks, bg, job, reader>>
      /\ UNCHANGED <<batch, sync, done, writers_info>>
  BY DEF RoomOK, bgVars
<1>2. mtx' \in Calls \cup {Free} /\ pc' \in [Threads -> PCs]
  BY DEF RoomOK, Typed, CallTypes, PCs
<1>3. status' \in [Calls -> {"ok", "error"}]
  BY DEF RoomOK, Typed, CallTypes
<1>4. /\ group' \in [n : Nat, lo : Nat, hi : Nat, ins : Nat]
      /\ seqs' \in [Calls -> SUBSET Nat]
  <2>1. CASE UNCHANGED <<group, seqs>>
    BY <2>1 DEF Typed, CallTypes
  <2>2. CASE \E n \in 1..Len(writers_info) :
                /\ group' = [n |-> n, lo |-> last_sequence, ins |-> last_sequence,
                             hi |-> last_sequence + Count(writers_info, n)]
                /\ seqs' = [c \in Calls |->
                      IF \E i \in 1..n : writers_info[i] = c
                      THEN UNION {BatchSeqs(writers_info, i, last_sequence) :
                                    i \in {j \in 1..n : writers_info[j] = c}}
                      ELSE seqs[c]]
    <3>1. PICK n \in 1..Len(writers_info) :
                /\ group' = [n |-> n, lo |-> last_sequence, ins |-> last_sequence,
                             hi |-> last_sequence + Count(writers_info, n)]
                /\ seqs' = [c \in Calls |->
                      IF \E i \in 1..n : writers_info[i] = c
                      THEN UNION {BatchSeqs(writers_info, i, last_sequence) :
                                    i \in {j \in 1..n : writers_info[j] = c}}
                      ELSE seqs[c]]
      BY <2>2
    <3>2. last_sequence \in Nat /\ writers_info \in Seq(Calls) /\ n \in Nat
      BY DEF Typed, CallTypes, DataTypes
    <3>3. Count(writers_info, n) \in Nat
      BY <3>2, CountType
    <3>4. group' \in [n : Nat, lo : Nat, hi : Nat, ins : Nat]
      BY <3>1, <3>2, <3>3
    <3>5. ASSUME NEW i \in 1..n
          PROVE  BatchSeqs(writers_info, i, last_sequence) \subseteq Nat
      <4>1. Count(writers_info, i) \in Nat /\ Count(writers_info, i - 1) \in Nat
        BY <3>2, CountType
      <4>. QED
        BY <4>1, <3>2 DEF BatchSeqs
    <3>6. seqs \in [Calls -> SUBSET Nat]
      BY DEF Typed, CallTypes
    <3>7. seqs' \in [Calls -> SUBSET Nat]
      BY <3>1, <3>5, <3>6
    <3>. QED
      BY <3>4, <3>7
  <2>. QED
    BY <2>1, <2>2 DEF RoomOK
<1>. QED
  BY <1>1, <1>2, <1>3, <1>4, OnlyCalls DEF Typed, CallTypes

LEMMA ExtendType ==
    ASSUME NEW V, NEW f, NEW x \in V, wal_number \in Nat \ {0}, f \in [1..wal_number -> V]
    PROVE  Extend(f, x) \in [1..(wal_number + 1) -> V]
BY DEF Extend

(* A switch is only made when nothing is being flushed, so that the log     *)
(* number of a flush in progress cannot become stale.                       *)
LEMMA TypedRoomSwitch ==
    ASSUME Typed, NEW w \in Calls, RoomSwitch(w)
    PROVE  Typed'
<1>1. /\ UNCHANGED <<mtx, batch, sync, done, status, writers_info, group, seqs>>
      /\ UNCHANGED <<last_sequence, verVars, bg, job, reader>>
      /\ imm = NoMem /\ imm' = wal_number /\ wal_number' = wal_number + 1
      /\ wal_files' = wal_files \cup {wal_number + 1}
  BY DEF RoomSwitch, RoomCanSwitch
<1>2. wal_number \in Nat \ {0}
  BY DEF Typed, DataTypes
<1>3. pc' \in [Threads -> PCs]
  <2>1. pc' = pc \/ pc' = SignalAll(pc)
    BY Zenon DEF RoomSwitch, RecordBackgroundError
  <2>. QED
    BY <2>1, SignalAllType, Zenon DEF Typed, CallTypes
<1>4. CallTypes'
  BY <1>1, <1>3 DEF Typed, CallTypes
<1>5. /\ mt' \in [1..wal_number' -> SUBSET Nat]
      /\ wal_recs' \in [1..wal_number' -> SUBSET Nat]
      /\ wal_synced' \in [1..wal_number' -> SUBSET Nat]
      /\ wal_torn' \in [1..wal_number' -> BOOLEAN]
  <2>1. /\ mt' = Extend(mt, {}) /\ wal_recs' = Extend(wal_recs, {})
        /\ wal_synced' = Extend(wal_synced, {}) /\ wal_torn' = Extend(wal_torn, FALSE)
    BY DEF RoomSwitch
  <2>2. /\ mt \in [1..wal_number -> SUBSET Nat]
        /\ wal_recs \in [1..wal_number -> SUBSET Nat]
        /\ wal_synced \in [1..wal_number -> SUBSET Nat]
        /\ wal_torn \in [1..wal_number -> BOOLEAN]
    BY DEF Typed, DataTypes
  <2>3. {} \in SUBSET Nat /\ FALSE \in BOOLEAN
    BY Zenon
  <2>. QED
    BY <1>1, <1>2, <2>1, <2>2, <2>3, ExtendType, Zenon
<1>6. /\ wal_files' \subseteq 1..wal_number' /\ imm' \in 0..wal_number'
      /\ log_number' \in 1..wal_number' /\ manifest_log' \in 1..wal_number'
  BY <1>1, <1>2 DEF Typed, DataTypes, verVars
<1>7. DataTypes'
  BY <1>1, <1>2, <1>5, <1>6 DEF Typed, DataTypes, verVars
<1>8. tasks' \in Nat
  BY DEF RoomSwitch, Typed, BackgroundTypes
<1>9. BackgroundTypes' /\ JobInv'
  BY <1>1, <1>2, <1>8 DEF Typed, BackgroundTypes, JobInv, Flushing, verVars
<1>10. ReaderTypes'
  <2>1. 1..wal_number \subseteq 1..wal_number' /\ 0..wal_number \subseteq 0..wal_number'
    BY <1>1, <1>2
  <2>. QED
    BY <1>1, <2>1 DEF Typed, ReaderTypes
<1>. QED
  BY <1>4, <1>7, <1>9, <1>10 DEF Typed

LEMMA TypedFinish ==
    ASSUME Typed, NEW w \in Calls, FinishWrite(w)
    PROVE  Typed'
<1>1. /\ UNCHANGED <<batch, sync, seqs, mt, wal_number, imm, walVars, verVars>>
      /\ UNCHANGED <<tasks, bg, job, reader>>
      /\ mtx' = Free /\ group' = NoGroup
      /\ last_sequence' = IF group.n = 0 THEN last_sequence ELSE group.hi
  BY DEF FinishWrite
<1>. DEFINE n == GroupLength
            members == {writers_info[i] : i \in 2..n}
            rest == SubSeq(writers_info, n + 1, Len(writers_info))
            p == [pc EXCEPT ![w] = AfterWrite(w, status[w])]
            woken == SignalWriters(p, members \cup NewFront(rest))
<1>2. /\ writers_info' = rest
      /\ done' = [c \in Calls |-> done[c] \/ c \in members]
      /\ status' = [c \in Calls |-> IF c \in members THEN status[w] ELSE status[c]]
      /\ pc' = woken \/ pc' = SignalAll(woken)
  BY Zenon DEF FinishWrite, RecordBackgroundError
<1>3. writers_info \in Seq(Calls) /\ n \in Nat
  BY DEF Typed, CallTypes, GroupLength
<1>4. writers_info' \in Seq(Calls)
  BY <1>2, <1>3
<1>5. pc' \in [Threads -> PCs]
  <2>1. p \in [Threads -> PCs]
    <3>1. pc \in [Threads -> PCs] /\ AfterWrite(w, status[w]) \in PCs
      BY DEF Typed, CallTypes, PCs, AfterWrite
    <3>. QED
      BY <3>1
  <2>2. woken \in [Threads -> PCs]
    BY <2>1, SignalWritersType
  <2>. QED
    BY <1>2, <2>2, SignalAllType, Zenon
<1>6. done' \in [Calls -> BOOLEAN]
  BY <1>2, Zenon DEF Typed, CallTypes
<1>7. status' \in [Calls -> {"ok", "error"}]
  BY <1>2 DEF Typed, CallTypes
<1>8. group' \in [n : Nat, lo : Nat, hi : Nat, ins : Nat]
  BY <1>1 DEF NoGroup
<1>9. CallTypes'
  BY <1>1, <1>4, <1>5, <1>6, <1>7, <1>8 DEF Typed, CallTypes
<1>10. last_sequence' \in Nat
  BY <1>1 DEF Typed, CallTypes, DataTypes
<1>11. DataTypes' /\ BackgroundTypes' /\ ReaderTypes' /\ JobInv'
  BY <1>1, <1>10 DEF Typed, DataTypes, BackgroundTypes, ReaderTypes, JobInv, Flushing,
                     walVars, verVars
<1>. QED
  BY <1>9, <1>11 DEF Typed

LEMMA JobAfterNested ==
    ASSUME NEW j \in Jobs, NEW k,
           k = [nested |-> FALSE, inputs |-> j.inputs, move |-> j.move, log |-> 0, l0 |-> 0]
    PROVE  k \in Jobs /\ ~k.nested /\ k.inputs = j.inputs
<1>1. ASSUME NEW b \in BOOLEAN
      PROVE  [nested |-> b, inputs |-> j.inputs, move |-> j.move, log |-> 0, l0 |-> 0] \in Jobs
  BY DEF Jobs
<1>2. k \in Jobs
  BY <1>1, FALSE \in BOOLEAN, Zenon
<1>. QED
  BY <1>2

LEMMA JobInputs ==
    ASSUME NEW j \in Jobs, NEW n \in Nat, NEW m \in BOOLEAN, NEW k,
           k = [j EXCEPT !.inputs = n, !.move = m]
    PROVE  k \in Jobs /\ k.inputs = n
BY DEF Jobs

LEMMA JobNested ==
    ASSUME NEW j \in Jobs, NEW k, k = [j EXCEPT !.nested = TRUE]
    PROVE  k \in Jobs /\ k.inputs = j.inputs
BY DEF Jobs

(* CompactMemTable and DoCompactionWork return with all waiters signalled. *)
LEMMA TypedEndFlush ==
    ASSUME Typed, NEW e, NEW i, NEW files, EndFlush(e, i, files)
    PROVE  /\ pc' \in [Threads -> PCs]
           /\ tasks' \in Nat /\ bg' \in {"idle", "compact"}
           /\ job' \in Jobs
           /\ ~job'.nested
           /\ bg' = "compact" => job'.inputs = job.inputs /\ job.nested
<1>1. pc' = SignalAll(pc)
  BY Zenon DEF EndFlush, EndBackgroundCall
<1>2. pc' \in [Threads -> PCs]
  BY <1>1, SignalAllType DEF Typed, CallTypes
<1>3. tasks \in Nat
      /\ job \in Jobs
  BY DEF Typed, BackgroundTypes
<1>4. CASE job.nested
  <2>1. /\ job' = [nested |-> FALSE, inputs |-> job.inputs, move |-> job.move,
                    log |-> 0, l0 |-> 0]
        /\ bg' = "compact" /\ tasks' = tasks
    BY <1>4 DEF EndFlush
  <2>. QED
    <3>1. job' \in Jobs /\ ~job'.nested /\ job'.inputs = job.inputs
      BY <1>3, <2>1, JobAfterNested
    <3>. QED
      BY <1>2, <1>3, <1>4, <2>1, <3>1
<1>5. CASE ~job.nested
  <2>1. job' = NoJob /\ bg' = "idle" /\ (tasks' = tasks \/ tasks' = tasks + 1)
    BY <1>5 DEF EndFlush, EndBackgroundCall
  <2>. QED
    BY <1>2, <1>3, <2>1 DEF NoJob, Jobs
<1>. QED
  BY <1>4, <1>5

LEMMA TypedEndBackgroundCall ==
    ASSUME Typed, NEW e, NEW i, NEW files, EndBackgroundCall(e, i, files)
    PROVE  pc' \in [Threads -> PCs] /\ tasks' \in Nat /\ bg' = "idle" /\ job' = NoJob
<1>1. tasks \in Nat /\ pc \in [Threads -> PCs]
  BY DEF Typed, CallTypes, BackgroundTypes
<1>2. /\ pc' = SignalAll(pc) /\ bg' = "idle" /\ job' = NoJob
      /\ tasks' = tasks \/ tasks' = tasks + 1
  BY Zenon DEF EndBackgroundCall
<1>. QED
  BY <1>1, <1>2, SignalAllType

LEMMA TypedBackgroundCall ==
    ASSUME Typed, BackgroundCall \/ NestedFlush
    PROVE  Typed'
<1>1. /\ UNCHANGED <<mtx, batch, sync, done, status, writers_info, group, seqs>>
      /\ UNCHANGED <<memVars, walVars, verVars, reader>>
  BY DEF BackgroundCall, NestedFlush, callVars
<1>2. pc' \in [Threads -> PCs]
  <2>1. pc' = pc \/ pc' = SignalAll(pc)
    BY Zenon DEF BackgroundCall, NestedFlush, callVars
  <2>. QED
    BY <2>1, SignalAllType DEF Typed, CallTypes
<1>3. CallTypes' /\ DataTypes' /\ ReaderTypes'
  BY <1>1, <1>2 DEF Typed, CallTypes, DataTypes, ReaderTypes, memVars, walVars, verVars
<1>4. /\ tasks \in Nat /\ l0 \in Nat /\ l0' = l0 /\ imm' = imm /\ wal_number' = wal_number
      /\ job \in Jobs
  BY <1>1 DEF Typed, BackgroundTypes, DataTypes, memVars, verVars
<1>5. BackgroundTypes' /\ JobInv'
  <2>1. CASE BackgroundCall /\ UNCHANGED <<bg, job>>
    BY <1>4, <2>1 DEF BackgroundCall, Typed, BackgroundTypes, JobInv, Flushing
  <2>2. CASE BackgroundCall /\ imm # NoMem /\ UNCHANGED job /\ bg' = "flush"
    BY <1>4, <2>2 DEF BackgroundCall, Typed, BackgroundTypes, JobInv, Flushing
  <2>3. ASSUME NEW k \in 1..l0, NEW m \in BOOLEAN, BackgroundCall,
               job' = [job EXCEPT !.inputs = k, !.move = m],
               bg' \in {"compact", "compactlog"}
        PROVE  BackgroundTypes' /\ JobInv'
    <3>1. tasks' = tasks - 1 /\ tasks > 0
      BY <2>3, Zenon DEF BackgroundCall
    <3>2. job' \in Jobs /\ job'.inputs = k /\ (job'.nested => job.nested)
      <4>1. k \in Nat
        BY <1>4, <2>3
      <4>2. job \in Jobs /\ m \in BOOLEAN /\ job' = [job EXCEPT !.inputs = k, !.move = m]
        BY <1>4, <2>3, Zenon
      <4>. QED
        <5>1. job' \in Jobs /\ job'.inputs = k
          BY <4>1, <4>2, JobInputs
        <5>2. job'.nested => job.nested
          BY <4>2 DEF Jobs
        <5>. QED
          BY <5>1, <5>2
    <3>. QED
      <4>1. ~job.nested
        BY <2>3, Zenon DEF BackgroundCall, Typed, JobInv
      <4>. QED
        BY <1>4, <2>3, <3>1, <3>2, <4>1 DEF BackgroundTypes, JobInv, Flushing
  <2>4. CASE NestedFlush
    <3>1. job' \in Jobs /\ job'.inputs = job.inputs
      BY <1>4, <2>4, JobNested DEF NestedFlush
    <3>2. bg = "compact" /\ imm # NoMem /\ bg' = "flush" /\ tasks' = tasks
      BY <2>4 DEF NestedFlush
    <3>. QED
      BY <1>4, <3>1, <3>2 DEF Typed, BackgroundTypes, JobInv, Flushing
  <2>. QED
    BY <2>1, <2>2, <2>3, <2>4 DEF BackgroundCall
<1>. QED
  BY <1>3, <1>5 DEF Typed

(* The fields of a step of the background thread that all its steps keep. *)
LEMMA BackgroundFrame ==
    ASSUME Typed,
           \/ FlushBuilt \/ FlushLogged \/ FlushApply \/ FlushFail
           \/ CompactionDone \/ CompactionApply \/ RemoveObsoleteFiles
    PROVE  /\ UNCHANGED <<mtx, batch, sync, done, status, writers_info, group, seqs>>
           /\ UNCHANGED <<last_sequence, mt, wal_number, wal_recs, wal_synced, wal_torn>>
           /\ UNCHANGED reader
           /\ pc' \in [Threads -> PCs] => CallTypes'
           /\ ReaderTypes'
<1>1. /\ UNCHANGED <<mtx, batch, sync, done, status, writers_info, group, seqs>>
      /\ UNCHANGED <<last_sequence, mt, wal_number, wal_recs, wal_synced, wal_torn>>
      /\ UNCHANGED reader
  BY Zenon DEF FlushBuilt, FlushLogged, FlushApply, FlushFail, CompactionDone, CompactionApply,
         RemoveObsoleteFiles, callVars, memVars, walVars
<1>. QED
  BY <1>1 DEF Typed, CallTypes, ReaderTypes

LEMMA ManifestAppendType ==
    ASSUME manifest_torn \in {"no", "tail", "middle"}, NEW a \in BOOLEAN
    PROVE  ManifestAppend(a) \in {"no", "tail", "middle"}
BY DEF ManifestAppend

LEMMA TypedFlushBuilt ==
    ASSUME Typed, FlushBuilt
    PROVE  Typed'
<1>1. /\ bg = "flush" /\ UNCHANGED <<memVars, walVars, verVars>>
  BY DEF FlushBuilt
<1>2. DataTypes'
  BY <1>1 DEF Typed, DataTypes, memVars, walVars, verVars
<1>3. /\ job \in Jobs /\ tasks \in Nat /\ wal_number \in Nat /\ l0 \in Nat
      /\ wal_number' = wal_number /\ imm' = imm /\ l0' = l0
      /\ imm # NoMem /\ (job.nested => job.inputs <= l0)
  BY <1>1 DEF Typed, BackgroundTypes, DataTypes, JobInv, Flushing, memVars, verVars
<1>4. CASE EndFlush(TRUE, imm, l0)
  BY <1>2, <1>3, <1>4, TypedEndFlush, BackgroundFrame
     DEF Typed, BackgroundTypes, JobInv, Flushing
<1>5. ASSUME NEW n \in 0..1, job' = [job EXCEPT !.log = EditLogNumber, !.l0 = n],
             bg' = "flushlog", UNCHANGED <<tasks, pc>>
      PROVE  Typed'
  <2>1. job' \in Jobs /\ job'.log = wal_number /\ job'.inputs = job.inputs
        /\ (job'.nested => job.nested)
    <3>1. job' \in Jobs /\ job'.log = wal_number /\ job'.inputs = job.inputs
      <4>1. /\ job \in Jobs /\ wal_number \in Nat /\ n \in 0..1
            /\ job' = [job EXCEPT !.log = wal_number, !.l0 = n]
        BY <1>3, <1>5, Zenon DEF EditLogNumber
      <4>. QED
        BY <4>1 DEF Jobs
    <3>2. job'.nested => job.nested
      BY <1>3, <1>5 DEF Jobs
    <3>. QED
      BY <3>1, <3>2
  <2>2. BackgroundTypes' /\ JobInv'
    BY <1>3, <1>5, <2>1 DEF BackgroundTypes, JobInv, Flushing
  <2>3. pc' \in [Threads -> PCs]
    BY <1>5 DEF Typed, CallTypes
  <2>. QED
    BY <1>2, <2>2, <2>3, BackgroundFrame DEF Typed
<1>6. \/ EndFlush(TRUE, imm, l0)
      \/ \E n \in 0..1 : /\ job' = [job EXCEPT !.log = EditLogNumber, !.l0 = n]
                         /\ bg' = "flushlog" /\ UNCHANGED <<tasks, pc>>
  <2>1. \A S : (IF S = {} THEN {0} ELSE {0, 1}) \subseteq 0..1
    OBVIOUS
  <2>. QED
    BY <2>1, Zenon DEF FlushBuilt
<1>. QED
  BY <1>4, <1>5, <1>6

LEMMA TypedFlushLogged ==
    ASSUME Typed, FlushLogged
    PROVE  Typed'
<1>1. /\ bg = "flushlog" /\ bg' \in {"flushapply", "flushfail"}
      /\ UNCHANGED <<memVars, walVars, log_number, sst, l0, tasks, job, pc>>
  BY DEF FlushLogged, callVars
<1>2. /\ wal_number \in Nat \ {0} /\ imm \in 0..wal_number /\ imm # NoMem
      /\ job.log = wal_number /\ sst \subseteq Nat /\ mt \in [1..wal_number -> SUBSET Nat]
      /\ manifest_torn \in {"no", "tail", "middle"}
  BY <1>1 DEF Typed, DataTypes, JobInv, Flushing
<1>3. \/ manifest_log' = job.log /\ manifest_sst' = sst \cup mt[imm]
      \/ UNCHANGED <<manifest_log, manifest_sst>>
  BY Zenon DEF FlushLogged
<1>4. manifest_torn' \in {"no", "tail", "middle"}
  BY <1>2, ManifestAppendType DEF FlushLogged
<1>5. manifest_log' \in 1..wal_number /\ manifest_sst' \subseteq Nat
  <2>1. manifest_log \in 1..wal_number /\ manifest_sst \subseteq Nat
    BY DEF Typed, DataTypes
  <2>2. wal_number \in 1..wal_number /\ mt[imm] \subseteq Nat
    BY <1>2
  <2>. QED
    BY <1>2, <1>3, <2>1, <2>2
<1>6. DataTypes'
  BY <1>1, <1>4, <1>5 DEF Typed, DataTypes, memVars, walVars
<1>7. BackgroundTypes' /\ JobInv' /\ pc' \in [Threads -> PCs]
  BY <1>1 DEF Typed, CallTypes, BackgroundTypes, JobInv, Flushing, memVars
<1>. QED
  BY <1>6, <1>7, BackgroundFrame DEF Typed

LEMMA TypedFlushEnds ==
    ASSUME Typed, FlushApply \/ FlushFail \/ RemoveObsoleteFiles
    PROVE  Typed'
<1>1. /\ UNCHANGED <<last_sequence, mt, wal_number, wal_recs, wal_synced, wal_torn>>
      /\ UNCHANGED <<manifest_log, manifest_sst, manifest_torn>>
  BY Zenon DEF FlushApply, FlushFail, RemoveObsoleteFiles, memVars, walVars, verVars
<1>2. /\ job \in Jobs /\ tasks \in Nat /\ l0 \in Nat /\ job.l0 \in 0..1
      /\ wal_number \in Nat \ {0} /\ pc \in [Threads -> PCs]
  BY DEF Typed, CallTypes, DataTypes, BackgroundTypes, Jobs
<1>3. CASE FlushApply
  <2>1. /\ bg = "flushapply" /\ log_number' = job.log /\ sst' = sst \cup mt[imm]
        /\ l0' = l0 + job.l0 /\ imm' = NoMem /\ UNCHANGED wal_files
    BY <1>3 DEF FlushApply, walVars
  <2>2. /\ imm \in 0..wal_number /\ imm # NoMem /\ job.log = wal_number
        /\ mt \in [1..wal_number -> SUBSET Nat] /\ sst \subseteq Nat
    BY <2>1 DEF Typed, DataTypes, JobInv, Flushing
  <2>3. sst' \subseteq Nat /\ log_number' \in 1..wal_number /\ l0' \in Nat
    <3>1. mt[imm] \subseteq Nat
      BY <1>2, <2>2
    <3>. QED
      <4>1. sst' \subseteq Nat
        BY <2>1, <2>2, <3>1
      <4>2. log_number' \in 1..wal_number
        BY <1>2, <2>1, <2>2
      <4>3. l0' \in Nat
        BY <1>2, <2>1
      <4>. QED
        BY <4>1, <4>2, <4>3
  <2>4. DataTypes'
    BY <1>1, <2>1, <2>3 DEF Typed, DataTypes
  <2>5. CASE EndFlush(TRUE, NoMem, l0 + job.l0)
    <3>1. job.nested => job.inputs <= l0
      BY DEF Typed, JobInv
    <3>2. BackgroundTypes' /\ JobInv'
      <4>1. /\ tasks' \in Nat /\ bg' \in {"idle", "compact"} /\ job' \in Jobs /\ ~job'.nested
            /\ bg' = "compact" => job'.inputs = job.inputs /\ job.nested
        BY <2>5, TypedEndFlush
      <4>2. bg' = "compact" => job'.inputs <= l0'
        BY <1>2, <2>1, <3>1, <4>1 DEF Jobs
      <4>. QED
        BY <4>1, <4>2 DEF BackgroundTypes, JobInv, Flushing
    <3>. QED
      BY <1>3, <2>4, <2>5, <3>2, TypedEndFlush, BackgroundFrame DEF Typed
  <2>6. CASE bg' = "remove" /\ UNCHANGED <<tasks, job, pc>>
    <3>1. BackgroundTypes' /\ JobInv'
      BY <1>2, <2>1, <2>6 DEF Typed, BackgroundTypes, JobInv, Flushing, Jobs
    <3>. QED
      BY <1>2, <1>3, <2>4, <2>6, <3>1, BackgroundFrame DEF Typed
  <2>. QED
    BY <1>3, <2>5, <2>6, Zenon DEF FlushApply
<1>4. CASE FlushFail
  <2>1. bg = "flushfail" /\ EndFlush(TRUE, imm, l0) /\ UNCHANGED <<memVars, walVars, verVars>>
    BY <1>4 DEF FlushFail
  <2>2. DataTypes'
    BY <2>1 DEF Typed, DataTypes, memVars, walVars, verVars
  <2>. QED
    BY <1>2, <1>4, <2>1, <2>2, TypedEndFlush, BackgroundFrame
       DEF Typed, BackgroundTypes, JobInv, Flushing, verVars
<1>5. CASE RemoveObsoleteFiles
  <2>1. /\ EndFlush(bg_error, imm, l0) /\ wal_files' \subseteq wal_files
        /\ UNCHANGED <<imm, verVars>>
    BY <1>5, Zenon DEF RemoveObsoleteFiles, memVars
  <2>2. DataTypes'
    BY <1>1, <2>1 DEF Typed, DataTypes, verVars
  <2>. QED
    BY <1>2, <1>5, <2>1, <2>2, TypedEndFlush, BackgroundFrame
       DEF Typed, BackgroundTypes, JobInv, Flushing, verVars
<1>. QED
  BY <1>3, <1>4, <1>5

LEMMA TypedCompaction ==
    ASSUME Typed, CompactionDone \/ CompactionApply
    PROVE  Typed'
<1>1. /\ job \in Jobs /\ tasks \in Nat /\ l0 \in Nat /\ job.inputs \in Nat
      /\ pc \in [Threads -> PCs]
  BY DEF Typed, CallTypes, DataTypes, BackgroundTypes, Jobs
<1>2. job.inputs <= l0 /\ ~job.nested /\ UNCHANGED <<memVars, walVars>>
  BY DEF Typed, JobInv, CompactionDone, CompactionApply
<1>3. l0' \in Nat
  <2>1. l0' = l0 \/ l0' = l0 - job.inputs
    BY Zenon DEF CompactionDone, CompactionApply, verVars
  <2>. QED
    BY <1>1, <1>2, <2>1
<1>4. manifest_torn' \in {"no", "tail", "middle"}
  <2>1. manifest_torn \in {"no", "tail", "middle"}
    BY DEF Typed, DataTypes
  <2>. QED
    BY <2>1, ManifestAppendType DEF CompactionDone, CompactionApply, verVars
<1>5. DataTypes'
  <2>1. UNCHANGED <<log_number, manifest_log, sst, manifest_sst>>
    BY DEF CompactionDone, CompactionApply, verVars
  <2>. QED
    BY <1>2, <1>3, <1>4, <2>1 DEF Typed, DataTypes, memVars, walVars
<1>6. ASSUME NEW e, NEW i, NEW files, EndBackgroundCall(e, i, files)
      PROVE  Typed'
  <2>1. BackgroundTypes' /\ JobInv' /\ pc' \in [Threads -> PCs]
    <3>1. NoJob \in Jobs /\ ~NoJob.nested
      BY DEF NoJob, Jobs
    <3>2. pc' \in [Threads -> PCs] /\ tasks' \in Nat /\ bg' = "idle" /\ job' = NoJob
      BY <1>6, TypedEndBackgroundCall
    <3>. QED
      BY <3>1, <3>2 DEF BackgroundTypes, JobInv, Flushing
  <2>. QED
    BY <1>5, <2>1, BackgroundFrame DEF Typed
<1>7. CASE bg' \in {"compactlog", "remove"} /\ UNCHANGED <<tasks, job, pc>>
  <2>1. bg' = "compactlog" => l0' = l0
    <3>1. CASE CompactionDone
      BY <3>1 DEF CompactionDone, verVars
    <3>2. CASE CompactionApply
      BY <3>2 DEF CompactionApply, EndBackgroundCall
    <3>. QED
      BY <3>1, <3>2
  <2>2. BackgroundTypes' /\ JobInv'
    BY <1>1, <1>2, <1>7, <2>1 DEF BackgroundTypes, JobInv, Flushing
  <2>. QED
    BY <1>1, <1>5, <1>7, <2>2, BackgroundFrame DEF Typed
<1>8. \/ \E e, i, files : EndBackgroundCall(e, i, files)
      \/ bg' \in {"compactlog", "remove"} /\ UNCHANGED <<tasks, job, pc>>
  BY Zenon DEF CompactionDone, CompactionApply
<1>. QED
  BY <1>6, <1>7, <1>8

LEMMA TypedOthers ==
    ASSUME Typed,
           \/ \E t \in Threads : SpuriousWakeup(t)
           \/ Close \/ AwaitBackground
           \/ \E r \in Readers : Get(r) \/ GetDone(r)
           \/ UNCHANGED vars
    PROVE  Typed'
<1>1. ASSUME NEW t \in Threads, SpuriousWakeup(t)
      PROVE  Typed'
  <2>1. /\ UNCHANGED <<memVars, walVars, verVars, tasks, bg, job, reader>>
        /\ UNCHANGED <<mtx, batch, sync, done, status, writers_info, group, seqs>>
    BY <1>1 DEF SpuriousWakeup, bgVars
  <2>2. pc \in [Threads -> PCs]
    BY DEF Typed, CallTypes
  <2>3. pc' = SignalWriters(pc, {t}) \/ pc' = [pc EXCEPT ![t] = SignalAll(pc)[t]]
    BY <1>1, Zenon DEF SpuriousWakeup
  <2>4. SignalAll(pc)[t] \in PCs
    BY <2>2, SignalAllType
  <2>5. pc' \in [Threads -> PCs]
    BY <2>2, <2>3, <2>4, SignalWritersType
  <2>. QED
    BY <2>1, <2>5, OnlyCalls DEF Typed, CallTypes
<1>2. CASE Close \/ AwaitBackground
  <2>1. /\ UNCHANGED <<memVars, walVars, verVars, tasks, bg, job, reader>>
        /\ UNCHANGED <<mtx, batch, sync, done, status, writers_info, group, seqs>>
    BY <1>2 DEF Close, AwaitBackground, bgVars
  <2>2. pc' \in [Threads -> PCs]
    BY <1>2 DEF Close, AwaitBackground, Typed, CallTypes, PCs
  <2>. QED
    BY <2>1, <2>2, OnlyCalls DEF Typed, CallTypes
<1>3. ASSUME NEW r \in Readers, Get(r) \/ GetDone(r)
      PROVE  Typed'
  <2>1. UNCHANGED <<mtx, callVars, memVars, walVars, verVars, bgVars>>
    BY <1>3 DEF Get, GetDone
  <2>2. CallTypes' /\ DataTypes' /\ BackgroundTypes' /\ JobInv'
    BY <2>1 DEF Typed, CallTypes, DataTypes, BackgroundTypes, JobInv, Flushing,
                callVars, memVars, walVars, verVars, bgVars
  <2>3. /\ last_sequence \in Nat /\ imm \in 0..wal_number /\ sst \subseteq Nat
        /\ wal_number \in 1..wal_number /\ wal_number' = wal_number
    BY <2>1 DEF Typed, DataTypes, memVars
  <2>4. ReaderTypes'
    <3>1. CASE Get(r)
      BY <2>3, <3>1 DEF Get, ReadRefs, Typed, ReaderTypes
    <3>2. CASE GetDone(r)
      BY <2>3, <3>2 DEF GetDone, Typed, ReaderTypes
    <3>. QED
      BY <1>3, <3>1, <3>2
  <2>. QED
    BY <2>2, <2>4 DEF Typed
<1>4. CASE UNCHANGED vars
  BY <1>4 DEF vars, Typed, CallTypes, DataTypes, BackgroundTypes, ReaderTypes, JobInv,
              Flushing, callVars, memVars, walVars, verVars, bgVars
<1>. QED
  BY <1>1, <1>2, <1>3, <1>4

LEMMA NextType ==
    ASSUME TypeInv, [Next]_vars
    PROVE  TypeInv'
<1>1. Typed /\ FlagTypes
  BY DEF TypeInv, TypeOK, Typed
<1>2. Typed'
  <2>1. ASSUME NEW w \in Calls, NEW b \in Batches, NEW s \in Syncs, Write(w, b, s)
        PROVE  Typed'
    BY <1>1, <2>1, TypedEnter
  <2>2. ASSUME NEW w \in Calls, WriterStep(w)
        PROVE  Typed'
    BY <1>1, <2>2, TypedWait, TypedLog, TypedRoomOK, TypedRoomSwitch, TypedFinish
       DEF WriterStep
  <2>3. CASE BackgroundStep
    BY <1>1, <2>3, TypedBackgroundCall, TypedFlushBuilt, TypedFlushLogged, TypedFlushEnds,
       TypedCompaction DEF BackgroundStep
  <2>. QED
    BY <1>1, <2>1, <2>2, <2>3, TypedOthers DEF Next
<1>3. FlagTypes'
  BY <1>1, FlagsStayBoolean
<1>. QED
  BY <1>2, <1>3 DEF TypeInv, TypeOK, Typed

(* Every variable of the write path keeps its type in every behaviour; in  *)
(* particular no WAL number, file reference of a reader or log number in   *)
(* the MANIFEST is ever above the WAL file in use.                         *)
THEOREM TypeCorrect == Spec => []TypeOK
<1>1. Init => TypeInv
  BY InitType
<1>2. TypeInv /\ [Next]_vars => TypeInv'
  BY NextType
<1>3. TypeInv => TypeOK
  BY DEF TypeInv
<1>. QED
  BY <1>1, <1>2, <1>3, PTL DEF Spec

-----------------------------------------------------------------------------
(***************************************************************************)
(* Level 0 stays within its limit                                          *)
(***************************************************************************)

(* Only the switch of memtables, the flush and the compaction move files:  *)
(* the switch is refused when the file that the flush will make could      *)
(* exceed the limit.                                                       *)
LEMMA NextL0 ==
    ASSUME TypeInv, L0Bounded, [Next]_vars
    PROVE  L0Bounded'
<1>1. /\ l0 \in Nat /\ wal_number \in Nat \ {0} /\ job.l0 \in 0..1 /\ job.inputs \in Nat
      /\ L0Stop \in Nat /\ (Flushing => imm # NoMem) /\ imm \in Nat
  BY ConstantsAssumption
  DEF TypeInv, TypeOK, JobInv, DataTypes, BackgroundTypes, Jobs
<1>2. ASSUME NEW w \in Calls, RoomSwitch(w)
      PROVE  L0Bounded'
  <2>1. imm = NoMem /\ ~(l0 >= L0Stop) /\ l0' = l0
    BY <1>2 DEF RoomSwitch, RoomCanSwitch, StopWrites, verVars
  <2>. QED
    BY <1>1, <2>1 DEF L0Bounded
<1>3. CASE FlushApply
  <2>1. bg = "flushapply" /\ l0' = l0 + job.l0 /\ imm' = NoMem
    BY <1>3 DEF FlushApply
  <2>. QED
    BY <1>1, <2>1 DEF L0Bounded, Flushing
<1>4. CASE CompactionApply
  <2>1. imm' = imm /\ (l0' = l0 \/ l0' = l0 - job.inputs)
    BY <1>4, Zenon DEF CompactionApply, memVars
  <2>. QED
    BY <1>1, <2>1 DEF L0Bounded
<1>5. CASE UNCHANGED <<l0, imm>>
  BY <1>5 DEF L0Bounded
<1>6. ASSUME NEW w \in Calls,
             (\E b \in Batches, s \in Syncs : Write(w, b, s)) \/ WriterStep(w)
      PROVE  RoomSwitch(w) \/ UNCHANGED <<l0, imm>>
  BY <1>6, Zenon
  DEF WriterStep, Write, AwakeWriter, RoomError, RoomDelay, SleepDone, RoomOK, RoomWait,
      AwakeRoom, RoomSwitchFails, AddRecord, SyncWal, InsertInto, FinishWrite,
      AwaitFlush, memVars, verVars
<1>7. ASSUME BackgroundStep
      PROVE  FlushApply \/ CompactionApply \/ UNCHANGED <<l0, imm>>
  BY <1>7, Zenon
  DEF BackgroundStep, BackgroundCall, NestedFlush, FlushBuilt, FlushLogged, FlushFail,
      CompactionDone, RemoveObsoleteFiles, memVars, verVars
<1>8. ASSUME \/ \E t \in Threads : SpuriousWakeup(t)
             \/ Close \/ AwaitBackground
             \/ \E r \in Readers : Get(r) \/ GetDone(r)
             \/ UNCHANGED vars
      PROVE  UNCHANGED <<l0, imm>>
  BY <1>8, Zenon DEF SpuriousWakeup, Close, AwaitBackground, Get, GetDone, memVars, verVars, vars
<1>. QED
  BY <1>2, <1>3, <1>4, <1>5, <1>6, <1>7, <1>8, Zenon DEF Next

(* In a database that began empty, the number of level-0 files, with the    *)
(* one the immutable memtable is about to become, never exceeds             *)
(* l0_stop_writes_trigger, whatever the trigger of compactions and however  *)
(* flushes and compactions interleave.                                      *)
THEOREM L0AlwaysBounded == Spec => []L0Bounded
<1>1. Init => TypeInv /\ L0Bounded
  BY InitType, ConstantsAssumption DEF Init, L0Bounded
<1>2. TypeInv /\ L0Bounded /\ [Next]_vars => (TypeInv /\ L0Bounded)'
  BY NextType, NextL0
<1>. QED
  BY <1>1, <1>2, PTL DEF Spec

-----------------------------------------------------------------------------
(***************************************************************************)
(* ~DBImpl waits for the background thread                                 *)
(***************************************************************************)

(* background_compaction_scheduled_ stands for exactly one task, in the    *)
(* queue of the pool or being run.                                         *)
Scheduling ==
    /\ scheduled => (tasks = 1 /\ bg = "idle") \/ (tasks = 0 /\ bg # "idle")
    /\ ~scheduled => tasks = 0 /\ bg = "idle"

(* The destructor sets shutting_down_ first and leaves its loop when       *)
(* nothing is scheduled; nothing can be scheduled after that.              *)
Closing ==
    /\ pc[Closer] \in {"idle", "bgwait", "bgwake", "returned"}
    /\ pc[Closer] # "idle" => shutting_down
    /\ pc[Closer] = "returned" => ~scheduled

CloseInv == Scheduling /\ Closing

LEMMA EndCallCloses ==
    ASSUME TypeInv, CloseInv, UNCHANGED shutting_down, bg # "idle",
           NEW e, NEW i, NEW n, EndBackgroundCall(e, i, n)
    PROVE  CloseInv'
<1>1. scheduled' \in BOOLEAN /\ (scheduled' => ~shutting_down)
  BY Zenon DEF EndBackgroundCall, MaybeScheduleCompaction
<1>2. tasks = 0 /\ scheduled
  BY DEF CloseInv, Scheduling
<1>3. /\ scheduled' => tasks' = tasks + 1
      /\ ~scheduled' => tasks' = tasks
      /\ bg' = "idle" /\ pc' = SignalAll(pc)
  BY Zenon DEF EndBackgroundCall
<1>4. Scheduling'
  BY <1>2, <1>3 DEF Scheduling
<1>5. /\ pc[Closer] = "idle" => pc'[Closer] = "idle"
      /\ pc[Closer] \in {"bgwait", "bgwake"} => pc'[Closer] = "bgwake"
      /\ pc[Closer] = "returned" => pc'[Closer] = "returned"
  BY <1>3 DEF SignalAll
<1>. QED
  BY <1>1, <1>2, <1>4, <1>5 DEF CloseInv, Closing

LEMMA EndFlushCloses ==
    ASSUME TypeInv, CloseInv, UNCHANGED shutting_down, bg # "idle",
           NEW e, NEW i, NEW n, EndFlush(e, i, n)
    PROVE  CloseInv'
<1>1. CASE job.nested
  <2>1. bg' = "compact" /\ pc' = SignalAll(pc) /\ UNCHANGED <<scheduled, tasks>>
    BY <1>1 DEF EndFlush
  <2>2. Scheduling'
    BY <2>1 DEF CloseInv, Scheduling
  <2>3. /\ pc[Closer] = "idle" => pc'[Closer] = "idle"
        /\ pc[Closer] \in {"bgwait", "bgwake"} => pc'[Closer] = "bgwake"
        /\ pc[Closer] = "returned" => pc'[Closer] = "returned"
    BY <2>1 DEF SignalAll
  <2>. QED
    BY <2>1, <2>2, <2>3 DEF CloseInv, Closing
<1>2. CASE ~job.nested
  BY <1>2, EndCallCloses DEF EndFlush
<1>. QED
  BY <1>1, <1>2

LEMMA BackgroundCloses ==
    ASSUME TypeInv, CloseInv, BackgroundStep
    PROVE  CloseInv'
<1>1. UNCHANGED shutting_down
  BY Zenon
  DEF BackgroundStep, BackgroundCall, NestedFlush, FlushBuilt, FlushLogged, FlushApply,
      FlushFail, CompactionDone, CompactionApply, RemoveObsoleteFiles
<1>2. ASSUME bg # "idle", bg' # "idle", UNCHANGED <<scheduled, tasks, pc>>
      PROVE  CloseInv'
  BY <1>1, <1>2 DEF CloseInv, Scheduling, Closing
<1>3. CASE BackgroundCall
  <2>1. bg = "idle" /\ tasks > 0
    BY <1>3 DEF BackgroundCall
  <2>2. scheduled /\ tasks = 1
    BY <2>1 DEF CloseInv, Scheduling
  <2>3. CASE scheduled' = FALSE /\ tasks' = tasks - 1 /\ pc' = SignalAll(pc) /\ UNCHANGED bg
    <3>1. Scheduling'
      BY <2>1, <2>2, <2>3 DEF Scheduling
    <3>2. /\ pc[Closer] = "idle" => pc'[Closer] = "idle"
          /\ pc[Closer] \in {"bgwait", "bgwake"} => pc'[Closer] = "bgwake"
      BY <2>3 DEF SignalAll
    <3>3. ~scheduled' /\ pc[Closer] # "returned"
      BY <2>2, <2>3 DEF CloseInv, Closing
    <3>. QED
      BY <1>1, <3>1, <3>2, <3>3 DEF CloseInv, Closing
  <2>4. CASE tasks' = tasks - 1 /\ bg' \in {"flush", "compact", "compactlog"}
             /\ UNCHANGED <<scheduled, pc>>
    BY <1>1, <2>2, <2>4 DEF CloseInv, Scheduling, Closing
  <2>. QED
    BY <1>3, <2>3, <2>4 DEF BackgroundCall
<1>4. CASE NestedFlush \/ FlushLogged
  BY <1>2, <1>4 DEF NestedFlush, FlushLogged, callVars
<1>5. CASE FlushBuilt
  BY <1>1, <1>2, <1>5, EndFlushCloses DEF FlushBuilt
<1>6. CASE FlushApply \/ FlushFail \/ RemoveObsoleteFiles
  <2>1. bg # "idle"
    BY <1>6 DEF FlushApply, FlushFail, RemoveObsoleteFiles
  <2>2. \/ \E e, i, n : EndFlush(e, i, n)
        \/ bg' = "remove" /\ UNCHANGED <<scheduled, tasks, pc>>
    BY <1>6, Zenon DEF FlushApply, FlushFail, RemoveObsoleteFiles
  <2>. QED
    BY <1>1, <1>2, <2>1, <2>2, EndFlushCloses
<1>7. CASE CompactionDone \/ CompactionApply
  <2>1. bg # "idle"
    BY <1>7 DEF CompactionDone, CompactionApply
  <2>2. \/ \E e, i, n : EndBackgroundCall(e, i, n)
        \/ bg' \in {"remove", "compactlog"} /\ UNCHANGED <<scheduled, tasks, pc>>
    BY <1>7, Zenon DEF CompactionDone, CompactionApply
  <2>. QED
    BY <1>1, <1>2, <2>1, <2>2, EndCallCloses
<1>. QED
  BY <1>3, <1>4, <1>5, <1>6, <1>7 DEF BackgroundStep

LEMMA WriterCloses ==
    ASSUME TypeInv, CloseInv, NEW w \in Calls,
           (\E b \in Batches, s \in Syncs : Write(w, b, s)) \/ WriterStep(w)
    PROVE  CloseInv'
<1>0. w # Closer /\ pc \in [Threads -> PCs]
  BY ThreadsAssumption DEF TypeInv, TypeOK, CallTypes
<1>1. CASE RoomSwitch(w)
  <2>1. /\ UNCHANGED <<bg, shutting_down>>
        /\ pc' = pc \/ pc' = SignalAll(pc)
        /\ \E e : scheduled' = MaybeScheduleCompaction(scheduled, e, wal_number, l0)
        /\ tasks' = IF scheduled' /\ ~scheduled THEN tasks + 1 ELSE tasks
    BY <1>1, Zenon DEF RoomSwitch, RecordBackgroundError
  <2>2. scheduled' \in BOOLEAN /\ (scheduled' => scheduled \/ ~shutting_down)
        /\ (scheduled => scheduled')
    <3>1. scheduled \in BOOLEAN
      BY DEF TypeInv, TypeOK, FlagTypes
    <3>. QED
      BY <2>1, <3>1, Zenon DEF MaybeScheduleCompaction
  <2>3. /\ scheduled' /\ ~scheduled => tasks' = tasks + 1
        /\ ~(scheduled' /\ ~scheduled) => tasks' = tasks
    BY <2>1, Zenon
  <2>4. Scheduling'
    BY <2>1, <2>2, <2>3 DEF CloseInv, Scheduling
  <2>5. /\ pc[Closer] = "idle" => pc'[Closer] = "idle"
        /\ pc[Closer] \in {"bgwait", "bgwake"} => pc'[Closer] \in {"bgwait", "bgwake"}
        /\ pc[Closer] = "returned" => pc'[Closer] = "returned"
    BY <2>1 DEF SignalAll
  <2>. QED
    BY <2>1, <2>2, <2>4, <2>5 DEF CloseInv, Closing
<1>2. CASE FinishWrite(w)
  <2>1. UNCHANGED <<scheduled, tasks, bg, shutting_down>>
    BY <1>2 DEF FinishWrite
  <2>2. \E S : \/ pc' = SignalWriters([pc EXCEPT ![w] = AfterWrite(w, status[w])], S)
               \/ pc' = SignalAll(SignalWriters([pc EXCEPT ![w] = AfterWrite(w, status[w])], S))
    BY <1>2, Zenon DEF FinishWrite, RecordBackgroundError
  <2>3. /\ pc[Closer] = "idle" => pc'[Closer] = "idle"
        /\ pc[Closer] \in {"bgwait", "bgwake"} => pc'[Closer] \in {"bgwait", "bgwake"}
        /\ pc[Closer] = "returned" => pc'[Closer] = "returned"
    BY <1>0, <2>2 DEF SignalAll, SignalWriters, CloseInv, Closing
  <2>. QED
    BY <2>1, <2>3 DEF CloseInv, Scheduling, Closing
<1>3. ASSUME ~RoomSwitch(w), ~FinishWrite(w)
      PROVE  CloseInv'
  <2>1. /\ UNCHANGED <<scheduled, tasks, bg, shutting_down>>
        /\ \E x : pc' = [pc EXCEPT ![w] = x] \/ pc' = pc
    BY <1>3, Zenon
    DEF WriterStep, Write, AwakeWriter, RoomError, RoomDelay, SleepDone, RoomOK, RoomWait,
        AwakeRoom, RoomSwitchFails, AddRecord, SyncWal, InsertInto, AwaitFlush, bgVars
  <2>2. pc'[Closer] = pc[Closer]
    BY <1>0, <2>1
  <2>. QED
    BY <2>1, <2>2 DEF CloseInv, Scheduling, Closing
<1>. QED
  BY <1>1, <1>2, <1>3

LEMMA NextClose ==
    ASSUME TypeInv, CloseInv, [Next]_vars
    PROVE  CloseInv'
<1>0. pc \in [Threads -> PCs]
  BY DEF TypeInv, TypeOK, CallTypes
<1>1. ASSUME NEW t \in Threads, SpuriousWakeup(t)
      PROVE  CloseInv'
  <2>1. UNCHANGED <<scheduled, tasks, bg, shutting_down>>
    BY <1>1 DEF SpuriousWakeup, bgVars
  <2>2. pc' = SignalWriters(pc, {t}) \/ pc' = [pc EXCEPT ![t] = SignalAll(pc)[t]]
    BY <1>1, Zenon DEF SpuriousWakeup
  <2>3. /\ pc[Closer] = "idle" => pc'[Closer] = "idle"
        /\ pc[Closer] \in {"bgwait", "bgwake"} => pc'[Closer] \in {"bgwait", "bgwake"}
        /\ pc[Closer] = "returned" => pc'[Closer] = "returned"
    BY <1>0, <2>2 DEF SignalWriters, SignalAll, CloseInv, Closing
  <2>. QED
    BY <2>1, <2>3 DEF CloseInv, Scheduling, Closing
<1>2. CASE Close
  <2>1. /\ pc[Closer] = "idle" /\ pc'[Closer] = "bgwake" /\ shutting_down'
        /\ UNCHANGED <<scheduled, tasks, bg>>
    BY <1>0, <1>2 DEF Close, bgVars
  <2>. QED
    BY <2>1 DEF CloseInv, Scheduling, Closing
<1>3. CASE AwaitBackground
  <2>1. /\ pc[Closer] = "bgwake"
        /\ pc'[Closer] = IF scheduled THEN "bgwait" ELSE "returned"
        /\ UNCHANGED <<scheduled, tasks, bg, shutting_down>>
    BY <1>0, <1>3 DEF AwaitBackground, StillScheduled, bgVars
  <2>. QED
    BY <2>1 DEF CloseInv, Scheduling, Closing
<1>4. CASE \/ \E r \in Readers : Get(r) \/ GetDone(r)
           \/ UNCHANGED vars
  <2>1. UNCHANGED <<scheduled, tasks, bg, shutting_down, pc>>
    BY <1>4, Zenon DEF Get, GetDone, callVars, bgVars, vars
  <2>. QED
    BY <2>1 DEF CloseInv, Scheduling, Closing
<1>. QED
  BY <1>1, <1>2, <1>3, <1>4, WriterCloses, BackgroundCloses DEF Next

(* When the destructor returns, no task is queued and none is running that *)
(* would use the freed DBImpl, even though MaybeScheduleCompaction runs    *)
(* again at the end of every task.                                         *)
THEOREM NoUseAfterClose == Spec => []NoWorkAfterClose
<1>1. Init => TypeInv /\ CloseInv
  BY InitType DEF Init, CloseInv, Scheduling, Closing
<1>2. TypeInv /\ CloseInv /\ [Next]_vars => (TypeInv /\ CloseInv)'
  BY NextType, NextClose
<1>3. CloseInv => NoWorkAfterClose
  BY DEF CloseInv, Scheduling, Closing, NoWorkAfterClose
<1>. QED
  BY <1>1, <1>2, <1>3, PTL DEF Spec

-----------------------------------------------------------------------------
(***************************************************************************)
(* What the write path promises about acknowledged writes: what a Get      *)
(* sees, what a recovery finds after a crash of the process, and what it   *)
(* finds after a power failure; and that it implements AtomicStore.        *)
(***************************************************************************)
USE DEF Threads, Free, Closer, NullBatch, NoMem

-----------------------------------------------------------------------------
(***************************************************************************)
(* The sequence numbers of a group                                         *)
(***************************************************************************)

(* A set of natural numbers that is not empty has a least element. *)
LEMMA LeastElement ==
    ASSUME NEW T \in SUBSET Nat, T # {}
    PROVE  \E m \in T : \A y \in T : m <= y
<1>. DEFINE R == OpToRel(<, Nat)
<1>1. \E m \in T : \A y \in T : ~(<<y, m>> \in R)
  <2>. HIDE DEF R
  <2>1. IsWellFoundedOn(R, Nat)
    BY NatLessThanWellFounded DEF R
  <2>. QED
    BY <2>1, WFMin, Zenon
<1>2. \A y, m \in Nat : y < m => <<y, m>> \in R
  BY Zenon DEF OpToRel
<1>. HIDE DEF R
<1>3. PICK m \in T : \A y \in T : ~(<<y, m>> \in R)
  BY <1>1, Zenon
<1>4. \A y \in T : ~(y < m)
  BY <1>2, <1>3, Zenon
<1>5. \A y \in T : m <= y
  BY <1>4
<1>. QED
  BY <1>5

(* No batches, no entries. *)
LEMMA CountNone ==
    ASSUME NEW q
    PROVE  Count(q, 0) = 0
<1>1. GroupEntries(q, 0) = {}
  BY DEF GroupEntries
<1>. QED
  BY <1>1, FS_EmptySet DEF Count

(* Every number of a group is that of an entry of one of its batches. *)
LEMMA CountCovers ==
    ASSUME NEW q, NEW n \in Nat, NEW x \in 1..Count(q, n)
    PROVE  \E i \in 1..n : Count(q, i - 1) < x /\ x <= Count(q, i)
<1>. DEFINE T == {i \in 0..n : x <= Count(q, i)}
<1>1. n \in T /\ T \in SUBSET Nat
  OBVIOUS
<1>2. PICK m \in T : \A y \in T : m <= y
  BY <1>1, LeastElement
<1>3. m # 0
  BY <1>2, CountNone
<1>4. m - 1 \notin T /\ m - 1 \in 0..n
  BY <1>2, <1>3
<1>5. Count(q, m - 1) \in Nat /\ x \in Int
  BY <1>4, CountType
<1>. QED
  BY <1>2, <1>3, <1>4, <1>5

(* A null batch has no entries. *)
LEMMA CountNull ==
    ASSUME NEW q, NEW i \in Nat \ {0}, batch[q[i]] = NullBatch
    PROVE  Count(q, i) = Count(q, i - 1)
<1>1. GroupEntries(q, i) = GroupEntries(q, i - 1)
  BY ConstantsAssumption DEF GroupEntries
<1>. QED
  BY <1>1 DEF Count

(* The batches of a group share the numbers from base + 1 on between them. *)
LEMMA BatchesNumbered ==
    ASSUME NEW q, NEW n \in Nat, NEW base \in Nat
    PROVE  /\ Count(q, n) \in Nat
           /\ \A i \in 1..n : BatchSeqs(q, i, base) \subseteq (base + 1)..(base + Count(q, n))
           /\ \A x \in (base + 1)..(base + Count(q, n)) :
                 \E i \in 1..n : x \in BatchSeqs(q, i, base)
           /\ \A i, j \in 1..n :
                 i # j => BatchSeqs(q, i, base) \cap BatchSeqs(q, j, base) = {}
           /\ \A i \in 1..n : batch[q[i]] = NullBatch => BatchSeqs(q, i, base) = {}
<1>1. \A i \in 0..n : Count(q, i) \in Nat
  BY CountType
<1>2. \A i, j \in 0..n : i <= j => Count(q, i) <= Count(q, j)
  BY CountMonotone
<1>3. ASSUME NEW i \in 1..n
      PROVE  BatchSeqs(q, i, base) \subseteq (base + 1)..(base + Count(q, n))
  <2>1. Count(q, i) <= Count(q, n) /\ Count(q, i) \in Nat /\ Count(q, i - 1) \in Nat
    BY <1>1, <1>2
  <2>. QED
    BY <1>1, <2>1 DEF BatchSeqs
<1>4. ASSUME NEW x \in (base + 1)..(base + Count(q, n))
      PROVE  \E i \in 1..n : x \in BatchSeqs(q, i, base)
  <2>1. x - base \in 1..Count(q, n)
    BY <1>1
  <2>2. PICK i \in 1..n : Count(q, i - 1) < x - base /\ x - base <= Count(q, i)
    BY <2>1, CountCovers
  <2>3. Count(q, i - 1) \in Nat /\ Count(q, i) \in Nat
    BY <1>1
  <2>. QED
    BY <2>2, <2>3 DEF BatchSeqs
<1>5. ASSUME NEW i \in 1..n, NEW j \in 1..n, i < j
      PROVE  BatchSeqs(q, i, base) \cap BatchSeqs(q, j, base) = {}
  <2>1. Count(q, i) <= Count(q, j - 1) /\ Count(q, i) \in Nat /\ Count(q, j - 1) \in Nat
    BY <1>1, <1>2, <1>5
  <2>2. Count(q, i - 1) \in Nat /\ Count(q, j) \in Nat
    BY <1>1
  <2>. QED
    BY <2>1, <2>2 DEF BatchSeqs
<1>6. ASSUME NEW i \in 1..n, batch[q[i]] = NullBatch
      PROVE  BatchSeqs(q, i, base) = {}
  <2>1. Count(q, i) = Count(q, i - 1) /\ Count(q, i) \in Nat
    BY <1>1, <1>6, CountNull
  <2>. QED
    BY <2>1 DEF BatchSeqs
<1>. QED
  BY <1>1, <1>3, <1>4, <1>5, <1>6

-----------------------------------------------------------------------------
(***************************************************************************)
(* The inductive invariant, in parts                                       *)
(***************************************************************************)

(* Where a call is while it is at the front of the queue of writers, and   *)
(* where it is while it commits a group.                                   *)
Committing == {"append", "sync", "insert", "relock"}
Leading == {"room", "sleep", "bgwait", "bgwake", "finish"} \cup Committing
Queued == {"cvwait", "cvwake"} \cup Leading
Waited == {"cvwait", "cvwake", "flushwait", "flushwake", "returned"}

Places == 1..Len(writers_info)
Group == 1..group.n
Member(w) == \E i \in Group : writers_info[i] = w

(* The queue holds each writer once, those that are neither committed nor  *)
(* returned, and the only one that does anything is its front.             *)
QueueInv ==
    /\ \A i, j \in Places : writers_info[i] = writers_info[j] => i = j
    /\ \A i \in Places : pc[writers_info[i]] \in Queued /\ ~done[writers_info[i]]
    /\ \A w \in Calls : pc[w] \in Queued /\ ~done[w] =>
          \E i \in Places : writers_info[i] = w
    /\ \A w \in Calls : pc[w] \in Leading => Len(writers_info) # 0 /\ writers_info[1] = w
    /\ \A w \in Calls : done[w] => pc[w] \in Waited

(* A group is the first writers of the queue, and has numbers of its own   *)
(* above the last sequence number: the calls of the group have all of      *)
(* them, and no two calls share one.                                       *)
GroupInv ==
    /\ \A w \in Calls : pc[w] \in Committing => group.n # 0
    /\ group.n # 0 =>
        /\ group.n <= Len(writers_info)
        /\ pc[writers_info[1]] \in Committing
        /\ batch[writers_info[1]] # NullBatch
        /\ group.lo = last_sequence /\ group.lo <= group.ins /\ group.ins <= group.hi
        /\ \A i \in Group : seqs[writers_info[i]] \subseteq GroupSeqs
        /\ \A x \in GroupSeqs : \E i \in Group : x \in seqs[writers_info[i]]
        /\ \A i, j \in Group :
              i # j => seqs[writers_info[i]] \cap seqs[writers_info[j]] = {}
        /\ \A i \in Group : sync[writers_info[i]] => sync[writers_info[1]]

(* How far the leader of the group has come. *)
PhaseInv ==
    \A w \in Calls :
        /\ pc[w] \in {"append", "sync", "insert"} => status[w] = "ok"
        /\ pc[w] \in {"append", "sync"} => group.ins = group.lo
        /\ pc[w] = "relock" =>
              group.ins = IF status[w] = "ok" THEN group.hi ELSE group.lo
        /\ pc[w] = "finish" /\ status[w] = "ok" => batch[w] = NullBatch

(* Only the calls that have been in a group have numbers, null batches     *)
(* never, and those of an acknowledged call have been published.           *)
SeqsInv ==
    \A w \in Calls :
        /\ ~Completed(w) /\ ~Member(w) => seqs[w] = {}
        /\ batch[w] = NullBatch => seqs[w] = {}
        /\ pc[w] \in {"flushwait", "flushwake"} => batch[w] = NullBatch
        /\ w \in Acknowledged => seqs[w] \subseteq 1..last_sequence

(* What the database holds is what it has acknowledged, and the entries of *)
(* the group that is being inserted.                                       *)
Inserted == IF group.n = 0 THEN {} ELSE (group.lo + 1)..group.ins
Stored == sst \cup Memtable(imm) \cup mt[wal_number]
StoredInv ==
    /\ imm < wal_number /\ Inserted \subseteq mt[wal_number]
    /\ Stored = Committed \cup Inserted

(* A Get, during its run and after it. *)
ReaderInv ==
    \A r \in Readers : reader[r].pc # "idle" =>
        /\ reader[r].snap <= last_sequence
        /\ View(r) = Committed \cap 1..reader[r].snap

(* The WAL files: what a memtable holds has been logged, unless an append  *)
(* to its WAL file has failed.                                             *)
WalInv ==
    /\ \A f \in 1..wal_number : wal_synced[f] \subseteq wal_recs[f]
    /\ \A f \in 1..wal_number : ~wal_torn[f] => mt[f] \subseteq wal_recs[f]
    /\ \A w \in Calls : pc[w] \in {"sync", "insert"} /\ ~wal_torn[wal_number] =>
          GroupSeqs \subseteq wal_recs[wal_number]

(* The files a recovery would read: the MANIFEST is not behind the version *)
(* in use, the WAL files from its log number on exist, and a memtable      *)
(* whose WAL file it no longer names is in the SSTs it names.              *)
ManifestInv ==
    /\ log_number..wal_number \subseteq wal_files
    /\ imm # NoMem => log_number <= imm
    /\ manifest_torn # "middle" =>
        /\ sst \subseteq manifest_sst
        /\ log_number <= manifest_log
        /\ imm # NoMem /\ manifest_log > imm => mt[imm] \subseteq manifest_sst
        /\ bg = "flushapply" => mt[imm] \subseteq manifest_sst /\ manifest_log = job.log

(* Where the entries of a call that asked for a sync are. *)
Safe(x, f) == x \in mt[f] /\ (wal_torn[f] \/ x \in wal_synced[f])
SyncInv ==
    /\ \A w \in Acknowledged : sync[w] => \A x \in seqs[w] :
          x \in sst \/ (imm # NoMem /\ Safe(x, imm)) \/ Safe(x, wal_number)
    /\ \A w \in Calls :
          /\ pc[w] \in {"insert", "relock"} /\ status[w] = "ok" /\ sync[w]
          /\ ~wal_torn[wal_number]
          => GroupSeqs \subseteq wal_synced[wal_number]

CommitInv ==
    /\ QueueInv /\ GroupInv /\ PhaseInv /\ SeqsInv
    /\ StoredInv /\ ReaderInv /\ WalInv /\ ManifestInv /\ SyncInv

-----------------------------------------------------------------------------
(***************************************************************************)
(* The queue of writers                                                    *)
(***************************************************************************)

(* Condition variables are signalled, or wake up by themselves. *)
Wakes ==
    \A w \in Calls : \/ pc'[w] = pc[w]
                     \/ pc[w] = "cvwait" /\ pc'[w] = "cvwake"
                     \/ pc[w] = "bgwait" /\ pc'[w] = "bgwake"
                     \/ pc[w] = "flushwait" /\ pc'[w] = "flushwake"

(* A step of the call at the front that leaves it there. *)
Advances(w) == \E x \in Leading : pc[w] \in Leading /\ pc' = [pc EXCEPT ![w] = x]

LEMMA CallFacts ==
    ASSUME TypeInv
    PROVE  /\ pc \in [Threads -> PCs] /\ done \in [Calls -> BOOLEAN]
           /\ batch \in [Calls -> NullBatch..MaxBatch] /\ sync \in [Calls -> BOOLEAN]
           /\ status \in [Calls -> {"ok", "error"}] /\ seqs \in [Calls -> SUBSET Nat]
           /\ writers_info \in Seq(Calls) /\ Len(writers_info) \in Nat
           /\ \A i \in Places : writers_info[i] \in Calls
           /\ group.n \in Nat /\ group.lo \in Nat /\ group.hi \in Nat /\ group.ins \in Nat
           /\ last_sequence \in Nat /\ Closer \notin Calls
BY ThreadsAssumption DEF TypeInv, TypeOK, CallTypes, DataTypes, Places

LEMMA QueueWakes ==
    ASSUME TypeInv, QueueInv, Wakes, UNCHANGED <<done, writers_info>>
    PROVE  QueueInv'
<1>1. \A w \in Calls : /\ pc'[w] \in Queued <=> pc[w] \in Queued
                       /\ pc'[w] \in Leading <=> pc[w] \in Leading
                       /\ pc[w] \in Waited => pc'[w] \in Waited
  BY DEF Wakes, Queued, Leading, Committing, Waited
<1>. QED
  BY <1>1, CallFacts DEF QueueInv, Places

LEMMA QueueAdvances ==
    ASSUME TypeInv, QueueInv, NEW w \in Calls, Advances(w), UNCHANGED <<done, writers_info>>
    PROVE  QueueInv'
<1>1. \A v \in Calls : /\ pc'[v] \in Queued <=> pc[v] \in Queued
                       /\ pc'[v] \in Leading <=> pc[v] \in Leading
                       /\ pc[v] \in Waited <=> pc'[v] \in Waited
  BY CallFacts DEF Advances, Queued, Leading, Committing, Waited
<1>. QED
  BY <1>1, CallFacts DEF QueueInv, Places

LEMMA QueueWrite ==
    ASSUME TypeInv, QueueInv, NEW w \in Calls, NEW b \in Batches, NEW s \in Syncs,
           Write(w, b, s)
    PROVE  QueueInv'
<1>1. /\ pc[w] = "idle" /\ writers_info' = Append(writers_info, w) /\ done' = done
      /\ pc' = [pc EXCEPT ![w] = IF writers_info = <<>> THEN "room" ELSE "cvwait"]
  BY DEF Write
<1>2. /\ Len(writers_info') = Len(writers_info) + 1
      /\ writers_info'[Len(writers_info) + 1] = w
      /\ \A i \in Places : writers_info'[i] = writers_info[i]
  BY <1>1, CallFacts DEF Places
<1>3. ~done[w] /\ \A i \in Places : writers_info[i] # w
  BY <1>1, CallFacts DEF QueueInv, Waited, Queued, Leading, Committing
<1>4. writers_info = <<>> <=> Len(writers_info) = 0
  BY CallFacts
<1>5. /\ pc'[w] \in Queued
      /\ pc'[w] \in Leading => Len(writers_info) = 0
      /\ \A v \in Calls : v # w => pc'[v] = pc[v]
  BY <1>1, <1>4, CallFacts DEF Queued, Leading, Committing
<1>. QED
  BY <1>1, <1>2, <1>3, <1>5, CallFacts DEF QueueInv, Places

LEMMA QueueAwake ==
    ASSUME TypeInv, QueueInv, NEW w \in Calls, AwakeWriter(w) \/ AwaitFlush(w)
    PROVE  QueueInv'
<1>1. UNCHANGED <<done, writers_info>>
  BY Zenon DEF AwakeWriter, AwaitFlush
<1>2. CASE AwakeWriter(w)
  <2>1. PICK x : pc' = [pc EXCEPT ![w] = x] /\ pc[w] = "cvwake" /\
          \/ done[w] /\ x \in {"flushwake", "returned"}
          \/ ~done[w] /\ writers_info[1] = w /\ x = "room"
          \/ ~done[w] /\ x = "cvwait"
    BY <1>2 DEF AwakeWriter, AfterWrite
  <2>2. ~done[w] => Len(writers_info) # 0
    BY <2>1, CallFacts DEF QueueInv, Queued, Places
  <2>3. \A v \in Calls : v # w => pc'[v] = pc[v]
    BY <2>1, CallFacts
  <2>4. pc'[w] = x
    BY <2>1, CallFacts
  <2>5. /\ pc[w] \in Queued /\ pc[w] \notin Leading
        /\ done[w] => pc'[w] \in Waited /\ pc'[w] \notin Leading
        /\ ~done[w] => pc'[w] \in Queued /\ (pc'[w] \in Leading => writers_info[1] = w)
    BY <2>1, <2>4 DEF Queued, Leading, Committing, Waited
  <2>6. \A v \in Calls : /\ pc'[v] \in Queued /\ ~done[v] <=> pc[v] \in Queued /\ ~done[v]
                         /\ done[v] => pc'[v] \in Waited
                         /\ pc'[v] \in Leading =>
                              Len(writers_info) # 0 /\ writers_info[1] = v
    BY <2>2, <2>3, <2>5 DEF QueueInv
  <2>. QED
    BY <1>1, <2>6, CallFacts DEF QueueInv, Places
<1>3. CASE AwaitFlush(w)
  <2>1. PICK x \in {"flushwait", "returned"} : pc' = [pc EXCEPT ![w] = x] /\ pc[w] = "flushwake"
    BY <1>3 DEF AwaitFlush
  <2>2. \A v \in Calls : v # w => pc'[v] = pc[v]
    BY <2>1, CallFacts
  <2>. QED
    BY <1>1, <2>1, <2>2, CallFacts
    DEF QueueInv, Places, Queued, Leading, Committing, Waited
<1>. QED
  BY <1>2, <1>3
(* What the last critical section of Write does to the queue. *)
Finishes(w) ==
    /\ Len(writers_info) # 0 /\ writers_info[1] = w
    /\ GroupLength \in Places
    /\ \/ group.n = 0 /\ pc[w] = "finish"
       \/ group.n # 0 /\ pc[w] = "relock"
    /\ Len(writers_info') = Len(writers_info) - GroupLength
    /\ \A i \in 1..(Len(writers_info) - GroupLength) :
          writers_info'[i] = writers_info[i + GroupLength]
    /\ pc'[w] = AfterWrite(w, status[w])
    /\ \A v \in Calls : v # w => \/ pc'[v] = pc[v]
                                 \/ pc[v] = "cvwait" /\ pc'[v] = "cvwake"
                                 \/ pc[v] = "bgwait" /\ pc'[v] = "bgwake"
                                 \/ pc[v] = "flushwait" /\ pc'[v] = "flushwake"
    /\ \A v \in Calls :
          /\ done'[v] <=> done[v] \/ \E i \in 2..GroupLength : writers_info[i] = v
          /\ status'[v] = IF \E i \in 2..GroupLength : writers_info[i] = v
                          THEN status[w] ELSE status[v]
    /\ last_sequence' = IF group.n = 0 THEN last_sequence ELSE group.hi
    /\ group'.n = 0
    /\ UNCHANGED <<batch, sync, seqs>>

LEMMA FinishFacts ==
    ASSUME TypeInv, QueueInv, GroupInv, NEW w \in Calls, FinishWrite(w)
    PROVE  Finishes(w)
<1>. DEFINE n == GroupLength
            members == {writers_info[i] : i \in 2..n}
            rest == SubSeq(writers_info, n + 1, Len(writers_info))
            after == [pc EXCEPT ![w] = AfterWrite(w, status[w])]
            woken == SignalWriters(after, members \cup NewFront(rest))
<1>1. /\ pc[w] \in {"relock", "finish"}
      /\ writers_info' = rest
      /\ done' = [c \in Calls |-> done[c] \/ c \in members]
      /\ status' = [c \in Calls |-> IF c \in members THEN status[w] ELSE status[c]]
      /\ pc' = woken \/ pc' = SignalAll(woken)
      /\ last_sequence' = IF group.n = 0 THEN last_sequence ELSE group.hi
      /\ group' = NoGroup
      /\ UNCHANGED <<batch, sync, seqs>>
  BY Zenon DEF FinishWrite, RecordBackgroundError
<1>2. /\ Len(writers_info) # 0 /\ writers_info[1] = w
      /\ \/ group.n = 0 /\ pc[w] = "finish"
         \/ group.n # 0 /\ pc[w] = "relock"
  BY <1>1 DEF QueueInv, GroupInv, Leading, Committing
<1>3. n \in Places
  BY <1>2, CallFacts DEF GroupInv, GroupLength, Places
<1>4. /\ Len(writers_info') = Len(writers_info) - n
      /\ \A i \in 1..(Len(writers_info) - n) : writers_info'[i] = writers_info[i + n]
  <2>. HIDE DEF n
  <2>. QED
    BY <1>1, <1>3, CallFacts DEF Places
<1>5. /\ pc'[w] = AfterWrite(w, status[w])
      /\ \A v \in Calls : v # w => \/ pc'[v] = pc[v]
                                   \/ pc[v] = "cvwait" /\ pc'[v] = "cvwake"
                                   \/ pc[v] = "bgwait" /\ pc'[v] = "bgwake"
                                   \/ pc[v] = "flushwait" /\ pc'[v] = "flushwake"
  <2>. DEFINE S == members \cup NewFront(rest)
              a == AfterWrite(w, status[w])
  <2>1. a \in {"flushwake", "returned"}
    BY DEF AfterWrite
  <2>. HIDE DEF S, a
  <2>2. pc' = SignalWriters([pc EXCEPT ![w] = a], S)
        \/ pc' = SignalAll(SignalWriters([pc EXCEPT ![w] = a], S))
    BY <1>1 DEF S, a
  <2>3. /\ pc'[w] = a
        /\ \A v \in Calls : v # w => \/ pc'[v] = pc[v]
                                     \/ pc[v] = "cvwait" /\ pc'[v] = "cvwake"
                                     \/ pc[v] = "bgwait" /\ pc'[v] = "bgwake"
                                     \/ pc[v] = "flushwait" /\ pc'[v] = "flushwake"
    BY <2>1, <2>2, CallFacts DEF SignalWriters, SignalAll
  <2>. QED
    BY <2>3 DEF a
<1>6. \A v \in Calls :
          /\ done'[v] <=> done[v] \/ \E i \in 2..n : writers_info[i] = v
          /\ status'[v] = IF \E i \in 2..n : writers_info[i] = v
                          THEN status[w] ELSE status[v]
  <2>1. \A v : v \in members <=> \E i \in 2..n : writers_info[i] = v
    BY Zenon
  <2>. HIDE DEF members
  <2>. QED
    BY <1>1, <2>1, Zenon
<1>. QED
  BY <1>1, <1>2, <1>3, <1>4, <1>5, <1>6, Zenon DEF Finishes, NoGroup

LEMMA QueueFinish ==
    ASSUME TypeInv, QueueInv, GroupInv, NEW w \in Calls, FinishWrite(w)
    PROVE  QueueInv'
<1>. DEFINE n == GroupLength
<1>0. Finishes(w)
  BY FinishFacts
<1>1. /\ n \in Nat \ {0} /\ n <= Len(writers_info)
      /\ Len(writers_info') = Len(writers_info) - n
      /\ \A i \in 1..(Len(writers_info) - n) : writers_info'[i] = writers_info[i + n]
      /\ writers_info[1] = w
  BY <1>0, CallFacts DEF Finishes, Places
<1>. HIDE DEF n
<1>2. \A v \in Calls : done'[v] <=> done[v] \/ \E i \in 2..n : writers_info[i] = v
  BY <1>0 DEF Finishes, n
<1>3. pc'[w] \in Waited /\ pc'[w] \notin Queued /\ ~done[w]
  BY <1>0 DEF Finishes, AfterWrite, QueueInv, Waited, Queued, Leading, Committing
<1>4. \A v \in Calls : v # w => /\ pc'[v] \in Queued <=> pc[v] \in Queued
                                /\ pc'[v] \in Waited <=> pc[v] \in Waited
                                /\ pc'[v] \notin Leading
  <2>1. \A v \in Calls : v # w => pc[v] \notin Leading
    BY <1>1 DEF QueueInv
  <2>. QED
    BY <1>0, <2>1 DEF Finishes, Waited, Queued, Leading, Committing
<1>5. \A i \in 1..(Len(writers_info) - n) :
         /\ i + n \in Places /\ i + n # 1 /\ i + n \notin 2..n
  BY <1>1, CallFacts DEF Places
<1>6. \A i \in 2..n : i \in Places
  BY <1>1, CallFacts DEF Places
<1>12. \A i \in Places : i # 1 => writers_info[i] # w /\ writers_info[i] \in Calls
  <2>1. 1 \in Places
    BY <1>1, CallFacts DEF Places
  <2>2. \A i \in Places : writers_info[i] = writers_info[1] => i = 1
    BY <2>1 DEF QueueInv
  <2>. QED
    BY <1>1, <2>2, CallFacts
<1>7. \A i \in 1..(Len(writers_info) - n) :
         pc'[writers_info'[i]] \in Queued /\ ~done'[writers_info'[i]]
  <2>. TAKE i \in 1..(Len(writers_info) - n)
  <2>1. writers_info'[i] = writers_info[i + n] /\ i + n \in Places
        /\ writers_info[i + n] \in Calls /\ writers_info[i + n] # w
    BY <1>1, <1>5, <1>12
  <2>2. \A j \in 2..n : writers_info[j] # writers_info[i + n]
    BY <1>5, <1>6 DEF QueueInv
  <2>. QED
    BY <1>2, <1>4, <2>1, <2>2 DEF QueueInv
<1>8. ASSUME NEW v \in Calls, pc'[v] \in Queued, ~done'[v]
      PROVE  \E i \in 1..(Len(writers_info) - n) : writers_info'[i] = v
  <2>1. v # w /\ pc[v] \in Queued /\ ~done[v] /\ ~\E i \in 2..n : writers_info[i] = v
    BY <1>2, <1>3, <1>4, <1>8
  <2>2. PICK j \in Places : writers_info[j] = v
    BY <2>1 DEF QueueInv
  <2>3. j > n /\ j - n \in 1..(Len(writers_info) - n) /\ (j - n) + n = j
    BY <1>1, <2>1, <2>2, CallFacts DEF Places
  <2>. QED
    BY <1>1, <2>2, <2>3
<1>9. \A v \in Calls : pc'[v] \notin Leading
  BY <1>3, <1>4 DEF Queued
<1>10. \A v \in Calls : done'[v] => pc'[v] \in Waited
  <2>1. \A i \in 2..n : pc[writers_info[i]] \in Waited
    <3>. TAKE i \in 2..n
    <3>1. pc[writers_info[i]] \in Queued /\ writers_info[i] # w /\ writers_info[i] \in Calls
      BY <1>6, <1>12 DEF QueueInv
    <3>2. pc[writers_info[i]] \notin Leading
      BY <1>1, <3>1 DEF QueueInv
    <3>. QED
      BY <3>1, <3>2 DEF Queued, Waited
  <2>. QED
    BY <1>2, <1>3, <1>4, <2>1 DEF QueueInv
<1>11. \A i, j \in 1..(Len(writers_info) - n) : writers_info'[i] = writers_info'[j] => i = j
  BY <1>1, <1>5 DEF QueueInv
<1>. QED
  BY <1>1, <1>7, <1>8, <1>9, <1>10, <1>11 DEF QueueInv, Places
-----------------------------------------------------------------------------
(***************************************************************************)
(* The group, its numbers and its leader                                   *)
(***************************************************************************)

CallsInv == QueueInv /\ GroupInv /\ PhaseInv /\ SeqsInv

(* A step that changes neither the group nor what is known of the calls. *)
KeepsGroup ==
    UNCHANGED <<batch, sync, done, writers_info, group, seqs, last_sequence>>

(* No call is completed, and no acknowledgement is given or taken back. *)
KeepsAcks ==
    \A w \in Calls : /\ Completed(w)' <=> Completed(w)
                     /\ w \in Acknowledged' <=> w \in Acknowledged

LEMMA CallsWakes ==
    ASSUME TypeInv, CallsInv, Wakes, KeepsGroup, UNCHANGED status
    PROVE  CallsInv' /\ KeepsAcks
<1>. USE DEF KeepsGroup
<1>1. QueueInv'
  BY QueueWakes DEF CallsInv
<1>2. \A w \in Calls : \A S \in {Committing, {"append", "sync", "insert"},
           {"append", "sync"}, {"relock"}, {"finish"}, {"flushwait", "flushwake"}} :
           pc'[w] \in S <=> pc[w] \in S
  BY DEF Wakes, Committing
<1>3. GroupInv'
  <2>1. \A w \in Calls : pc'[w] \in Committing <=> pc[w] \in Committing
    BY <1>2
  <2>2. group.n # 0 /\ group.n <= Len(writers_info) => writers_info[1] \in Calls
    BY CallFacts DEF Places
  <2>. QED
    BY <2>1, <2>2 DEF CallsInv, GroupInv, GroupSeqs, Group
<1>4. PhaseInv'
  BY <1>2 DEF CallsInv, PhaseInv
<1>5. \A w \in Calls : Completed(w)' <=> Completed(w)
  BY DEF Wakes, Completed
<1>6. KeepsAcks
  BY <1>5 DEF KeepsAcks, Acknowledged
<1>7. SeqsInv'
  BY <1>2, <1>5, <1>6 DEF CallsInv, SeqsInv, KeepsAcks, Member, Group
<1>. QED
  BY <1>1, <1>3, <1>4, <1>6, <1>7 DEF CallsInv

(* The front moves about in MakeRoomForWrite. *)
InRoomSteps == Leading \ Committing

LEMMA CallsRoom ==
    ASSUME TypeInv, CallsInv, KeepsGroup, NEW w \in Calls, NEW x \in InRoomSteps,
           pc[w] \in InRoomSteps, pc' = [pc EXCEPT ![w] = x],
           \A v \in Calls : v # w => status'[v] = status[v],
           x = "finish" /\ status'[w] = "ok" => batch[w] = NullBatch
    PROVE  CallsInv' /\ KeepsAcks
<1>. USE DEF KeepsGroup
<1>0. /\ pc'[w] = x /\ \A v \in Calls : v # w => pc'[v] = pc[v]
      /\ w \in Calls /\ ~done[w]
  BY CallFacts DEF CallsInv, QueueInv, InRoomSteps, Leading, Committing, Waited
<1>1. QueueInv'
  <2>1. Advances(w)
    BY DEF Advances, InRoomSteps
  <2>. QED
    BY <2>1, QueueAdvances DEF CallsInv
<1>2. group.n = 0
  BY CallFacts DEF CallsInv, QueueInv, GroupInv, InRoomSteps
<1>3. GroupInv'
  BY <1>0, <1>2 DEF CallsInv, GroupInv, InRoomSteps
<1>4. PhaseInv'
  BY <1>0 DEF CallsInv, PhaseInv, InRoomSteps, Leading, Committing
<1>5. \A v \in Calls : Completed(v)' <=> Completed(v)
  BY <1>0 DEF Completed, InRoomSteps, Leading, Committing
<1>6. KeepsAcks
  <2>1. ~Completed(w)
    BY <1>0 DEF Completed, InRoomSteps, Leading, Committing
  <2>. QED
    BY <1>0, <1>5, <2>1 DEF KeepsAcks, Acknowledged
<1>7. SeqsInv'
  <2>1. \A v \in Calls : pc'[v] \in {"flushwait", "flushwake"} <=>
                         pc[v] \in {"flushwait", "flushwake"}
    BY <1>0 DEF InRoomSteps, Leading, Committing
  <2>. QED
    BY <1>5, <1>6, <2>1 DEF CallsInv, SeqsInv, KeepsAcks, Member, Group
<1>. QED
  BY <1>1, <1>3, <1>4, <1>6, <1>7 DEF CallsInv
(* A Write of a null batch that found room, or a step of MakeRoomForWrite  *)
(* that only moves its caller.                                             *)
LEMMA CallsMakeRoom ==
    ASSUME TypeInv, CallsInv, NEW w \in Calls,
           \/ RoomError(w) \/ RoomDelay(w) \/ SleepDone(w) \/ RoomWait(w)
           \/ AwakeRoom(w) \/ RoomSwitchFails(w)
           \/ RoomOK(w) /\ batch[w] = NullBatch
    PROVE  CallsInv' /\ KeepsAcks
<1>1. KeepsGroup
  BY Zenon DEF RoomError, RoomDelay, SleepDone, RoomWait, AwakeRoom, RoomSwitchFails,
               RoomOK, KeepsGroup, memVars
<1>2. status' = status \/ \E x : status' = [status EXCEPT ![w] = x]
  BY Zenon DEF RoomError, RoomDelay, SleepDone, RoomWait, AwakeRoom, RoomSwitchFails, RoomOK
<1>3. \A v \in Calls : v # w => status'[v] = status[v]
  BY <1>2, CallFacts
<1>4. \E x \in InRoomSteps : pc' = [pc EXCEPT ![w] = x] /\ pc[w] \in InRoomSteps
         /\ (x = "finish" /\ status'[w] = "ok" => batch[w] = NullBatch)
  <2>1. CASE RoomError(w) \/ RoomSwitchFails(w)
    <3>1. pc[w] = "room" /\ pc' = [pc EXCEPT ![w] = "finish"] /\ status'[w] = "error"
      BY <2>1, CallFacts DEF RoomError, RoomSwitchFails, RoomCanSwitch, InRoom
    <3>. QED
      BY <3>1 DEF InRoomSteps, Leading, Committing
  <2>2. CASE RoomOK(w) /\ batch[w] = NullBatch
    BY <2>2 DEF RoomOK, InRoom, InRoomSteps, Leading, Committing
  <2>3. CASE RoomDelay(w) \/ SleepDone(w) \/ RoomWait(w) \/ AwakeRoom(w)
    BY <2>3 DEF RoomDelay, SleepDone, RoomWait, AwakeRoom, InRoom, InRoomSteps, Leading,
                Committing
  <2>. QED
    BY <2>1, <2>2, <2>3
<1>. QED
  BY <1>1, <1>3, <1>4, CallsRoom

(* The leader logs its group and inserts it. *)
LEMMA CallsLog ==
    ASSUME TypeInv, CallsInv, NEW w \in Calls, AddRecord(w) \/ SyncWal(w) \/ InsertInto(w)
    PROVE  CallsInv' /\ KeepsAcks
<1>1. /\ UNCHANGED <<batch, sync, done, writers_info, seqs, last_sequence>>
      /\ pc[w] \in {"append", "sync", "insert"}
  BY Zenon DEF AddRecord, SyncWal, InsertInto, memVars
<1>2. /\ Len(writers_info) # 0 /\ writers_info[1] = w /\ ~done[w] /\ group.n # 0
      /\ status[w] = "ok"
  BY <1>1 DEF CallsInv, QueueInv, GroupInv, PhaseInv, Leading, Committing, Waited
<1>3. PICK x \in {"sync", "insert", "relock"} : pc' = [pc EXCEPT ![w] = x]
  <2>1. CASE AddRecord(w)
    BY <2>1 DEF AddRecord
  <2>2. CASE SyncWal(w)
    BY <2>2 DEF SyncWal
  <2>3. CASE InsertInto(w) /\ group.ins < group.hi
    <3>1. pc' = pc /\ pc[w] = "insert"
      BY <2>3 DEF InsertInto
    <3>2. pc' = [pc EXCEPT ![w] = "insert"]
      BY <3>1, CallFacts
    <3>. QED
      BY <3>2
  <2>4. CASE InsertInto(w) /\ ~(group.ins < group.hi)
    BY <2>4 DEF InsertInto
  <2>. QED
    BY <2>1, <2>2, <2>3, <2>4
<1>4. pc'[w] = x /\ \A v \in Calls : v # w => pc'[v] = pc[v]
  BY <1>3, CallFacts
<1>5. /\ group'.n = group.n /\ group'.lo = group.lo /\ group'.hi = group.hi
      /\ group'.ins \in Nat /\ group.lo <= group'.ins /\ group'.ins <= group.hi
      /\ \/ group'.ins = group.ins
         \/ x = "insert"
  <2>1. CASE AddRecord(w) \/ SyncWal(w)
    <3>1. group' = group
      BY <2>1 DEF AddRecord, SyncWal
    <3>. QED
      BY <1>2, <3>1, CallFacts DEF CallsInv, GroupInv
  <2>2. CASE InsertInto(w) /\ group.ins < group.hi
    <3>1. group' = [group EXCEPT !.ins = @ + 1] /\ pc' = pc /\ pc[w] = "insert"
      BY <2>2 DEF InsertInto
    <3>2. group \in [n : Nat, lo : Nat, hi : Nat, ins : Nat]
      BY DEF TypeInv, TypeOK, CallTypes
    <3>. QED
      BY <1>2, <1>4, <2>2, <3>1, <3>2 DEF CallsInv, GroupInv
  <2>3. CASE InsertInto(w) /\ ~(group.ins < group.hi)
    <3>1. group' = group
      BY <2>3 DEF InsertInto
    <3>. QED
      BY <1>2, <3>1, CallFacts DEF CallsInv, GroupInv
  <2>. QED
    BY <2>1, <2>2, <2>3
<1>6. QueueInv'
  <2>1. Advances(w)
    BY <1>1, <1>3 DEF Advances, Leading, Committing
  <2>. QED
    BY <1>1, <2>1, QueueAdvances DEF CallsInv
<1>7. GroupInv'
  BY <1>1, <1>2, <1>4, <1>5 DEF CallsInv, GroupInv, GroupSeqs, Group, Committing
<1>8. PhaseInv'
  <2>1. /\ x \in {"sync", "insert"} => status'[w] = "ok"
        /\ x = "sync" => group'.ins = group'.lo
        /\ x = "relock" => group'.ins = IF status'[w] = "ok" THEN group'.hi ELSE group'.lo
    <3>1. CASE AddRecord(w)
      <4>1. /\ group' = group /\ group.ins = group.lo /\ x = pc'[w]
            /\ \/ status' = status /\ pc' = [pc EXCEPT ![w] = IF sync[w] THEN "sync" ELSE "insert"]
               \/ status' = [status EXCEPT ![w] = "error"] /\ pc' = [pc EXCEPT ![w] = "relock"]
        BY <1>4, <3>1 DEF AddRecord, CallsInv, PhaseInv
      <4>. QED
        BY <1>2, <1>4, <4>1, CallFacts
    <3>2. CASE SyncWal(w)
      <4>1. /\ group' = group /\ group.ins = group.lo /\ x = pc'[w]
            /\ \/ status' = status /\ pc' = [pc EXCEPT ![w] = "insert"]
               \/ status' = [status EXCEPT ![w] = "error"] /\ pc' = [pc EXCEPT ![w] = "relock"]
        BY <1>4, <3>2 DEF SyncWal, CallsInv, PhaseInv
      <4>. QED
        BY <1>2, <1>4, <4>1, CallFacts
    <3>3. CASE InsertInto(w)
      <4>1. /\ status' = status /\ x = pc'[w] /\ pc[w] = "insert"
            /\ \/ pc' = pc
               \/ group' = group /\ ~(group.ins < group.hi) /\ pc' = [pc EXCEPT ![w] = "relock"]
        BY <1>4, <3>3 DEF InsertInto
      <4>2. group.ins <= group.hi
        BY <1>2 DEF CallsInv, GroupInv
      <4>. QED
        BY <1>2, <1>4, <4>1, <4>2, CallFacts
    <3>. QED
      BY <3>1, <3>2, <3>3
  <2>2. \A v \in Calls : v # w => pc'[v] \notin Leading
    BY <1>2, <1>4 DEF CallsInv, QueueInv
  <2>. QED
    BY <1>4, <2>1, <2>2 DEF PhaseInv, Leading, Committing
<1>9. \A v \in Calls : Completed(v)' <=> Completed(v)
  BY <1>1, <1>4 DEF Completed
<1>10. KeepsAcks
  <2>1. ~Completed(w)
    BY <1>1, <1>2 DEF Completed
  <2>2. \A v \in Calls : v # w => status'[v] = status[v]
    <3>1. status' = status \/ \E y : status' = [status EXCEPT ![w] = y]
      BY Zenon DEF AddRecord, SyncWal, InsertInto
    <3>. QED
      BY <3>1, CallFacts
  <2>. QED
    BY <1>9, <2>1, <2>2 DEF KeepsAcks, Acknowledged
<1>11. SeqsInv'
  <2>1. \A v \in Calls : pc'[v] \in {"flushwait", "flushwake"} <=>
                         pc[v] \in {"flushwait", "flushwake"}
    BY <1>1, <1>4
  <2>. QED
    BY <1>1, <1>5, <1>9, <1>10, <2>1 DEF CallsInv, SeqsInv, KeepsAcks, Member, Group
<1>. QED
  BY <1>6, <1>7, <1>8, <1>10, <1>11 DEF CallsInv
(* No call is acknowledged that has entries, and none that has is taken    *)
(* back.                                                                   *)
NoCommit ==
    /\ Committed' = Committed
    /\ \A v \in Acknowledged' : /\ v \in Acknowledged
                                /\ seqs'[v] = seqs[v] /\ sync'[v] = sync[v]

LEMMA AcksNoCommit ==
    ASSUME KeepsAcks, \A v \in Acknowledged : seqs'[v] = seqs[v] /\ sync'[v] = sync[v]
    PROVE  NoCommit
<1>1. Acknowledged' = Acknowledged
  BY DEF KeepsAcks, Acknowledged
<1>. QED
  BY <1>1 DEF NoCommit, Committed

LEMMA CallsWrite ==
    ASSUME TypeInv, CallsInv, NEW w \in Calls, NEW b \in Batches, NEW s \in Syncs,
           Write(w, b, s)
    PROVE  CallsInv' /\ NoCommit
<1>1. /\ pc[w] = "idle" /\ writers_info' = Append(writers_info, w)
      /\ UNCHANGED <<done, status, group, seqs, last_sequence>>
      /\ pc' = [pc EXCEPT ![w] = IF writers_info = <<>> THEN "room" ELSE "cvwait"]
      /\ batch' = [batch EXCEPT ![w] = b] /\ sync' = [sync EXCEPT ![w] = s]
  BY DEF Write, memVars
<1>2. /\ Len(writers_info') = Len(writers_info) + 1
      /\ \A i \in Places : writers_info'[i] = writers_info[i]
  BY <1>1, CallFacts DEF Places
<1>3. ~done[w] /\ \A i \in Places : writers_info[i] # w
  BY <1>1, CallFacts DEF CallsInv, QueueInv, Waited, Queued, Leading, Committing
<1>4. /\ pc'[w] \in {"room", "cvwait"} /\ batch'[w] = b
      /\ \A v \in Calls : v # w => /\ pc'[v] = pc[v] /\ batch'[v] = batch[v]
                                   /\ sync'[v] = sync[v]
  BY <1>1, CallFacts
<1>5. QueueInv'
  BY QueueWrite DEF CallsInv
<1>6. group.n # 0 => /\ group.n <= Len(writers_info) /\ \A i \in Group : i \in Places
                     /\ 1 \in Group
  BY CallFacts DEF CallsInv, GroupInv, Group, Places
<1>7. GroupInv'
  <2>1. \A v \in Calls : pc'[v] \in Committing => pc[v] \in Committing
    BY <1>4 DEF Committing
  <2>2. \A i \in Group : i \in Places => /\ writers_info'[i] = writers_info[i]
                                         /\ writers_info[i] # w /\ writers_info[i] \in Calls
    BY <1>2, <1>3, CallFacts
  <2>3. Group' = Group /\ GroupSeqs' = GroupSeqs
    BY <1>1 DEF Group, GroupSeqs
  <2>4. \A v \in Calls : pc'[v] \in Committing => group.n # 0
    BY <2>1 DEF CallsInv, GroupInv
  <2>5. CASE group.n # 0
    <3>1. \A i \in Group : /\ writers_info'[i] = writers_info[i] /\ writers_info[i] \in Calls
                           /\ batch'[writers_info[i]] = batch[writers_info[i]]
                           /\ sync'[writers_info[i]] = sync[writers_info[i]]
                           /\ pc'[writers_info[i]] = pc[writers_info[i]]
      BY <1>4, <1>6, <2>2, <2>5
    <3>2. group.n <= Len(writers_info')
      BY <1>2, <1>6, <2>5, CallFacts
    <3>3. /\ pc'[writers_info'[1]] \in Committing /\ batch'[writers_info'[1]] # NullBatch
          /\ \A i \in Group : sync'[writers_info'[i]] => sync'[writers_info'[1]]
      BY <1>6, <2>5, <3>1 DEF CallsInv, GroupInv
    <3>4. /\ \A i \in Group : seqs[writers_info'[i]] \subseteq GroupSeqs
          /\ \A y \in GroupSeqs : \E i \in Group : y \in seqs[writers_info'[i]]
          /\ \A i, j \in Group :
                i # j => seqs[writers_info'[i]] \cap seqs[writers_info'[j]] = {}
      BY <2>5, <3>1 DEF CallsInv, GroupInv
    <3>5. group.lo = last_sequence /\ group.lo <= group.ins /\ group.ins <= group.hi
      BY <2>5 DEF CallsInv, GroupInv
    <3>. QED
      BY <1>1, <2>3, <2>4, <3>2, <3>3, <3>4, <3>5 DEF GroupInv
  <2>6. CASE group.n = 0
    BY <1>1, <2>4, <2>6 DEF GroupInv
  <2>. QED
    BY <2>5, <2>6
<1>8. PhaseInv'
  BY <1>1, <1>4 DEF CallsInv, PhaseInv
<1>9. \A v \in Calls : Completed(v)' <=> Completed(v)
  BY <1>1, <1>4 DEF Completed
<1>10. KeepsAcks
  BY <1>1, <1>9 DEF KeepsAcks, Acknowledged
<1>11. ~Completed(w) /\ ~Member(w) /\ seqs[w] = {}
  <2>1. ~Completed(w)
    BY <1>1, <1>3 DEF Completed
  <2>2. ~Member(w)
    <3>1. CASE group.n # 0
      BY <1>3, <1>6, <3>1 DEF Member
    <3>2. CASE group.n = 0
      BY <3>2 DEF Member, Group
    <3>. QED
      BY <3>1, <3>2
  <2>. QED
    BY <2>1, <2>2 DEF CallsInv, SeqsInv
<1>12. SeqsInv'
  <2>1. \A v \in Calls : Member(v)' <=> Member(v)
    <3>1. CASE group.n # 0
      BY <1>1, <1>2, <1>6, <3>1 DEF Member, Group
    <3>2. CASE group.n = 0
      BY <1>1, <3>2 DEF Member, Group
    <3>. QED
      BY <3>1, <3>2
  <2>2. ASSUME NEW v \in Calls, v # w
        PROVE  /\ ~Completed(v)' /\ ~Member(v)' => seqs'[v] = {}
               /\ batch'[v] = NullBatch => seqs'[v] = {}
               /\ pc'[v] \in {"flushwait", "flushwake"} => batch'[v] = NullBatch
               /\ v \in Acknowledged' => seqs'[v] \subseteq 1..last_sequence'
    BY <1>1, <1>4, <1>9, <1>10, <2>1, <2>2 DEF CallsInv, SeqsInv, KeepsAcks
  <2>3. seqs'[w] = {} /\ pc'[w] \notin {"flushwait", "flushwake"}
    BY <1>1, <1>4, <1>11
  <2>. QED
    BY <2>2, <2>3 DEF SeqsInv
<1>13. \A v \in Acknowledged : seqs'[v] = seqs[v] /\ sync'[v] = sync[v]
  BY <1>1, <1>4, <1>11 DEF Acknowledged
<1>. QED
  BY <1>5, <1>7, <1>8, <1>10, <1>12, <1>13, AcksNoCommit DEF CallsInv

(* A writer that waited finds that it is the front, or that the leader of  *)
(* its group has committed it; TEST_CompactMemTable waits on.              *)
LEMMA CallsAwake ==
    ASSUME TypeInv, CallsInv, NEW w \in Calls, AwakeWriter(w) \/ AwaitFlush(w)
    PROVE  CallsInv' /\ NoCommit
<1>1. KeepsGroup
  BY Zenon DEF AwakeWriter, AwaitFlush, KeepsGroup, memVars
<1>2. PICK x : /\ pc' = [pc EXCEPT ![w] = x]
               /\ \/ /\ pc[w] = "cvwake" /\ done[w] /\ x \in {"flushwake", "returned"}
                     /\ x = "flushwake" => batch[w] = NullBatch
                     /\ status' = status
                  \/ pc[w] = "cvwake" /\ ~done[w] /\ x \in {"room", "cvwait"} /\ status' = status
                  \/ /\ pc[w] = "flushwake" /\ x \in {"flushwait", "returned"}
                     /\ status' = status \/ status' = [status EXCEPT ![w] = "error"]
  <2>1. CASE AwakeWriter(w)
    BY <2>1 DEF AwakeWriter, AfterWrite
  <2>2. CASE AwaitFlush(w)
    <3>1. CASE imm # NoMem /\ ~bg_error /\ ~shutting_down
      BY <2>2, <3>1 DEF AwaitFlush
    <3>2. CASE ~(imm # NoMem /\ ~bg_error /\ ~shutting_down)
      <4>1. /\ pc' = [pc EXCEPT ![w] = "returned"] /\ pc[w] = "flushwake"
            /\ \/ status' = [status EXCEPT ![w] = "error"]
               \/ status' = [status EXCEPT ![w] = @]
        BY <2>2, <3>2, Zenon DEF AwaitFlush
      <4>2. [status EXCEPT ![w] = @] = status
        BY CallFacts
      <4>. QED
        BY <4>1, <4>2
    <3>. QED
      BY <3>1, <3>2
  <2>. QED
    BY <2>1, <2>2
<1>3. /\ pc'[w] = x /\ \A v \in Calls : v # w => pc'[v] = pc[v] /\ status'[v] = status[v]
      /\ status'[w] = "ok" => status[w] = "ok"
  BY <1>2, CallFacts
<1>4. QueueInv'
  BY QueueAwake DEF CallsInv
<1>5. GroupInv'
  <2>1. \A v \in Calls : pc'[v] \in Committing <=> pc[v] \in Committing
    BY <1>2, <1>3 DEF Committing
  <2>2. group.n # 0 /\ group.n <= Len(writers_info) => writers_info[1] \in Calls
    BY CallFacts DEF Places
  <2>. QED
    BY <1>1, <2>1, <2>2 DEF CallsInv, GroupInv, GroupSeqs, Group, KeepsGroup
<1>6. PhaseInv'
  BY <1>1, <1>2, <1>3 DEF CallsInv, PhaseInv, KeepsGroup
<1>7. \A v \in Calls : Completed(v)' <=> Completed(v)
  BY <1>1, <1>2, <1>3 DEF Completed, KeepsGroup
<1>8. \A v \in Calls : v \in Acknowledged' => v \in Acknowledged
  BY <1>3, <1>7 DEF Acknowledged
<1>9. \A v \in Calls : v \in Acknowledged => v \in Acknowledged' \/ seqs[v] = {}
  BY <1>2, <1>3, <1>7 DEF Acknowledged, CallsInv, SeqsInv
<1>10. SeqsInv'
  <2>1. \A v \in Calls : pc'[v] \in {"flushwait", "flushwake"} => batch[v] = NullBatch
    BY <1>2, <1>3 DEF CallsInv, SeqsInv
  <2>. QED
    BY <1>1, <1>7, <1>8, <2>1 DEF CallsInv, SeqsInv, Member, Group, KeepsGroup
<1>11. NoCommit
  <2>1. seqs' = seqs /\ sync' = sync
    BY <1>1 DEF KeepsGroup
  <2>2. \A v \in Acknowledged' : v \in Acknowledged
    BY <1>8 DEF Acknowledged
  <2>3. Committed' = UNION {seqs[v] : v \in Acknowledged'}
    BY <2>1 DEF Committed
  <2>4. \A y : y \in Committed' <=> y \in Committed
    <3>. TAKE y
    <3>1. y \in Committed' => y \in Committed
      BY <2>2, <2>3 DEF Committed
    <3>2. ASSUME y \in Committed
          PROVE  y \in Committed'
      <4>1. PICK v \in Acknowledged : y \in seqs[v]
        BY <3>2 DEF Committed
      <4>2. v \in Acknowledged'
        BY <1>9, <4>1 DEF Acknowledged
      <4>. QED
        BY <2>3, <4>1, <4>2
    <3>. QED
      BY <3>1, <3>2
  <2>. QED
    BY <2>1, <2>2, <2>4 DEF NoCommit
<1>. QED
  BY <1>4, <1>5, <1>6, <1>10, <1>11 DEF CallsInv
(* The queue and the calls that are completed have nothing in common. *)
LEMMA QueuedNotCompleted ==
    ASSUME TypeInv, QueueInv, NEW i \in Places
    PROVE  ~Completed(writers_info[i]) /\ writers_info[i] \in Calls
BY CallFacts DEF QueueInv, Completed, Queued, Leading, Committing

(* The front builds its group. *)
LEMMA CallsGroup ==
    ASSUME TypeInv, CallsInv, NEW w \in Calls, RoomOK(w), batch[w] # NullBatch
    PROVE  CallsInv' /\ NoCommit
<1>1. PICK n \in Places :
        /\ BuildBatchGroup(writers_info, n)
        /\ group' = [n |-> n, lo |-> last_sequence, ins |-> last_sequence,
                     hi |-> last_sequence + Count(writers_info, n)]
        /\ seqs' = [c \in Calls |->
              IF \E i \in 1..n : writers_info[i] = c
              THEN UNION {BatchSeqs(writers_info, i, last_sequence) :
                            i \in {j \in 1..n : writers_info[j] = c}}
              ELSE seqs[c]]
  BY Zenon DEF RoomOK, Places
<1>2. /\ UNCHANGED <<batch, sync, done, writers_info, last_sequence>>
      /\ pc[w] = "room" /\ pc' = [pc EXCEPT ![w] = "append"]
      /\ status' = [status EXCEPT ![w] = "ok"]
  BY Zenon DEF RoomOK, InRoom, memVars
<1>3. /\ Len(writers_info) # 0 /\ writers_info[1] = w /\ ~done[w] /\ group.n = 0
      /\ n \in Nat \ {0} /\ n <= Len(writers_info) /\ \A i \in 1..n : i \in Places
  BY <1>2, CallFacts DEF CallsInv, QueueInv, GroupInv, Leading, Committing, Waited, Places
<1>4. /\ pc'[w] = "append" /\ status'[w] = "ok"
      /\ \A v \in Calls : v # w => pc'[v] = pc[v] /\ status'[v] = status[v]
  BY <1>2, CallFacts
<1>5. /\ \A i \in 1..n : seqs'[writers_info[i]] = BatchSeqs(writers_info, i, last_sequence)
      /\ \A v \in Calls : (~\E i \in 1..n : writers_info[i] = v) => seqs'[v] = seqs[v]
  <2>1. \A i, j \in 1..n : writers_info[i] = writers_info[j] => i = j
    BY <1>3 DEF CallsInv, QueueInv
  <2>2. ASSUME NEW i \in 1..n
        PROVE  seqs'[writers_info[i]] = BatchSeqs(writers_info, i, last_sequence)
    <3>1. writers_info[i] \in Calls
      BY <1>3, CallFacts
    <3>2. {j \in 1..n : writers_info[j] = writers_info[i]} = {i}
      BY <2>1
    <3>3. seqs'[writers_info[i]] = UNION {BatchSeqs(writers_info, k, last_sequence) :
                            k \in {j \in 1..n : writers_info[j] = writers_info[i]}}
      BY <1>1, <3>1, Zenon
    <3>4. seqs'[writers_info[i]] = UNION {BatchSeqs(writers_info, k, last_sequence) : k \in {i}}
      BY <3>2, <3>3
    <3>. QED
      BY <3>4
  <2>. QED
    BY <1>1, <2>2, Zenon
<1>6. /\ group'.n = n /\ group'.lo = last_sequence /\ group'.ins = last_sequence
      /\ group'.hi = last_sequence + Count(writers_info, n)
  BY <1>1
<1>7. /\ Count(writers_info, n) \in Nat
      /\ \A i \in 1..n : seqs'[writers_info[i]] \subseteq GroupSeqs'
      /\ \A x \in GroupSeqs' : \E i \in 1..n : x \in seqs'[writers_info[i]]
      /\ \A i, j \in 1..n : i # j => seqs'[writers_info[i]] \cap seqs'[writers_info[j]] = {}
      /\ \A i \in 1..n : batch[writers_info[i]] = NullBatch => seqs'[writers_info[i]] = {}
  <2>1. GroupSeqs' = (last_sequence + 1)..(last_sequence + Count(writers_info, n))
    BY <1>6 DEF GroupSeqs
  <2>2. n \in Nat /\ last_sequence \in Nat
    BY <1>3, CallFacts
  <2>. DEFINE B(i) == BatchSeqs(writers_info, i, last_sequence)
              top == last_sequence + Count(writers_info, n)
  <2>3. /\ Count(writers_info, n) \in Nat
        /\ \A i \in 1..n : B(i) \subseteq (last_sequence + 1)..top
        /\ \A x \in (last_sequence + 1)..top : \E i \in 1..n : x \in B(i)
        /\ \A i, j \in 1..n : i # j => B(i) \cap B(j) = {}
        /\ \A i \in 1..n : batch[writers_info[i]] = NullBatch => B(i) = {}
    BY <2>2, BatchesNumbered
  <2>4. \A i \in 1..n : seqs'[writers_info[i]] = B(i)
    BY <1>5
  <2>5. GroupSeqs' = (last_sequence + 1)..top
    BY <2>1
  <2>. HIDE DEF B, top
  <2>. QED
    BY <2>3, <2>4, <2>5
<1>8. QueueInv'
  <2>1. Advances(w)
    BY <1>2 DEF Advances, Leading, Committing
  <2>. QED
    BY <1>2, <2>1, QueueAdvances DEF CallsInv
<1>9. \A i \in 1..n : sync[writers_info[i]] => sync[writers_info[1]]
  BY <1>1, <1>3 DEF BuildBatchGroup, JoinsGroup
<1>10. GroupInv'
  <2>1. Group' = 1..n
    BY <1>6 DEF Group
  <2>2. \A v \in Calls : pc'[v] \in Committing => group'.n # 0
    BY <1>3, <1>6
  <2>3. /\ group'.n <= Len(writers_info') /\ pc'[writers_info'[1]] \in Committing
        /\ batch'[writers_info'[1]] # NullBatch
    BY <1>2, <1>3, <1>4, <1>6 DEF Committing
  <2>4. group'.lo = last_sequence' /\ group'.lo <= group'.ins /\ group'.ins <= group'.hi
    BY <1>2, <1>6, <1>7, CallFacts
  <2>5. \A i \in Group' : sync'[writers_info'[i]] => sync'[writers_info'[1]]
    BY <1>2, <1>9, <2>1
  <2>. QED
    BY <1>2, <1>7, <2>1, <2>2, <2>3, <2>4, <2>5 DEF GroupInv
<1>11. PhaseInv'
  <2>1. \A v \in Calls : v # w => pc'[v] \notin Leading
    BY <1>3, <1>4 DEF CallsInv, QueueInv
  <2>. QED
    BY <1>4, <1>6, <2>1, CallFacts DEF PhaseInv, Leading, Committing
<1>12. \A v \in Calls : Completed(v)' <=> Completed(v)
  BY <1>2, <1>4 DEF Completed
<1>13. KeepsAcks
  <2>1. ~Completed(w)
    BY <1>2, <1>3 DEF Completed
  <2>. QED
    BY <1>4, <1>12, <2>1 DEF KeepsAcks, Acknowledged
<1>14. \A v \in Acknowledged : seqs'[v] = seqs[v] /\ sync'[v] = sync[v]
  <2>. TAKE v \in Acknowledged
  <2>1. v \in Calls /\ Completed(v)
    BY DEF Acknowledged
  <2>2. ~\E i \in 1..n : writers_info[i] = v
    BY <1>3, <2>1, QueuedNotCompleted DEF CallsInv
  <2>. QED
    BY <1>2, <1>5, <2>1, <2>2
<1>15. SeqsInv'
  <2>. SUFFICES ASSUME NEW v \in Calls
                PROVE  /\ ~Completed(v)' /\ ~Member(v)' => seqs'[v] = {}
                       /\ batch'[v] = NullBatch => seqs'[v] = {}
                       /\ pc'[v] \in {"flushwait", "flushwake"} => batch'[v] = NullBatch
                       /\ v \in Acknowledged' => seqs'[v] \subseteq 1..last_sequence'
    BY DEF SeqsInv
  <2>0. Group' = 1..n
    BY <1>6 DEF Group
  <2>1. Member(v)' <=> \E i \in 1..n : writers_info[i] = v
    BY <1>2, <2>0 DEF Member
  <2>2. pc'[v] \in {"flushwait", "flushwake"} => batch'[v] = NullBatch
    BY <1>2, <1>4 DEF CallsInv, SeqsInv
  <2>3. CASE Member(v)'
    <3>1. PICK i \in 1..n : writers_info[i] = v
      BY <2>1, <2>3
    <3>2. ~Completed(v)
      BY <1>3, <3>1, QueuedNotCompleted DEF CallsInv
    <3>3. v \notin Acknowledged'
      BY <1>12, <3>2 DEF Acknowledged
    <3>. QED
      BY <1>2, <1>7, <2>2, <2>3, <3>1, <3>3
  <2>4. CASE ~Member(v)'
    <3>1. seqs'[v] = seqs[v] /\ ~Member(v)
      BY <1>3, <1>5, <2>1, <2>4 DEF Member, Group
    <3>2. v \in Acknowledged' => v \in Acknowledged
      BY <1>13 DEF KeepsAcks
    <3>. QED
      BY <1>2, <1>12, <2>2, <3>1, <3>2 DEF CallsInv, SeqsInv
  <2>. QED
    BY <2>3, <2>4
<1>. QED
  BY <1>8, <1>10, <1>11, <1>13, <1>14, <1>15, AcksNoCommit DEF CallsInv
(* The leader commits its group: exactly its numbers become visible. *)
Commits(w) ==
    /\ group.n # 0 /\ status[w] = "ok" /\ pc[w] = "relock"
    /\ Committed' = Committed \cup GroupSeqs
    /\ \A v \in Acknowledged' :
          \/ v \in Acknowledged
          \/ seqs[v] \subseteq GroupSeqs /\ (sync[v] => sync[w])

(* ... or nobody's do: the group has failed, or was that of a null batch. *)
FinishesIdly(w) ==
    /\ group.n = 0 \/ (group.ins = group.lo /\ pc[w] = "relock")
    /\ Committed' = Committed
    /\ \A v \in Acknowledged' : v \in Acknowledged \/ seqs[v] = {}

LEMMA CallsFinish ==
    ASSUME TypeInv, CallsInv, NEW w \in Calls, FinishWrite(w)
    PROVE  CallsInv' /\ (Commits(w) \/ FinishesIdly(w))
<1>. DEFINE n == GroupLength
            InGroup(v) == \E i \in 1..n : writers_info[i] = v
<1>0. Finishes(w)
  BY FinishFacts DEF CallsInv
<1>1. /\ n \in Nat \ {0} /\ n <= Len(writers_info) /\ writers_info[1] = w
      /\ \A i \in 1..n : i \in Places
      /\ (group.n # 0 => n = group.n) /\ (group.n = 0 => n = 1)
  BY <1>0, CallFacts DEF Finishes, Places, GroupLength
<1>2. /\ \A v \in Calls : done'[v] <=> done[v] \/ \E i \in 2..n : writers_info[i] = v
      /\ \A v \in Calls : status'[v] = IF \E i \in 2..n : writers_info[i] = v
                                       THEN status[w] ELSE status[v]
      /\ UNCHANGED <<batch, sync, seqs>>
      /\ pc'[w] \in {"flushwake", "returned"}
      /\ pc'[w] = "flushwake" => batch[w] = NullBatch
  BY <1>0 DEF Finishes, AfterWrite
<1>. HIDE DEF n
<1>3. QueueInv'
  BY QueueFinish DEF CallsInv
<1>4. \A v \in Calls : pc'[v] \notin Leading
  <2>1. \A v \in Calls : v # w => pc[v] \notin Leading
    BY <1>1 DEF CallsInv, QueueInv
  <2>. QED
    BY <1>0, <1>2, <2>1 DEF Finishes, Leading, Committing
<1>5. group'.n = 0 /\ GroupInv' /\ PhaseInv'
  <2>1. group'.n = 0
    BY <1>0 DEF Finishes
  <2>. QED
    BY <1>4, <2>1 DEF GroupInv, PhaseInv, Leading, Committing
<1>6. \A v : InGroup(v) <=> v = w \/ \E i \in 2..n : writers_info[i] = v
  BY <1>1
<1>7. \A v \in Calls : InGroup(v) => ~Completed(v)
  BY <1>1, QueuedNotCompleted DEF CallsInv
<1>. HIDE DEF InGroup
<1>8. \A v \in Calls : Completed(v)' <=> Completed(v) \/ InGroup(v)
  <2>1. Completed(w)' /\ InGroup(w)
    BY <1>2, <1>6 DEF Completed
  <2>2. \A v \in Calls : v # w => (pc'[v] \in {"returned", "flushwait", "flushwake"} <=>
                                   pc[v] \in {"returned", "flushwait", "flushwake"})
    BY <1>0 DEF Finishes
  <2>. QED
    BY <1>2, <1>6, <2>1, <2>2 DEF Completed
<1>9. /\ \A v \in Calls : InGroup(v) => status'[v] = status[w]
      /\ \A v \in Calls : ~InGroup(v) => status'[v] = status[v]
  BY <1>2, <1>6
<1>10. \A v \in Calls : v \in Acknowledged' <=>
          v \in Acknowledged \/ (InGroup(v) /\ status[w] = "ok")
  BY <1>7, <1>8, <1>9 DEF Acknowledged
<1>11. \A y : y \in Committed' <=>
          y \in Committed \/ (status[w] = "ok" /\ \E v \in Calls : InGroup(v) /\ y \in seqs[v])
  <2>1. Committed' = UNION {seqs[v] : v \in Acknowledged'}
    BY <1>2 DEF Committed
  <2>2. \A v : v \in Acknowledged' => v \in Calls
    BY DEF Acknowledged
  <2>3. \A v : v \in Acknowledged => v \in Calls
    BY DEF Acknowledged
  <2>. QED
    BY <1>10, <2>1, <2>2, <2>3 DEF Committed
<1>12. Commits(w) \/ FinishesIdly(w)
  <2>1. CASE group.n # 0 /\ status[w] = "ok"
    <3>1. pc[w] = "relock" /\ n = group.n
      BY <1>0, <1>1, <2>1 DEF Finishes
    <3>2. \A i \in 1..n : /\ seqs[writers_info[i]] \subseteq GroupSeqs
                          /\ sync[writers_info[i]] => sync[writers_info[1]]
      BY <2>1, <3>1 DEF CallsInv, GroupInv, Group
    <3>3. \A y \in GroupSeqs : \E i \in 1..n : y \in seqs[writers_info[i]]
      BY <2>1, <3>1 DEF CallsInv, GroupInv, Group
    <3>4. \A v \in Calls : InGroup(v) => seqs[v] \subseteq GroupSeqs /\ (sync[v] => sync[w])
      BY <1>1, <3>2 DEF InGroup
    <3>5. \A y \in GroupSeqs : \E v \in Calls : InGroup(v) /\ y \in seqs[v]
      BY <1>1, <3>3, CallFacts DEF InGroup
    <3>6. Committed' = Committed \cup GroupSeqs
      BY <1>11, <2>1, <3>4, <3>5
    <3>7. \A v : v \in Acknowledged' => v \in Calls
      BY DEF Acknowledged
    <3>. QED
      BY <1>10, <2>1, <3>1, <3>4, <3>6, <3>7 DEF Commits
  <2>2. CASE ~(group.n # 0 /\ status[w] = "ok")
    <3>1. group.n = 0 \/ (group.ins = group.lo /\ pc[w] = "relock")
      BY <1>0, <2>2, CallFacts DEF Finishes, CallsInv, PhaseInv
    <3>2. status[w] = "ok" => /\ \A v \in Calls : InGroup(v) => v = w
                              /\ seqs[w] = {}
      <4>1. ASSUME status[w] = "ok"
            PROVE  group.n = 0 /\ pc[w] = "finish" /\ n = 1
        BY <1>0, <1>1, <2>2, <4>1 DEF Finishes
      <4>2. ASSUME status[w] = "ok"
            PROVE  seqs[w] = {}
        BY <4>1, <4>2 DEF CallsInv, PhaseInv, SeqsInv
      <4>. QED
        BY <1>1, <4>1, <4>2 DEF InGroup
    <3>3. \A v : v \in Acknowledged' => v \in Calls
      BY DEF Acknowledged
    <3>4. \A v \in Acknowledged' : v \in Acknowledged \/ seqs[v] = {}
      BY <1>10, <3>2, <3>3
    <3>5. Committed' = Committed
      BY <1>11, <3>2
    <3>. QED
      BY <3>1, <3>4, <3>5 DEF FinishesIdly
  <2>. QED
    BY <2>1, <2>2
<1>13. SeqsInv'
  <2>. SUFFICES ASSUME NEW v \in Calls
                PROVE  /\ ~Completed(v)' /\ ~Member(v)' => seqs'[v] = {}
                       /\ batch'[v] = NullBatch => seqs'[v] = {}
                       /\ pc'[v] \in {"flushwait", "flushwake"} => batch'[v] = NullBatch
                       /\ v \in Acknowledged' => seqs'[v] \subseteq 1..last_sequence'
    BY DEF SeqsInv
  <2>1. ~Completed(v)' => seqs'[v] = {}
    <3>1. Member(v) /\ group.n # 0 => InGroup(v)
      BY <1>1 DEF Member, Group, InGroup
    <3>2. Member(v) => group.n # 0
      BY DEF Member, Group
    <3>. QED
      BY <1>2, <1>8, <3>1, <3>2 DEF CallsInv, SeqsInv
  <2>2. batch'[v] = NullBatch => seqs'[v] = {}
    BY <1>2 DEF CallsInv, SeqsInv
  <2>3. pc'[v] \in {"flushwait", "flushwake"} => batch'[v] = NullBatch
    <3>1. CASE v = w
      BY <1>2, <3>1
    <3>2. CASE v # w
      BY <1>0, <1>2, <3>2 DEF Finishes, CallsInv, SeqsInv
    <3>. QED
      BY <3>1, <3>2
  <2>4. v \in Acknowledged' => seqs'[v] \subseteq 1..last_sequence'
    <3>1. last_sequence' = IF group.n = 0 THEN last_sequence ELSE group.hi
      BY <1>0 DEF Finishes
    <3>2. last_sequence' \in Nat /\ last_sequence <= last_sequence'
      BY <3>1, CallFacts DEF CallsInv, GroupInv
    <3>3. v \in Acknowledged => seqs[v] \subseteq 1..last_sequence'
      BY <3>2, CallFacts DEF CallsInv, SeqsInv
    <3>4. group.n # 0 => GroupSeqs \subseteq 1..last_sequence'
      BY <3>1, <3>2, CallFacts DEF GroupSeqs
    <3>. QED
      BY <1>2, <1>12, <3>3, <3>4 DEF Commits, FinishesIdly
  <2>. QED
    BY <2>1, <2>2, <2>3, <2>4
<1>. QED
  BY <1>3, <1>5, <1>12, <1>13 DEF CallsInv
(* The steps of the other threads, and a switch of memtable, do nothing to *)
(* the calls but wake some of them up.                                     *)
OtherStep ==
    \/ \E w \in Calls : RoomSwitch(w)
    \/ BackgroundStep
    \/ \E t \in Threads : SpuriousWakeup(t)
    \/ Close \/ AwaitBackground
    \/ \E r \in Readers : Get(r) \/ GetDone(r)
    \/ UNCHANGED vars

LEMMA SignalAllWakes ==
    ASSUME TypeInv, pc' = pc \/ pc' = SignalAll(pc)
    PROVE  Wakes
BY CallFacts DEF Wakes, SignalAll

LEMMA OtherStepWakes ==
    ASSUME TypeInv, OtherStep
    PROVE  Wakes /\ KeepsGroup /\ UNCHANGED status
<1>1. KeepsGroup /\ UNCHANGED status
  BY Zenon
  DEF OtherStep, RoomSwitch, BackgroundStep, BackgroundCall, NestedFlush, FlushBuilt,
      FlushLogged, FlushApply, FlushFail, RemoveObsoleteFiles, CompactionDone,
      CompactionApply, SpuriousWakeup, Close, AwaitBackground, Get, GetDone, KeepsGroup,
      callVars, memVars, vars
<1>2. CASE \E w \in Calls : RoomSwitch(w)
  <2>1. pc' = pc \/ pc' = SignalAll(pc)
    BY <1>2, Zenon DEF RoomSwitch, RecordBackgroundError
  <2>. QED
    BY <1>1, <2>1, SignalAllWakes
<1>3. CASE BackgroundStep
  <2>1. pc' = pc \/ pc' = SignalAll(pc)
    BY <1>3, Zenon
    DEF BackgroundStep, BackgroundCall, NestedFlush, FlushBuilt, FlushLogged, FlushApply,
        FlushFail, RemoveObsoleteFiles, CompactionDone, CompactionApply, EndFlush,
        EndBackgroundCall, callVars
  <2>. QED
    BY <1>1, <2>1, SignalAllWakes
<1>4. ASSUME NEW t \in Threads, SpuriousWakeup(t)
      PROVE  Wakes
  <2>1. pc' = SignalWriters(pc, {t}) \/ pc' = [pc EXCEPT ![t] = SignalAll(pc)[t]]
    BY <1>4, Zenon DEF SpuriousWakeup
  <2>. QED
    BY <2>1, CallFacts DEF Wakes, SignalWriters, SignalAll
<1>5. CASE Close \/ AwaitBackground
  <2>1. \E x : pc' = [pc EXCEPT ![Closer] = x]
    BY <1>5, Zenon DEF Close, AwaitBackground
  <2>. QED
    BY <1>1, <2>1, CallFacts DEF Wakes
<1>6. CASE (\E r \in Readers : Get(r) \/ GetDone(r)) \/ UNCHANGED vars
  <2>1. pc' = pc
    BY <1>6, Zenon DEF Get, GetDone, callVars, vars
  <2>. QED
    BY <1>1, <2>1 DEF Wakes
<1>. QED
  BY <1>1, <1>2, <1>3, <1>4, <1>5, <1>6 DEF OtherStep

LEMMA CallsOther ==
    ASSUME TypeInv, CallsInv, OtherStep
    PROVE  CallsInv' /\ NoCommit
<1>1. CallsInv' /\ KeepsAcks
  BY OtherStepWakes, CallsWakes
<1>2. \A v \in Acknowledged : seqs'[v] = seqs[v] /\ sync'[v] = sync[v]
  BY OtherStepWakes DEF KeepsGroup
<1>. QED
  BY <1>1, <1>2, AcksNoCommit

(* The steps of Write that change neither the memtables nor the log. *)
QuietCall(w) ==
    \/ \E b \in Batches, s \in Syncs : Write(w, b, s)
    \/ AwakeWriter(w) \/ AwaitFlush(w)
    \/ RoomError(w) \/ RoomDelay(w) \/ SleepDone(w) \/ RoomWait(w)
    \/ AwakeRoom(w) \/ RoomSwitchFails(w) \/ RoomOK(w)

LEMMA CallsQuiet ==
    ASSUME TypeInv, CallsInv, NEW w \in Calls, QuietCall(w)
    PROVE  CallsInv' /\ NoCommit
<1>1. CASE \E b \in Batches, s \in Syncs : Write(w, b, s)
  BY <1>1, CallsWrite
<1>2. CASE AwakeWriter(w) \/ AwaitFlush(w)
  BY <1>2, CallsAwake
<1>3. CASE RoomOK(w) /\ batch[w] # NullBatch
  BY <1>3, CallsGroup
<1>4. CASE \/ RoomError(w) \/ RoomDelay(w) \/ SleepDone(w) \/ RoomWait(w)
           \/ AwakeRoom(w) \/ RoomSwitchFails(w)
           \/ RoomOK(w) /\ batch[w] = NullBatch
  <2>1. CallsInv' /\ KeepsAcks
    BY <1>4, CallsMakeRoom
  <2>2. UNCHANGED <<seqs, sync>>
    BY <1>4, Zenon DEF RoomError, RoomDelay, SleepDone, RoomWait, AwakeRoom,
                       RoomSwitchFails, RoomOK
  <2>. QED
    BY <2>1, <2>2, AcksNoCommit
<1>. QED
  BY <1>1, <1>2, <1>3, <1>4 DEF QuietCall

LEMMA CallsLogNoCommit ==
    ASSUME TypeInv, CallsInv, NEW w \in Calls, AddRecord(w) \/ SyncWal(w) \/ InsertInto(w)
    PROVE  CallsInv' /\ NoCommit
<1>1. UNCHANGED <<seqs, sync>>
  BY Zenon DEF AddRecord, SyncWal, InsertInto
<1>. QED
  BY <1>1, CallsLog, AcksNoCommit

LEMMA NextSplit ==
    ASSUME [Next]_vars
    PROVE  \/ OtherStep
           \/ \E w \in Calls : \/ QuietCall(w) \/ AddRecord(w) \/ SyncWal(w)
                               \/ InsertInto(w) \/ FinishWrite(w)
BY Zenon DEF Next, WriterStep, OtherStep, QuietCall
-----------------------------------------------------------------------------
(***************************************************************************)
(* What a step does to the memtables and the files                         *)
(***************************************************************************)

(* Nobody enters the part of Write after the append, and those in it are   *)
(* where they were.                                                        *)
Logged == {"sync", "insert", "relock"}
KeepsPhase ==
    \A v \in Calls : pc'[v] \in Logged =>
        /\ pc'[v] = pc[v] /\ status'[v] = status[v] /\ sync'[v] = sync[v]
        /\ GroupSeqs' = GroupSeqs

(* Neither the memtables and the version, nor the log and the MANIFEST. *)
KeepsMem == UNCHANGED <<mt, wal_number, imm, sst>>
KeepsLog == UNCHANGED <<wal_recs, wal_synced, wal_torn>>
KeepsFiles ==
    /\ UNCHANGED <<wal_files, log_number, manifest_log, manifest_sst, manifest_torn>>
    /\ bg' = "flushapply" => bg = "flushapply" /\ job' = job

(* At most one call is past the queue. *)
LEMMA OneLeader ==
    ASSUME QueueInv, NEW v \in Calls, NEW w \in Calls, pc[v] \in Leading, pc[w] \in Leading
    PROVE  v = w
BY DEF QueueInv

LEMMA DataFacts ==
    ASSUME TypeInv
    PROVE  /\ wal_number \in Nat \ {0} /\ imm \in 0..wal_number
           /\ mt \in [1..wal_number -> SUBSET Nat] /\ sst \subseteq Nat
           /\ wal_recs \in [1..wal_number -> SUBSET Nat]
           /\ wal_synced \in [1..wal_number -> SUBSET Nat]
           /\ wal_torn \in [1..wal_number -> BOOLEAN]
           /\ wal_files \subseteq 1..wal_number
           /\ log_number \in 1..wal_number /\ manifest_log \in 1..wal_number
           /\ manifest_sst \subseteq Nat /\ manifest_torn \in {"no", "tail", "middle"}
           /\ bg \in {"flush", "flushlog", "flushapply", "flushfail"} => imm # NoMem
           /\ bg \in {"flushlog", "flushapply"} => job.log = wal_number
BY DEF TypeInv, TypeOK, DataTypes, JobInv, Flushing

LEMMA ReaderFacts ==
    ASSUME TypeInv, NEW r \in Readers
    PROVE  /\ reader \in [Readers -> [pc : {"idle", "reading", "returned"}, snap : Nat,
                            mem : 1..wal_number, imm : 0..wal_number, sst : SUBSET Nat]]
           /\ reader[r].snap \in Nat /\ reader[r].mem \in 1..wal_number
           /\ reader[r].imm \in 0..wal_number
BY DEF TypeInv, TypeOK, ReaderTypes

(* Numbers of entries that are not published yet are above the last one. *)
LEMMA InsertedFresh ==
    ASSUME TypeInv, CallsInv
    PROVE  Inserted \cap 1..last_sequence = {} /\
           (group.n # 0 => GroupSeqs \cap 1..last_sequence = {})
BY CallFacts DEF CallsInv, GroupInv, Inserted, GroupSeqs

LEMMA StoredFrame ==
    ASSUME StoredInv, KeepsMem, Committed' = Committed, Inserted' = Inserted
    PROVE  StoredInv'
BY DEF StoredInv, Stored, Memtable, KeepsMem

(* A Get is not disturbed by what happens above its snapshot. *)
LEMMA ReaderFrame ==
    ASSUME TypeInv, ReaderInv, UNCHANGED reader,
           last_sequence' \in Nat, last_sequence <= last_sequence',
           \A f \in 1..wal_number : mt'[f] \cap 1..last_sequence = mt[f] \cap 1..last_sequence,
           Committed' \cap 1..last_sequence = Committed \cap 1..last_sequence
    PROVE  ReaderInv'
<1>. SUFFICES ASSUME NEW r \in Readers, reader[r].pc # "idle"
              PROVE  /\ reader[r].snap <= last_sequence'
                     /\ View(r)' = Committed' \cap 1..reader[r].snap
  BY DEF ReaderInv
<1>1. reader[r].snap <= last_sequence /\ View(r) = Committed \cap 1..reader[r].snap
  BY DEF ReaderInv
<1>2. 1..reader[r].snap \subseteq 1..last_sequence
  BY <1>1, CallFacts, ReaderFacts
<1>3. View(r)' = View(r)
  <2>1. mt'[reader[r].mem] \cap 1..reader[r].snap = mt[reader[r].mem] \cap 1..reader[r].snap
    BY <1>2, ReaderFacts
  <2>2. reader[r].imm # NoMem =>
          mt'[reader[r].imm] \cap 1..reader[r].snap = mt[reader[r].imm] \cap 1..reader[r].snap
    BY <1>2, ReaderFacts, DataFacts
  <2>. QED
    BY <2>1, <2>2 DEF View, Memtable
<1>4. Committed' \cap 1..reader[r].snap = Committed \cap 1..reader[r].snap
  BY <1>2
<1>. QED
  BY <1>1, <1>3, <1>4, CallFacts, ReaderFacts

LEMMA WalFrame ==
    ASSUME WalInv, KeepsPhase, KeepsLog, UNCHANGED <<mt, wal_number>>
    PROVE  WalInv'
BY DEF WalInv, KeepsPhase, KeepsLog, Logged

LEMMA ManifestFrame ==
    ASSUME TypeInv, ManifestInv, KeepsFiles, UNCHANGED <<wal_number, imm, sst>>,
           imm # NoMem => mt'[imm] = mt[imm]
    PROVE  ManifestInv'
BY DataFacts DEF ManifestInv, KeepsFiles

LEMMA SyncFrame ==
    ASSUME SyncInv, KeepsPhase, KeepsLog, KeepsMem,
           \A v \in Acknowledged' : \/ v \in Acknowledged /\ sync'[v] = sync[v]
                                       /\ seqs'[v] = seqs[v]
                                    \/ seqs'[v] = {}
    PROVE  SyncInv'
<1>1. \A w \in Acknowledged' : sync'[w] => \A x \in seqs'[w] :
          x \in sst' \/ (imm' # NoMem /\ Safe(x, imm)') \/ Safe(x, wal_number)'
  BY DEF SyncInv, KeepsLog, KeepsMem, Safe
<1>. QED
  BY <1>1 DEF SyncInv, KeepsPhase, KeepsLog, KeepsMem, Logged
(* An entry that is safe stays safe while its memtable and its WAL file grow. *)
LEMMA SyncGrows ==
    ASSUME TypeInv, SyncInv, NoCommit, UNCHANGED <<imm, wal_number, sst>>,
           \A f \in 1..wal_number : /\ mt[f] \subseteq mt'[f]
                                    /\ wal_torn[f] => wal_torn'[f]
                                    /\ wal_synced[f] \subseteq wal_synced'[f]
    PROVE  \A v \in Acknowledged' : sync'[v] => \A x \in seqs'[v] :
              x \in sst' \/ (imm' # NoMem /\ Safe(x, imm)') \/ Safe(x, wal_number)'
<1>1. \A x : \A f \in 1..wal_number :
        Safe(x, f) => x \in mt'[f] /\ (wal_torn'[f] \/ x \in wal_synced'[f])
  BY DEF Safe
<1>2. wal_number \in 1..wal_number /\ (imm # NoMem => imm \in 1..wal_number)
  BY DataFacts
<1>3. /\ \A x : Safe(x, wal_number) => Safe(x, wal_number)'
      /\ \A x : imm # NoMem /\ Safe(x, imm) => Safe(x, imm)'
  BY <1>1, <1>2 DEF Safe
<1>4. \A v \in Acknowledged : sync[v] => \A x \in seqs[v] :
        x \in sst \/ (imm # NoMem /\ Safe(x, imm)) \/ Safe(x, wal_number)
  BY DEF SyncInv
<1>. QED
  BY <1>3, <1>4 DEF NoCommit

DataInv == StoredInv /\ ReaderInv /\ WalInv /\ ManifestInv /\ SyncInv

LEMMA DataFrame ==
    ASSUME TypeInv, DataInv, NoCommit, Inserted' = Inserted, KeepsPhase, KeepsMem,
           KeepsLog, KeepsFiles, UNCHANGED <<reader, last_sequence>>
    PROVE  DataInv'
<1>1. StoredInv'
  BY StoredFrame DEF DataInv, NoCommit
<1>2. ReaderInv'
  BY ReaderFrame, CallFacts DEF DataInv, NoCommit, KeepsMem
<1>3. WalInv'
  BY WalFrame DEF DataInv, KeepsMem
<1>4. ManifestInv'
  BY ManifestFrame DEF DataInv, KeepsMem
<1>5. SyncInv'
  BY SyncFrame DEF DataInv, NoCommit
<1>. QED
  BY <1>1, <1>2, <1>3, <1>4, <1>5 DEF DataInv

(* A step of Write that touches neither the memtables nor the log. *)
LEMMA DataQuiet ==
    ASSUME TypeInv, CallsInv, DataInv, NEW w \in Calls, QuietCall(w)
    PROVE  DataInv'
<1>1. UNCHANGED <<memVars, walVars, verVars, bgVars, reader>>
  BY Zenon DEF QuietCall, Write, AwakeWriter, AwaitFlush, RoomError, RoomDelay, SleepDone,
               RoomWait, AwakeRoom, RoomSwitchFails, RoomOK
<1>2. KeepsMem /\ KeepsLog /\ KeepsFiles /\ UNCHANGED last_sequence
  BY <1>1 DEF KeepsMem, KeepsLog, KeepsFiles, memVars, walVars, verVars, bgVars
<1>3. CallsInv' /\ NoCommit
  BY CallsQuiet
<1>4. PICK x : pc' = [pc EXCEPT ![w] = x] /\ x \notin Logged
  <2>1. \A st : AfterWrite(w, st) \notin Logged
    BY DEF AfterWrite, Logged
  <2>2. \A y \in {"room", "cvwait", "finish", "sleep", "bgwait", "flushwait", "returned",
                  "append"} : y \notin Logged
    BY DEF Logged
  <2>3. \/ \E st : pc' = [pc EXCEPT ![w] = AfterWrite(w, st)]
        \/ \E y \in {"room", "cvwait", "finish", "sleep", "bgwait", "flushwait", "returned",
                     "append"} : pc' = [pc EXCEPT ![w] = y]
    BY Zenon DEF QuietCall, Write, AwakeWriter, AwaitFlush, RoomError, RoomDelay,
                 SleepDone, RoomWait, AwakeRoom, RoomSwitchFails, RoomOK
  <2>. QED
    BY <2>1, <2>2, <2>3, Zenon
<1>5. \A v \in Calls : v # w => pc'[v] = pc[v]
  BY <1>4, CallFacts
<1>6. CASE RoomOK(w) /\ batch[w] # NullBatch
  <2>1. PICK n : group' = [n |-> n, lo |-> last_sequence, ins |-> last_sequence,
                           hi |-> last_sequence + Count(writers_info, n)]
    BY <1>6, Zenon DEF RoomOK
  <2>2. pc[w] = "room" /\ pc'[w] = "append"
    BY <1>6, CallFacts DEF RoomOK, InRoom
  <2>3. Inserted' = {}
    BY <2>1, CallFacts DEF Inserted
  <2>4. group.n = 0
    <3>1. group.n # 0 => writers_info[1] \in Calls /\ pc[writers_info[1]] \in Committing
      BY CallFacts DEF CallsInv, GroupInv, Places
    <3>. QED
      BY <2>2, <3>1 DEF CallsInv, QueueInv, Leading, Committing
  <2>5. \A v \in Calls : pc'[v] \notin Logged
    <3>1. \A v \in Calls : pc'[v] \in Logged => pc[v] \in Leading /\ v # w
      BY <1>5, <2>2 DEF Logged, Leading, Committing
    <3>2. pc[w] \in Leading
      BY <2>2 DEF Leading
    <3>. QED
      BY <3>1, <3>2, OneLeader DEF CallsInv
  <2>. QED
    BY <1>1, <1>2, <1>3, <2>3, <2>4, <2>5, DataFrame DEF Inserted, KeepsPhase
<1>7. CASE ~(RoomOK(w) /\ batch[w] # NullBatch)
  <2>1. UNCHANGED group
    BY <1>7, Zenon
    DEF QuietCall, Write, AwakeWriter, AwaitFlush, RoomError, RoomDelay, SleepDone,
        RoomWait, AwakeRoom, RoomSwitchFails, RoomOK
  <2>2. \A v \in Calls : v # w => status'[v] = status[v] /\ sync'[v] = sync[v]
    BY CallFacts
    DEF QuietCall, Write, AwakeWriter, AwaitFlush, RoomError, RoomDelay, SleepDone,
        RoomWait, AwakeRoom, RoomSwitchFails, RoomOK
  <2>3. pc'[w] \notin Logged
    BY <1>4, CallFacts
  <2>4. KeepsPhase
    BY <1>5, <2>1, <2>2, <2>3 DEF KeepsPhase, GroupSeqs
  <2>. QED
    BY <1>1, <1>2, <1>3, <2>1, <2>4, DataFrame DEF Inserted
<1>. QED
  BY <1>6, <1>7
(* The leader logs the group's record. *)
LEMMA DataAddRecord ==
    ASSUME TypeInv, CallsInv, DataInv, NEW w \in Calls, AddRecord(w)
    PROVE  DataInv'
<1>1. /\ UNCHANGED <<mt, wal_number, imm, sst, last_sequence, reader, group, sync>>
      /\ UNCHANGED <<wal_synced, bg, job>>
      /\ UNCHANGED <<wal_files, log_number, manifest_log, manifest_sst, manifest_torn>>
      /\ pc[w] = "append"
  BY Zenon DEF AddRecord, memVars, verVars, bgVars
<1>2. KeepsMem /\ KeepsFiles
  BY <1>1 DEF KeepsMem, KeepsFiles
<1>3. CallsInv' /\ NoCommit
  BY CallsLogNoCommit
<1>4. \/ /\ \/ wal_recs' = [wal_recs EXCEPT ![wal_number] = @ \cup GroupSeqs]
            \/ wal_torn[wal_number] /\ wal_recs' = wal_recs
         /\ pc' = [pc EXCEPT ![w] = IF sync[w] THEN "sync" ELSE "insert"]
         /\ UNCHANGED <<status, wal_torn>>
      \/ /\ wal_torn' = [wal_torn EXCEPT ![wal_number] = TRUE]
         /\ status' = [status EXCEPT ![w] = "error"]
         /\ pc' = [pc EXCEPT ![w] = "relock"]
         /\ wal_recs' = wal_recs
  BY Zenon DEF AddRecord
<1>5. \A v \in Calls : pc'[v] \in Logged => v = w
  <2>1. \A v \in Calls : v # w /\ pc'[v] \in Logged => pc[v] \in Leading
    BY <1>4, CallFacts DEF Logged, Leading, Committing
  <2>2. pc[w] \in Leading
    BY <1>1 DEF Leading, Committing
  <2>. QED
    BY <2>1, <2>2, OneLeader DEF CallsInv
<1>6. /\ \A f \in 1..wal_number : wal_recs[f] \subseteq wal_recs'[f]
      /\ \A f \in 1..wal_number : wal_torn[f] => wal_torn'[f]
  BY <1>4, DataFacts
<1>7. StoredInv' /\ ReaderInv' /\ ManifestInv'
  <2>1. Inserted' = Inserted
    BY <1>1 DEF Inserted
  <2>. QED
    BY <1>1, <1>2, <1>3, <2>1, StoredFrame, ReaderFrame, ManifestFrame, CallFacts
    DEF DataInv, NoCommit
<1>8. WalInv'
  <2>1. /\ \A f \in 1..wal_number : wal_synced'[f] \subseteq wal_recs'[f]
        /\ \A f \in 1..wal_number : ~wal_torn'[f] => mt'[f] \subseteq wal_recs'[f]
    BY <1>1, <1>6 DEF DataInv, WalInv
  <2>2. pc'[w] \in {"sync", "insert"} /\ ~wal_torn'[wal_number] =>
          GroupSeqs \subseteq wal_recs'[wal_number]
    <3>1. pc'[w] \in {"sync", "insert"} => UNCHANGED wal_torn /\
            \/ wal_recs' = [wal_recs EXCEPT ![wal_number] = @ \cup GroupSeqs]
            \/ wal_torn[wal_number]
      BY <1>4, CallFacts
    <3>. QED
      BY <3>1, DataFacts
  <2>. QED
    BY <1>1, <1>5, <2>1, <2>2 DEF WalInv, Logged, GroupSeqs
<1>9. SyncInv'
  <2>1. \A f \in 1..wal_number : /\ mt[f] \subseteq mt'[f]
                                 /\ wal_torn[f] => wal_torn'[f]
                                 /\ wal_synced[f] \subseteq wal_synced'[f]
    BY <1>1, <1>6
  <2>2. \A v \in Acknowledged' : sync'[v] => \A x \in seqs'[v] :
          x \in sst' \/ (imm' # NoMem /\ Safe(x, imm)') \/ Safe(x, wal_number)'
    BY <1>1, <1>3, <2>1, SyncGrows DEF DataInv
  <2>3. ~(pc'[w] \in {"insert", "relock"} /\ status'[w] = "ok" /\ sync'[w])
    BY <1>1, <1>4, CallFacts
  <2>. QED
    BY <1>1, <1>5, <2>2, <2>3 DEF SyncInv, Logged
<1>. QED
  BY <1>7, <1>8, <1>9 DEF DataInv

(* ... syncs the file ... *)
LEMMA DataSyncWal ==
    ASSUME TypeInv, CallsInv, DataInv, NEW w \in Calls, SyncWal(w)
    PROVE  DataInv'
<1>1. /\ UNCHANGED <<mt, wal_number, imm, sst, last_sequence, reader, group, sync>>
      /\ UNCHANGED <<wal_recs, wal_torn, bg, job>>
      /\ UNCHANGED <<wal_files, log_number, manifest_log, manifest_sst, manifest_torn>>
      /\ pc[w] = "sync"
  BY Zenon DEF SyncWal, memVars, verVars, bgVars
<1>2. KeepsMem /\ KeepsFiles
  BY <1>1 DEF KeepsMem, KeepsFiles
<1>3. CallsInv' /\ NoCommit
  BY CallsLogNoCommit
<1>4. \/ /\ wal_synced' = [wal_synced EXCEPT ![wal_number] = wal_recs[wal_number]]
         /\ pc' = [pc EXCEPT ![w] = "insert"]
      \/ /\ status' = [status EXCEPT ![w] = "error"]
         /\ pc' = [pc EXCEPT ![w] = "relock"]
         /\ wal_synced' = wal_synced
  BY Zenon DEF SyncWal
<1>5. \A v \in Calls : pc'[v] \in Logged => v = w
  <2>1. \A v \in Calls : v # w /\ pc'[v] \in Logged => pc[v] \in Leading
    BY <1>4, CallFacts DEF Logged, Leading, Committing
  <2>2. pc[w] \in Leading
    BY <1>1 DEF Leading, Committing
  <2>. QED
    BY <2>1, <2>2, OneLeader DEF CallsInv
<1>6. \A f \in 1..wal_number : /\ wal_synced[f] \subseteq wal_synced'[f]
                               /\ wal_synced'[f] \subseteq wal_recs[f]
  BY <1>4, DataFacts DEF DataInv, WalInv
<1>7. StoredInv' /\ ReaderInv' /\ ManifestInv'
  <2>1. Inserted' = Inserted
    BY <1>1 DEF Inserted
  <2>. QED
    BY <1>1, <1>2, <1>3, <2>1, StoredFrame, ReaderFrame, ManifestFrame, CallFacts
    DEF DataInv, NoCommit
<1>8. ~wal_torn[wal_number] => GroupSeqs \subseteq wal_recs[wal_number]
  BY <1>1 DEF DataInv, WalInv
<1>9. WalInv'
  BY <1>1, <1>5, <1>6, <1>8 DEF DataInv, WalInv, Logged, GroupSeqs
<1>10. SyncInv'
  <2>1. \A f \in 1..wal_number : /\ mt[f] \subseteq mt'[f]
                                 /\ wal_torn[f] => wal_torn'[f]
                                 /\ wal_synced[f] \subseteq wal_synced'[f]
    BY <1>1, <1>6
  <2>2. \A v \in Acknowledged' : sync'[v] => \A x \in seqs'[v] :
          x \in sst' \/ (imm' # NoMem /\ Safe(x, imm)') \/ Safe(x, wal_number)'
    BY <1>1, <1>3, <2>1, SyncGrows DEF DataInv
  <2>3. pc'[w] \in {"insert", "relock"} /\ status'[w] = "ok" /\ ~wal_torn[wal_number] =>
          GroupSeqs \subseteq wal_synced'[wal_number]
    BY <1>4, <1>8, CallFacts, DataFacts
  <2>. QED
    BY <1>1, <1>5, <2>2, <2>3 DEF SyncInv, Logged, GroupSeqs
<1>. QED
  BY <1>7, <1>9, <1>10 DEF DataInv
(* ... and inserts the entries, one at a time. *)
LEMMA DataInsertInto ==
    ASSUME TypeInv, CallsInv, DataInv, NEW w \in Calls, InsertInto(w)
    PROVE  DataInv'
<1>1. /\ UNCHANGED <<wal_number, imm, sst, last_sequence, reader, sync, status>>
      /\ UNCHANGED <<wal_recs, wal_synced, wal_torn, bg, job>>
      /\ UNCHANGED <<wal_files, log_number, manifest_log, manifest_sst, manifest_torn>>
      /\ pc[w] = "insert"
  BY Zenon DEF InsertInto, walVars, verVars, bgVars
<1>2. CallsInv' /\ NoCommit
  BY CallsLogNoCommit
<1>3. /\ group.n # 0 /\ group.lo = last_sequence /\ group.lo <= group.ins
      /\ imm < wal_number
      /\ ~wal_torn[wal_number] => GroupSeqs \subseteq wal_recs[wal_number]
  BY <1>1 DEF CallsInv, GroupInv, DataInv, StoredInv, WalInv, Committing
<1>4. /\ \A v \in Calls : pc'[v] \in Logged => v = w
      /\ pc'[w] \in {"insert", "relock"}
  <2>1. pc' = pc \/ pc' = [pc EXCEPT ![w] = "relock"]
    BY DEF InsertInto
  <2>2. \A v \in Calls : v # w /\ pc'[v] \in Logged => pc[v] \in Leading
    BY <2>1, CallFacts DEF Logged, Leading, Committing
  <2>3. pc[w] \in Leading /\ pc'[w] \in {"insert", "relock"}
    BY <1>1, <2>1, CallFacts DEF Leading, Committing
  <2>. QED
    BY <2>2, <2>3, OneLeader DEF CallsInv
<1>5. PICK X \in SUBSET GroupSeqs :
        /\ mt' = [mt EXCEPT ![wal_number] = @ \cup X]
        /\ Inserted' = Inserted \cup X /\ GroupSeqs' = GroupSeqs
  <2>1. CASE group.ins < group.hi
    <3>1. /\ mt' = [mt EXCEPT ![wal_number] = @ \cup {group.ins + 1}]
          /\ group' = [group EXCEPT !.ins = @ + 1]
      BY <2>1 DEF InsertInto
    <3>2. /\ group'.n = group.n /\ group'.lo = group.lo /\ group'.hi = group.hi
          /\ group'.ins = group.ins + 1
      BY <3>1 DEF TypeInv, TypeOK, CallTypes
    <3>3. {group.ins + 1} \in SUBSET GroupSeqs
      BY <1>3, <2>1, CallFacts DEF GroupSeqs
    <3>4. Inserted' = Inserted \cup {group.ins + 1} /\ GroupSeqs' = GroupSeqs
      <4>1. Inserted = (group.lo + 1)..group.ins /\ Inserted' = (group.lo + 1)..(group.ins + 1)
        BY <1>3, <3>2 DEF Inserted
      <4>2. (group.lo + 1)..(group.ins + 1) = ((group.lo + 1)..group.ins) \cup {group.ins + 1}
        BY <1>3, CallFacts
      <4>. QED
        BY <3>2, <4>1, <4>2 DEF GroupSeqs
    <3>. QED
      BY <3>1, <3>3, <3>4
  <2>2. CASE ~(group.ins < group.hi)
    <3>1. mt' = mt /\ group' = group
      BY <2>2 DEF InsertInto
    <3>2. mt' = [mt EXCEPT ![wal_number] = @ \cup {}]
      BY <3>1, DataFacts
    <3>3. Inserted' = Inserted \cup {} /\ GroupSeqs' = GroupSeqs
      BY <3>1 DEF Inserted, GroupSeqs
    <3>4. {} \in SUBSET GroupSeqs
      OBVIOUS
    <3>. QED
      BY <3>2, <3>3, <3>4, Zenon
  <2>. QED
    BY <2>1, <2>2
<1>6. /\ mt'[wal_number] = mt[wal_number] \cup X
      /\ \A f \in 1..wal_number : f # wal_number => mt'[f] = mt[f]
      /\ imm # NoMem => mt'[imm] = mt[imm]
  BY <1>3, <1>5, DataFacts
<1>7. StoredInv'
  <2>1. Stored' = Stored \cup X
    BY <1>1, <1>6 DEF Stored, Memtable
  <2>2. Inserted' \subseteq mt'[wal_number]
    BY <1>5, <1>6 DEF DataInv, StoredInv
  <2>. QED
    BY <1>1, <1>2, <1>5, <2>1, <2>2 DEF DataInv, StoredInv, NoCommit
<1>8. ReaderInv'
  <2>1. \A f \in 1..wal_number : mt'[f] \cap 1..last_sequence = mt[f] \cap 1..last_sequence
    BY <1>3, <1>5, <1>6, InsertedFresh
  <2>. QED
    BY <1>1, <1>2, <2>1, ReaderFrame, CallFacts DEF DataInv, NoCommit
<1>9. ManifestInv'
  BY <1>1, <1>6, ManifestFrame DEF DataInv, KeepsFiles
<1>10. WalInv'
  <2>1. \A f \in 1..wal_number : ~wal_torn[f] => mt'[f] \subseteq wal_recs[f]
    BY <1>3, <1>5, <1>6 DEF DataInv, WalInv
  <2>. QED
    BY <1>1, <1>3, <1>4, <1>5, <2>1 DEF DataInv, WalInv, Logged
<1>11. SyncInv'
  <2>1. \A f \in 1..wal_number : /\ mt[f] \subseteq mt'[f]
                                 /\ wal_torn[f] => wal_torn'[f]
                                 /\ wal_synced[f] \subseteq wal_synced'[f]
    BY <1>1, <1>6
  <2>2. \A v \in Acknowledged' : sync'[v] => \A x \in seqs'[v] :
          x \in sst' \/ (imm' # NoMem /\ Safe(x, imm)') \/ Safe(x, wal_number)'
    BY <1>1, <1>2, <2>1, SyncGrows DEF DataInv
  <2>3. status[w] = "ok" /\ sync[w] /\ ~wal_torn[wal_number] =>
          GroupSeqs \subseteq wal_synced[wal_number]
    BY <1>1 DEF DataInv, SyncInv
  <2>. QED
    BY <1>1, <1>4, <1>5, <2>2, <2>3 DEF SyncInv, Logged
<1>. QED
  BY <1>7, <1>8, <1>9, <1>10, <1>11 DEF DataInv

(* The leader publishes its group, or gives it up. *)
LEMMA DataFinish ==
    ASSUME TypeInv, CallsInv, DataInv, NEW w \in Calls, FinishWrite(w)
    PROVE  DataInv'
<1>1. /\ UNCHANGED <<mt, wal_number, imm, sst, reader, sync, seqs>>
      /\ UNCHANGED <<wal_recs, wal_synced, wal_torn, bg, job>>
      /\ UNCHANGED <<wal_files, log_number, manifest_log, manifest_sst, manifest_torn>>
      /\ group' = NoGroup
      /\ last_sequence' = IF group.n = 0 THEN last_sequence ELSE group.hi
  BY Zenon DEF FinishWrite, walVars, verVars
<1>2. CallsInv' /\ (Commits(w) \/ FinishesIdly(w))
  BY CallsFinish
<1>3. KeepsMem /\ KeepsLog /\ KeepsFiles /\ Inserted' = {}
  BY <1>1 DEF KeepsMem, KeepsLog, KeepsFiles, Inserted, NoGroup
<1>4. last_sequence' \in Nat /\ last_sequence <= last_sequence'
  BY <1>1, CallFacts DEF CallsInv, GroupInv
<1>5. KeepsPhase
  <2>1. \A v \in Calls : pc'[v] \notin Committing
    BY <1>1, <1>2 DEF CallsInv, GroupInv, NoGroup
  <2>. QED
    BY <2>1 DEF KeepsPhase, Committing, Logged
<1>6. ManifestInv' /\ WalInv'
  BY <1>1, <1>3, <1>5, ManifestFrame, WalFrame DEF DataInv
<1>7. CASE Commits(w)
  <2>1. Inserted = GroupSeqs /\ GroupSeqs \subseteq mt[wal_number]
    BY <1>7 DEF Commits, CallsInv, PhaseInv, Inserted, GroupSeqs, DataInv, StoredInv
  <2>2. StoredInv'
    BY <1>1, <1>3, <1>7, <2>1 DEF Commits, DataInv, StoredInv, Stored, Memtable
  <2>3. ReaderInv'
    <3>1. GroupSeqs \cap 1..last_sequence = {}
      BY <1>7, InsertedFresh DEF Commits
    <3>. QED
      BY <1>1, <1>4, <1>7, <3>1, ReaderFrame DEF Commits, DataInv
  <2>4. SyncInv'
    <3>1. sync[w] => \A x \in GroupSeqs : Safe(x, wal_number)
      BY <1>7, <2>1 DEF Commits, DataInv, SyncInv, Safe
    <3>2. \A v \in Acknowledged' : sync[v] => \A x \in seqs[v] :
            x \in sst \/ (imm # NoMem /\ Safe(x, imm)) \/ Safe(x, wal_number)
      BY <1>7, <3>1 DEF Commits, DataInv, SyncInv
    <3>. QED
      BY <1>1, <1>5, <3>2 DEF DataInv, SyncInv, KeepsPhase, Logged, Safe
  <2>. QED
    BY <1>6, <2>2, <2>3, <2>4 DEF DataInv
<1>8. CASE FinishesIdly(w)
  <2>1. Inserted = {}
    BY <1>8, CallFacts DEF FinishesIdly, Inserted
  <2>2. StoredInv'
    BY <1>3, <1>8, <2>1, StoredFrame DEF FinishesIdly, DataInv
  <2>3. ReaderInv'
    BY <1>1, <1>4, <1>8, ReaderFrame DEF FinishesIdly, DataInv
  <2>4. SyncInv'
    BY <1>1, <1>3, <1>5, <1>8, SyncFrame DEF FinishesIdly, DataInv
  <2>. QED
    BY <1>6, <2>2, <2>3, <2>4 DEF DataInv
<1>. QED
  BY <1>2, <1>7, <1>8
(* A step of another thread. *)
LEMMA OtherPhase ==
    ASSUME TypeInv, CallsInv, OtherStep
    PROVE  KeepsPhase /\ Inserted' = Inserted /\ NoCommit /\ UNCHANGED last_sequence
<1>1. Wakes /\ KeepsGroup /\ UNCHANGED status
  BY OtherStepWakes
<1>. QED
  BY <1>1, CallsOther DEF KeepsGroup, KeepsPhase, Wakes, Logged, Inserted, GroupSeqs

(* While the front makes room there is no group. *)
LEMMA NoGroupInRoom ==
    ASSUME TypeInv, CallsInv, NEW w \in Calls, pc[w] = "room"
    PROVE  /\ group.n = 0 /\ Inserted = {}
           /\ \A v \in Calls : pc[v] \notin Committing
<1>1. pc[w] \in Leading /\ pc[w] \notin Committing
  BY DEF Leading, Committing
<1>2. \A v \in Calls : pc[v] \notin Committing
  BY <1>1, OneLeader DEF CallsInv, Leading
<1>3. group.n # 0 => writers_info[1] \in Calls /\ pc[writers_info[1]] \in Committing
  BY CallFacts DEF CallsInv, GroupInv, Places
<1>. QED
  BY <1>2, <1>3 DEF Inserted

LEMMA ExtendValues ==
    ASSUME wal_number \in Nat \ {0}, NEW g, NEW x
    PROVE  /\ \A f \in 1..wal_number : Extend(g, x)[f] = g[f]
           /\ Extend(g, x)[wal_number + 1] = x
BY DEF Extend

(* The switch of memtable and WAL file. *)
LEMMA DataSwitch ==
    ASSUME TypeInv, CallsInv, DataInv, NEW w \in Calls, RoomSwitch(w)
    PROVE  DataInv'
<1>1. /\ UNCHANGED <<sst, reader, sync, seqs, bg, job>>
      /\ UNCHANGED <<log_number, manifest_log, manifest_sst, manifest_torn>>
      /\ imm = NoMem /\ imm' = wal_number /\ wal_number' = wal_number + 1
      /\ wal_files' = wal_files \cup {wal_number + 1}
      /\ pc[w] = "room"
  BY Zenon DEF RoomSwitch, RoomCanSwitch, InRoom, verVars
<1>1a. /\ wal_recs' = Extend(wal_recs, {}) /\ wal_synced' = Extend(wal_synced, {})
      /\ wal_torn' = Extend(wal_torn, FALSE) /\ mt' = Extend(mt, {})
  BY Zenon DEF RoomSwitch
<1>2. KeepsPhase /\ Inserted' = Inserted /\ NoCommit /\ UNCHANGED last_sequence
  BY OtherPhase DEF OtherStep
<1>3. \A v \in Calls : pc'[v] \notin Logged
  BY <1>1, <1>2, NoGroupInRoom DEF KeepsPhase, Logged, Committing
<1>4. /\ wal_number \in Nat \ {0} /\ bg # "flushapply"
      /\ \A f \in 1..wal_number : /\ wal_recs'[f] = wal_recs[f]
                                  /\ wal_synced'[f] = wal_synced[f]
                                  /\ wal_torn'[f] = wal_torn[f] /\ mt'[f] = mt[f]
      /\ wal_recs'[wal_number + 1] = {} /\ wal_synced'[wal_number + 1] = {}
      /\ mt'[wal_number + 1] = {}
  <2>1. wal_number \in Nat \ {0} /\ bg # "flushapply"
    BY <1>1, DataFacts
  <2>2. \A f \in 1..wal_number : /\ wal_recs'[f] = wal_recs[f]
                                 /\ wal_synced'[f] = wal_synced[f]
                                 /\ wal_torn'[f] = wal_torn[f] /\ mt'[f] = mt[f]
    <3>1. \A f \in 1..wal_number : wal_recs'[f] = wal_recs[f]
      BY <1>1a, <2>1, ExtendValues, Zenon
    <3>2. \A f \in 1..wal_number : wal_synced'[f] = wal_synced[f]
      BY <1>1a, <2>1, ExtendValues, Zenon
    <3>3. \A f \in 1..wal_number : wal_torn'[f] = wal_torn[f]
      BY <1>1a, <2>1, ExtendValues, Zenon
    <3>4. \A f \in 1..wal_number : mt'[f] = mt[f]
      BY <1>1a, <2>1, ExtendValues, Zenon
    <3>. QED
      BY <3>1, <3>2, <3>3, <3>4
  <2>3. /\ wal_recs'[wal_number + 1] = {} /\ wal_synced'[wal_number + 1] = {}
        /\ mt'[wal_number + 1] = {}
    BY <1>1a, <2>1, ExtendValues, Zenon
  <2>. QED
    BY <2>1, <2>2, <2>3
<1>4a. /\ imm' \in 1..wal_number /\ imm' # NoMem /\ mt'[imm'] = mt[wal_number]
       /\ mt'[wal_number'] = {} /\ wal_torn'[imm'] = wal_torn[wal_number]
       /\ wal_synced'[imm'] = wal_synced[wal_number]
  BY <1>1, <1>4
<1>5. StoredInv'
  <2>1. Inserted' = {}
    BY <1>1, <1>2, NoGroupInRoom
  <2>2. Stored' = Stored
    BY <1>1, <1>4a DEF Stored, Memtable
  <2>3. imm' < wal_number'
    BY <1>1, <1>4
  <2>4. Committed' = Committed /\ Stored = Committed \cup Inserted
    BY <1>2 DEF DataInv, StoredInv, NoCommit
  <2>. QED
    BY <1>2, <2>1, <2>2, <2>3, <2>4 DEF StoredInv
<1>6. ReaderInv'
  <2>1. \A f \in 1..wal_number : mt'[f] \cap 1..last_sequence = mt[f] \cap 1..last_sequence
    BY <1>4
  <2>2. Committed' = Committed
    BY <1>2 DEF NoCommit
  <2>. QED
    BY <1>1, <1>2, <2>1, <2>2, ReaderFrame, CallFacts DEF DataInv
<1>7. WalInv'
  <2>1. \A f \in 1..wal_number' : f = wal_number + 1 \/ f \in 1..wal_number
    BY <1>1, <1>4
  <2>. QED
    BY <1>3, <1>4, <2>1 DEF DataInv, WalInv, Logged
<1>8. ManifestInv'
  BY <1>1, <1>4, DataFacts DEF DataInv, ManifestInv
<1>9. SyncInv'
  <2>1. \A x : Safe(x, wal_number) => Safe(x, imm)'
    BY <1>4a DEF Safe
  <2>2. \A v \in Acknowledged' : sync'[v] => \A x \in seqs'[v] :
          x \in sst' \/ (imm' # NoMem /\ Safe(x, imm)')
    BY <1>1, <1>2, <1>4, <2>1 DEF DataInv, SyncInv, NoCommit
  <2>. QED
    BY <1>3, <2>2 DEF SyncInv, Logged
<1>. QED
  BY <1>5, <1>6, <1>7, <1>8, <1>9 DEF DataInv

(* The flush is applied: its memtable is dropped for its table. *)
LEMMA DataFlushApply ==
    ASSUME TypeInv, CallsInv, DataInv, FlushApply
    PROVE  DataInv'
<1>1. /\ UNCHANGED <<mt, wal_number, wal_recs, wal_synced, wal_torn, reader, wal_files>>
      /\ UNCHANGED <<manifest_log, manifest_sst, manifest_torn>>
      /\ bg = "flushapply" /\ log_number' = job.log /\ sst' = sst \cup mt[imm] /\ imm' = NoMem
      /\ bg' # "flushapply"
  BY Zenon DEF FlushApply, EndFlush, EndBackgroundCall, walVars
<1>2. KeepsPhase /\ Inserted' = Inserted /\ NoCommit /\ UNCHANGED last_sequence
  BY OtherPhase DEF OtherStep, BackgroundStep
<1>3. imm # NoMem /\ job.log = wal_number
  BY <1>1, DataFacts
<1>4. StoredInv'
  <2>1. Stored' = Stored
    BY <1>1, <1>3 DEF Stored, Memtable
  <2>. QED
    BY <1>1, <1>2, <2>1, DataFacts DEF DataInv, StoredInv, NoCommit
<1>5. ReaderInv'
  BY <1>1, <1>2, ReaderFrame, CallFacts DEF DataInv, NoCommit
<1>6. WalInv'
  BY <1>1, <1>2, WalFrame DEF DataInv, KeepsLog
<1>7. ManifestInv'
  BY <1>1, <1>3, DataFacts DEF DataInv, ManifestInv
<1>8. SyncInv'
  <2>1. /\ \A x : Safe(x, imm) => x \in sst'
        /\ \A x : Safe(x, wal_number) => Safe(x, wal_number)'
    BY <1>1 DEF Safe
  <2>2. \A v \in Acknowledged' : sync'[v] => \A x \in seqs'[v] :
          x \in sst' \/ Safe(x, wal_number)'
    BY <1>1, <1>2, <2>1 DEF DataInv, SyncInv, NoCommit
  <2>. QED
    BY <1>1, <1>2, <2>2 DEF DataInv, SyncInv, KeepsPhase, Logged
<1>. QED
  BY <1>4, <1>5, <1>6, <1>7, <1>8 DEF DataInv

(* The other steps of the background thread: only the MANIFEST and the set *)
(* of WAL files change.                                                    *)
LEMMA ManifestBackground ==
    ASSUME TypeInv, ManifestInv, BackgroundStep, ~FlushApply
    PROVE  ManifestInv'
<1>1. UNCHANGED <<mt, wal_number, imm, sst, log_number>>
  BY Zenon
  DEF BackgroundStep, BackgroundCall, NestedFlush, FlushBuilt, FlushLogged, FlushFail,
      RemoveObsoleteFiles, CompactionDone, CompactionApply, memVars, verVars
<1>2. CASE BackgroundCall \/ NestedFlush \/ FlushBuilt \/ FlushFail \/ CompactionDone
  <2>1. UNCHANGED <<wal_files, manifest_log, manifest_sst, manifest_torn>>
    BY <1>2, Zenon
    DEF BackgroundCall, NestedFlush, FlushBuilt, FlushFail, CompactionDone, walVars, verVars
  <2>2. bg' # "flushapply"
    BY <1>2 DEF BackgroundCall, NestedFlush, FlushBuilt, FlushFail, CompactionDone,
                EndFlush, EndBackgroundCall
  <2>. QED
    BY <1>1, <2>1, <2>2, ManifestFrame DEF KeepsFiles
<1>3. CASE RemoveObsoleteFiles
  <2>1. /\ UNCHANGED <<manifest_log, manifest_sst, manifest_torn>> /\ bg' # "flushapply"
        /\ wal_files' = {f \in wal_files : f >= log_number}
    BY <1>3 DEF RemoveObsoleteFiles, KeepWal, EndFlush, EndBackgroundCall, verVars
  <2>2. log_number..wal_number \subseteq wal_files'
    BY <2>1, DataFacts DEF ManifestInv
  <2>. QED
    BY <1>1, <2>1, <2>2 DEF ManifestInv
<1>4. CASE CompactionApply
  <2>1. UNCHANGED <<wal_files, manifest_log, manifest_sst>> /\ bg' # "flushapply"
    BY <1>4 DEF CompactionApply, EndBackgroundCall, walVars
  <2>2. \E a \in BOOLEAN : manifest_torn' = ManifestAppend(a)
    BY <1>4, Zenon DEF CompactionApply
  <2>3. manifest_torn' # "middle" => manifest_torn # "middle"
    BY <2>2, DataFacts DEF ManifestAppend
  <2>. QED
    BY <1>1, <2>1, <2>3 DEF ManifestInv
<1>5. CASE FlushLogged
  <2>1. PICK appended, synced \in BOOLEAN :
          /\ IF appended /\ manifest_torn = "no"
             THEN manifest_log' = job.log /\ manifest_sst' = sst \cup mt[imm]
             ELSE UNCHANGED <<manifest_log, manifest_sst>>
          /\ manifest_torn' = ManifestAppend(appended)
          /\ bg' = IF appended /\ synced THEN "flushapply" ELSE "flushfail"
    BY <1>5, Zenon DEF FlushLogged
  <2>2. UNCHANGED <<wal_files, job>> /\ bg = "flushlog"
    BY <1>5 DEF FlushLogged, walVars
  <2>3. imm # NoMem /\ job.log = wal_number
    BY <2>2, DataFacts
  <2>4. CASE appended /\ manifest_torn = "no"
    <3>1. manifest_log' = wal_number /\ manifest_sst' = sst \cup mt[imm]
      BY <2>1, <2>3, <2>4
    <3>. QED
      BY <1>1, <2>2, <2>3, <3>1, DataFacts DEF ManifestInv
  <2>5. CASE appended /\ manifest_torn # "no"
    <3>1. manifest_torn' = "middle"
      BY <2>1, <2>5 DEF ManifestAppend
    <3>. QED
      BY <1>1, <2>2, <3>1 DEF ManifestInv
  <2>6. CASE ~appended
    <3>1. /\ manifest_torn' # "middle" => manifest_torn # "middle"
          /\ bg' # "flushapply" /\ UNCHANGED <<manifest_log, manifest_sst>>
      BY <2>1, <2>6 DEF ManifestAppend
    <3>. QED
      BY <1>1, <2>2, <3>1 DEF ManifestInv
  <2>. QED
    BY <2>4, <2>5, <2>6
<1>. QED
  BY <1>2, <1>3, <1>4, <1>5, Zenon DEF BackgroundStep
LEMMA DataBackground ==
    ASSUME TypeInv, CallsInv, DataInv, BackgroundStep
    PROVE  DataInv'
<1>1. CASE FlushApply
  BY <1>1, DataFlushApply
<1>2. CASE ~FlushApply
  <2>1. /\ UNCHANGED <<mt, wal_number, imm, sst, wal_recs, wal_synced, wal_torn>>
        /\ UNCHANGED reader
    BY <1>2, Zenon
    DEF BackgroundStep, BackgroundCall, NestedFlush, FlushBuilt, FlushLogged, FlushFail,
        RemoveObsoleteFiles, CompactionDone, CompactionApply, memVars, walVars, verVars
  <2>2. KeepsPhase /\ Inserted' = Inserted /\ NoCommit /\ UNCHANGED last_sequence
    BY OtherPhase DEF OtherStep
  <2>3. KeepsMem /\ KeepsLog
    BY <2>1 DEF KeepsMem, KeepsLog
  <2>4. StoredInv'
    BY <2>2, <2>3, StoredFrame DEF DataInv, NoCommit
  <2>5. ReaderInv'
    BY <2>1, <2>2, ReaderFrame, CallFacts DEF DataInv, NoCommit
  <2>6. WalInv'
    BY <2>1, <2>2, <2>3, WalFrame DEF DataInv
  <2>7. SyncInv'
    BY <2>2, <2>3, SyncFrame DEF DataInv, NoCommit
  <2>8. ManifestInv'
    BY <1>2, ManifestBackground DEF DataInv
  <2>. QED
    BY <2>4, <2>5, <2>6, <2>7, <2>8 DEF DataInv
<1>. QED
  BY <1>1, <1>2

(* A Get takes its snapshot, or gives it up. *)
LEMMA DataGet ==
    ASSUME TypeInv, CallsInv, DataInv, NEW r \in Readers, Get(r) \/ GetDone(r)
    PROVE  DataInv'
<1>1. /\ UNCHANGED <<mt, wal_number, imm, sst, wal_recs, wal_synced, wal_torn, bg, job>>
      /\ UNCHANGED <<wal_files, log_number, manifest_log, manifest_sst, manifest_torn>>
  BY Zenon DEF Get, GetDone, memVars, walVars, verVars, bgVars
<1>2. KeepsPhase /\ Inserted' = Inserted /\ NoCommit /\ UNCHANGED last_sequence
  BY OtherPhase DEF OtherStep
<1>3. KeepsMem /\ KeepsLog /\ KeepsFiles
  BY <1>1 DEF KeepsMem, KeepsLog, KeepsFiles
<1>4. StoredInv' /\ WalInv' /\ ManifestInv' /\ SyncInv'
  BY <1>1, <1>2, <1>3, StoredFrame, WalFrame, ManifestFrame, SyncFrame DEF DataInv, NoCommit
<1>5. ReaderInv'
  <2>. SUFFICES ASSUME NEW q \in Readers, reader'[q].pc # "idle"
                PROVE  /\ reader'[q].snap <= last_sequence
                       /\ View(q)' = Committed \cap 1..reader'[q].snap
    BY <1>2 DEF ReaderInv, NoCommit
  <2>1. CASE Get(r) /\ q = r
    <3>1. /\ reader'[r].snap = last_sequence /\ reader'[r].mem = wal_number
          /\ reader'[r].imm = imm /\ reader'[r].sst = sst
      BY <2>1, ReaderFacts DEF Get, ReadRefs
    <3>2. View(r)' = Stored \cap 1..last_sequence
      BY <1>1, <3>1 DEF View, Stored, Memtable
    <3>3. Stored \cap 1..last_sequence = Committed \cap 1..last_sequence
      BY InsertedFresh DEF DataInv, StoredInv
    <3>. QED
      BY <2>1, <3>1, <3>2, <3>3, CallFacts
  <2>2. CASE GetDone(r) \/ q # r
    <3>1. /\ reader'[q].snap = reader[q].snap /\ reader'[q].mem = reader[q].mem
          /\ reader'[q].imm = reader[q].imm /\ reader'[q].sst = reader[q].sst
          /\ reader[q].pc # "idle"
      BY <2>2, ReaderFacts DEF Get, GetDone
    <3>2. View(q)' = View(q)
      BY <1>1, <3>1 DEF View, Memtable
    <3>. QED
      BY <3>1, <3>2 DEF DataInv, ReaderInv
  <2>. QED
    BY <2>1, <2>2
<1>. QED
  BY <1>4, <1>5 DEF DataInv

LEMMA DataOther ==
    ASSUME TypeInv, CallsInv, DataInv, OtherStep
    PROVE  DataInv'
<1>1. CASE \/ \E t \in Threads : SpuriousWakeup(t)
           \/ Close \/ AwaitBackground \/ UNCHANGED vars
  <2>1. UNCHANGED <<memVars, walVars, verVars, bgVars, reader>>
    BY <1>1, Zenon DEF SpuriousWakeup, Close, AwaitBackground, vars
  <2>2. KeepsMem /\ KeepsLog /\ KeepsFiles
    BY <2>1 DEF KeepsMem, KeepsLog, KeepsFiles, memVars, walVars, verVars, bgVars
  <2>. QED
    BY <2>1, <2>2, OtherPhase, DataFrame
<1>. QED
  BY <1>1, DataSwitch, DataBackground, DataGet DEF OtherStep

-----------------------------------------------------------------------------
(***************************************************************************)
(* The invariant holds, and what it implies                                *)
(***************************************************************************)

LEMMA InitCommit == Init => CommitInv
<1>. SUFFICES ASSUME Init PROVE CommitInv
  OBVIOUS
<1>0. TypeInv
  BY InitType
<1>1. /\ \A w \in Calls : pc[w] = "idle" /\ ~done[w] /\ seqs[w] = {}
      /\ Len(writers_info) = 0 /\ group.n = 0
  BY DEF Init, NoGroup
<1>2. Acknowledged = {} /\ Committed = {} /\ Inserted = {}
  BY <1>1 DEF Acknowledged, Completed, Committed, Inserted
<1>3. CallsInv
  BY <1>1, <1>2
  DEF CallsInv, QueueInv, GroupInv, PhaseInv, SeqsInv, Places, Queued, Leading, Committing
<1>4. /\ wal_number = 1 /\ imm = NoMem /\ sst = {} /\ mt[1] = {} /\ wal_files = {1}
      /\ wal_synced[1] = {} /\ log_number = 1 /\ manifest_log = 1 /\ bg = "idle"
      /\ \A r \in Readers : reader[r].pc = "idle"
  BY DEF Init
<1>5. StoredInv /\ ReaderInv
  BY <1>2, <1>4 DEF StoredInv, Stored, Memtable, ReaderInv
<1>6. WalInv /\ ManifestInv /\ SyncInv
  BY <1>1, <1>2, <1>4 DEF WalInv, ManifestInv, SyncInv
<1>. QED
  BY <1>3, <1>5, <1>6 DEF CallsInv, CommitInv

LEMMA NextCommit ==
    ASSUME TypeInv, CommitInv, [Next]_vars
    PROVE  CommitInv'
<1>1. CallsInv /\ DataInv
  BY DEF CommitInv, CallsInv, DataInv
<1>2. CallsInv' /\ DataInv'
  <2>1. CASE OtherStep
    BY <1>1, <2>1, CallsOther, DataOther
  <2>2. ASSUME NEW w \in Calls, QuietCall(w)
        PROVE  CallsInv' /\ DataInv'
    BY <1>1, <2>2, CallsQuiet, DataQuiet
  <2>3. ASSUME NEW w \in Calls, AddRecord(w) \/ SyncWal(w) \/ InsertInto(w)
        PROVE  CallsInv' /\ DataInv'
    BY <1>1, <2>3, CallsLogNoCommit, DataAddRecord, DataSyncWal, DataInsertInto
  <2>4. ASSUME NEW w \in Calls, FinishWrite(w)
        PROVE  CallsInv' /\ DataInv'
    BY <1>1, <2>4, CallsFinish, DataFinish
  <2>. QED
    BY <2>1, <2>2, <2>3, <2>4, NextSplit
<1>. QED
  BY <1>2 DEF CommitInv, CallsInv, DataInv

(* What a recovery replays holds every entry of an intact store: those of  *)
(* the version are in the SSTs of the MANIFEST, those of a memtable in its *)
(* WAL file, or in the MANIFEST's SSTs once that file is obsolete.         *)
LEMMA StoredReplayed ==
    ASSUME TypeInv, DataInv, Intact,
           NEW f, f = wal_number \/ (f # NoMem /\ f = imm)
    PROVE  \/ ~wal_torn[f] /\ f \in LiveWals
           \/ mt[f] \subseteq manifest_sst
<1>1. /\ f \in 1..wal_number /\ log_number <= f
      /\ manifest_torn # "middle" /\ \A g \in LiveWals : ~wal_torn[g]
  BY DataFacts DEF DataInv, ManifestInv, Intact
<1>2. f \in wal_files
  BY <1>1, DataFacts DEF DataInv, ManifestInv
<1>3. CASE f >= manifest_log
  BY <1>1, <1>2, <1>3 DEF LiveWals
<1>4. CASE ~(f >= manifest_log)
  BY <1>1, <1>4, DataFacts DEF DataInv, ManifestInv
<1>. QED
  BY <1>3, <1>4

LEMMA InvRecoverable ==
    ASSUME TypeInv, CommitInv
    PROVE  Recoverable /\ SyncDurable
<1>. SUFFICES ASSUME Intact
              PROVE  /\ Committed \subseteq Replayed(wal_recs)
                     /\ \A w \in Acknowledged :
                           sync[w] => seqs[w] \subseteq Replayed(wal_synced)
  BY DEF Recoverable, SyncDurable
<1>0. DataInv
  BY DEF CommitInv, DataInv
<1>1. \A f : f = wal_number \/ (f # NoMem /\ f = imm) =>
         \/ ~wal_torn[f] /\ f \in LiveWals
         \/ mt[f] \subseteq manifest_sst
  BY <1>0, StoredReplayed
<1>2. sst \subseteq manifest_sst
  BY <1>0 DEF DataInv, ManifestInv, Intact
<1>3. Committed \subseteq Replayed(wal_recs)
  <2>1. \A f : f = wal_number \/ (f # NoMem /\ f = imm) => f \in 1..wal_number
    BY DataFacts
  <2>2. \A f : f = wal_number \/ (f # NoMem /\ f = imm) =>
          (f \in LiveWals /\ mt[f] \subseteq wal_recs[f]) \/ mt[f] \subseteq manifest_sst
    BY <1>0, <1>1, <2>1 DEF DataInv, WalInv
  <2>3. Committed \subseteq sst \cup Memtable(imm) \cup mt[wal_number]
    BY <1>0 DEF DataInv, StoredInv, Stored
  <2>. QED
    BY <1>2, <2>2, <2>3 DEF Replayed, Memtable
<1>4. ASSUME NEW w \in Acknowledged, sync[w], NEW x \in seqs[w]
      PROVE  x \in Replayed(wal_synced)
  <2>1. x \in sst \/ (imm # NoMem /\ Safe(x, imm)) \/ Safe(x, wal_number)
    BY <1>0, <1>4 DEF DataInv, SyncInv
  <2>2. \A f : (f = wal_number \/ (f # NoMem /\ f = imm)) /\ Safe(x, f) =>
          (f \in LiveWals /\ x \in wal_synced[f]) \/ x \in manifest_sst
    BY <1>1 DEF Safe
  <2>. QED
    BY <1>2, <2>1, <2>2 DEF Replayed
<1>. QED
  BY <1>3, <1>4
(* The combined invariant of the write path holds in every reachable state. *)
LEMMA CommitInvariant == Spec => [](TypeInv /\ CommitInv)
<1>1. Init => TypeInv /\ CommitInv
  BY InitType, InitCommit
<1>2. TypeInv /\ CommitInv /\ [Next]_vars => TypeInv' /\ CommitInv'
  BY NextType, NextCommit
<1>. QED
  BY <1>1, <1>2, PTL DEF Spec

(* At every moment of DBImpl::Get, the tables it holds show it, up to its  *)
(* snapshot, exactly the entries of the writes acknowledged when it began, *)
(* whatever groups are committed, memtables switched and flushed meanwhile. *)
THEOREM ReadsAreSnapshots == Spec => []SnapshotRead
<1>1. CommitInv => SnapshotRead
  BY DEF CommitInv, ReaderInv, SnapshotRead
<1>. QED
  BY <1>1, CommitInvariant, PTL

(* Whenever the process dies, the WAL files and the MANIFEST that          *)
(* CompactMemTable and RemoveObsoleteFiles have left hold every entry that *)
(* Write has acknowledged, if no append to them has failed half way.       *)
THEOREM AcknowledgedRecoverable == Spec => []Recoverable
BY CommitInvariant, InvRecoverable, PTL

(* Whenever the power fails, the synced part of those files holds every    *)
(* entry of every Write that asked for a sync and was acknowledged, those  *)
(* that a leader committed for it included.                                *)
THEOREM SyncedWritesDurable == Spec => []SyncDurable
BY CommitInvariant, InvRecoverable, PTL

-----------------------------------------------------------------------------
(***************************************************************************)
(* Write and Get implement AtomicStore: every step of the write path is a  *)
(* step of the atomic store, or leaves what its callers see unchanged.     *)
(***************************************************************************)

(* What the callers see: the values AtomicStore's variables are mapped to. *)
Outcomes == [w \in Calls |-> Outcome(w)]
EntriesOf(w) == IF Outcome(w) = "ok" THEN seqs[w] ELSE {}
Entries == [w \in Calls |-> EntriesOf(w)]
ViewOf(r) == [begun |-> reader[r].pc # "idle",
              seen |-> IF reader[r].pc = "idle" THEN {} ELSE View(r)]
Views == [r \in Readers |-> ViewOf(r)]

-----------------------------------------------------------------------------
(***************************************************************************)
(* The steps of the atomic store, in terms of what the callers see         *)
(***************************************************************************)

LEMMA StutterStep ==
    ASSUME Outcomes' = Outcomes, Entries' = Entries, UNCHANGED last_sequence, Views' = Views
    PROVE  UNCHANGED Abstract!vars
BY DEF Abstract!vars, Outcomes, Entries, EntriesOf, Views, ViewOf

LEMMA BeginStep ==
    ASSUME NEW w \in Calls, Outcome(w) = "none",
           Outcomes' = [Outcomes EXCEPT ![w] = "pending"],
           Entries' = Entries, UNCHANGED last_sequence, Views' = Views
    PROVE  Abstract!Next
<1>1. Abstract!Begin(w)
  BY DEF Abstract!Begin, Outcomes, Entries, EntriesOf, Views, ViewOf
<1>. QED
  BY <1>1 DEF Abstract!Next

LEMMA CommitStep ==
    ASSUME NEW S \in SUBSET Calls, S # {}, \A w \in S : Outcome(w) = "pending",
           Outcomes' = [w \in Calls |-> IF w \in S THEN "ok" ELSE Outcome(w)],
           last_sequence' >= last_sequence,
           \A w \in S : EntriesOf(w)' \subseteq (last_sequence + 1)..last_sequence',
           \A v, w \in S : v # w => EntriesOf(v)' \cap EntriesOf(w)' = {},
           \A w \in Calls \ S : EntriesOf(w)' = EntriesOf(w),
           Views' = Views
    PROVE  Abstract!Next
<1>1. Abstract!Commit(S)
  BY DEF Abstract!Commit, Outcomes, EntriesOf, Views, ViewOf
<1>. QED
  BY <1>1 DEF Abstract!Next

LEMMA FailStep ==
    ASSUME NEW S \in SUBSET Calls, S # {}, \A w \in S : Outcome(w) = "pending",
           Outcomes' = [w \in Calls |-> IF w \in S THEN "error" ELSE Outcome(w)],
           last_sequence' >= last_sequence, Entries' = Entries, Views' = Views
    PROVE  Abstract!Next
<1>1. Abstract!Fail(S)
  BY DEF Abstract!Fail, Outcomes, Entries, EntriesOf, Views, ViewOf
<1>. QED
  BY <1>1 DEF Abstract!Next

LEMMA ReadStep ==
    ASSUME NEW r \in Readers, reader[r].pc = "idle",
           Views' = [Views EXCEPT ![r] =
                        [begun |-> TRUE, seen |-> UNION {EntriesOf(w) : w \in Calls}]],
           Outcomes' = Outcomes, Entries' = Entries, UNCHANGED last_sequence
    PROVE  Abstract!Next
<1>1. Abstract!Visible = UNION {EntriesOf(w) : w \in Calls}
  BY DEF Abstract!Visible, EntriesOf
<1>2. Abstract!Read(r)
  BY <1>1 DEF Abstract!Read, Outcomes, Entries, EntriesOf, Views, ViewOf
<1>. QED
  BY <1>2 DEF Abstract!Next
-----------------------------------------------------------------------------
(***************************************************************************)
(* Outcomes and entries                                                    *)
(***************************************************************************)

(* Whether a call has an outcome, from where it is, whether it has been    *)
(* committed by another, and its batch.                                    *)
Decided(p, d, b) == p = "returned" \/ (d /\ b # NullBatch)

LEMMA OutcomeCases ==
    ASSUME NEW w \in Calls
    PROVE  /\ pc[w] = "idle" /\ ~done[w] => Outcome(w) = "none"
           /\ pc[w] # "idle" /\ Decided(pc[w], done[w], batch[w]) => Outcome(w) = status[w]
           /\ pc[w] # "idle" /\ ~Decided(pc[w], done[w], batch[w]) => Outcome(w) = "pending"
           /\ pc'[w] = "idle" /\ ~done'[w] => Outcome(w)' = "none"
           /\ pc'[w] # "idle" /\ Decided(pc'[w], done'[w], batch'[w]) =>
                 Outcome(w)' = status'[w]
           /\ pc'[w] # "idle" /\ ~Decided(pc'[w], done'[w], batch'[w]) =>
                 Outcome(w)' = "pending"
<1>1. /\ pc[w] = "idle" /\ ~done[w] => Outcome(w) = "none"
      /\ pc[w] # "idle" /\ Decided(pc[w], done[w], batch[w]) => Outcome(w) = status[w]
      /\ pc[w] # "idle" /\ ~Decided(pc[w], done[w], batch[w]) => Outcome(w) = "pending"
  BY DEF Outcome, Decided
<1>2. pc'[w] = "idle" /\ ~done'[w] => Outcome(w)' = "none"
  BY DEF Outcome, Decided
<1>3. pc'[w] # "idle" /\ Decided(pc'[w], done'[w], batch'[w]) => Outcome(w)' = status'[w]
  BY DEF Outcome, Decided
<1>4. pc'[w] # "idle" /\ ~Decided(pc'[w], done'[w], batch'[w]) => Outcome(w)' = "pending"
  BY DEF Outcome, Decided
<1>. QED
  BY <1>1, <1>2, <1>3, <1>4

(* A call that changes neither its place (but for a wake-up) nor anything  *)
(* else keeps its outcome.                                                 *)
LEMMA OutcomeKept ==
    ASSUME QueueInv, NEW w \in Calls, done'[w] = done[w], batch'[w] = batch[w], status'[w] = status[w],
           pc'[w] = "idle" <=> pc[w] = "idle", pc'[w] = "returned" <=> pc[w] = "returned"
    PROVE  Outcome(w)' = Outcome(w)
<1>1. Decided(pc'[w], done'[w], batch'[w]) <=> Decided(pc[w], done[w], batch[w])
  BY DEF Decided
<1>2. pc[w] = "idle" => ~done[w]
  BY DEF QueueInv, Waited
<1>. QED
  BY <1>1, <1>2, OutcomeCases

(* A call waiting or working in Write, and not committed yet, is pending. *)
LEMMA QueuedPending ==
    ASSUME NEW w \in Calls
    PROVE  /\ pc[w] \in Queued /\ ~done[w] => Outcome(w) = "pending"
           /\ pc'[w] \in Queued /\ ~done'[w] => Outcome(w)' = "pending"
<1>1. \A p : p \in Queued => p # "idle" /\ p # "returned"
  BY DEF Queued, Leading, Committing
<1>. QED
  BY <1>1, OutcomeCases DEF Decided

LEMMA IdleNotDone ==
    ASSUME QueueInv, NEW w \in Calls, pc[w] = "idle"
    PROVE  ~done[w] /\ Outcome(w) = "none"
<1>1. ~done[w]
  BY DEF QueueInv, Waited
<1>. QED
  BY <1>1, OutcomeCases

(* The entries callers see are the committed ones. *)
LEMMA VisibleCommitted ==
    ASSUME TypeInv, CallsInv
    PROVE  /\ UNION {EntriesOf(w) : w \in Calls} = Committed
           /\ Committed \subseteq 1..last_sequence
<1>1. ASSUME NEW w \in Calls, Outcome(w) = "ok"
      PROVE  w \in Acknowledged
  <2>1. pc[w] # "idle" /\ Decided(pc[w], done[w], batch[w]) /\ status[w] = "ok"
    BY <1>1, IdleNotDone, OutcomeCases DEF CallsInv
  <2>. QED
    BY <2>1 DEF Decided, Acknowledged, Completed
<1>2. ASSUME NEW w \in Acknowledged
      PROVE  w \in Calls /\ (Outcome(w) = "ok" \/ seqs[w] = {})
  <2>1. w \in Calls /\ Completed(w) /\ status[w] = "ok"
    BY DEF Acknowledged
  <2>2. CASE batch[w] = NullBatch
    BY <2>1, <2>2 DEF CallsInv, SeqsInv
  <2>3. CASE batch[w] # NullBatch
    <3>1. Decided(pc[w], done[w], batch[w])
      BY <2>1, <2>3 DEF CallsInv, SeqsInv, Completed, Decided
    <3>2. pc[w] # "idle"
      BY <2>1 DEF CallsInv, QueueInv, Completed, Waited
    <3>. QED
      BY <2>1, <3>1, <3>2, OutcomeCases
  <2>. QED
    BY <2>2, <2>3
<1>3. \A x : (\E w \in Calls : x \in EntriesOf(w)) <=> \E w \in Acknowledged : x \in seqs[w]
  BY <1>1, <1>2 DEF EntriesOf
<1>4. \A w \in Acknowledged : seqs[w] \subseteq 1..last_sequence
  BY DEF CallsInv, SeqsInv, Acknowledged
<1>. QED
  BY <1>3, <1>4 DEF Committed

(* Views change only when a Get begins. *)
LEMMA ViewsKept ==
    ASSUME TypeInv, ReaderInv, ReaderInv',
           \A r \in Readers : /\ reader'[r].pc = "idle" <=> reader[r].pc = "idle"
                              /\ reader'[r].snap = reader[r].snap,
           Committed' \cap 1..last_sequence = Committed \cap 1..last_sequence
    PROVE  Views' = Views
<1>. SUFFICES ASSUME NEW r \in Readers PROVE ViewOf(r)' = ViewOf(r)
  BY DEF Views
<1>1. CASE reader[r].pc = "idle"
  BY <1>1 DEF ViewOf
<1>2. CASE reader[r].pc # "idle"
  <2>1. /\ View(r) = Committed \cap 1..reader[r].snap
        /\ View(r)' = Committed' \cap 1..reader[r].snap
        /\ reader[r].snap <= last_sequence
    BY <1>2 DEF ReaderInv
  <2>2. 1..reader[r].snap \subseteq 1..last_sequence
    BY <2>1, ReaderFacts, CallFacts
  <2>3. View(r)' = View(r)
    BY <2>1, <2>2
  <2>. QED
    BY <1>2, <2>3 DEF ViewOf
<1>. QED
  BY <1>1, <1>2
LEMMA EntriesKept ==
    ASSUME \A w \in Calls : Outcome(w)' = Outcome(w),
           \A w \in Calls : Outcome(w) = "ok" => seqs'[w] = seqs[w]
    PROVE  Outcomes' = Outcomes /\ Entries' = Entries
<1>1. \A w \in Calls : EntriesOf(w)' = EntriesOf(w)
  BY DEF EntriesOf
<1>. QED
  BY <1>1 DEF Outcomes, Entries

-----------------------------------------------------------------------------
(***************************************************************************)
(* The steps of the write path                                             *)
(***************************************************************************)

RefInv == TypeInv /\ CommitInv

LEMMA RefInvParts ==
    ASSUME RefInv
    PROVE  TypeInv /\ CallsInv /\ DataInv /\ QueueInv /\ GroupInv /\ PhaseInv /\ SeqsInv
BY DEF RefInv, CommitInv, CallsInv, DataInv

(* The other threads: only a Get that begins is seen. *)
LEMMA RefineOther ==
    ASSUME RefInv, RefInv', OtherStep
    PROVE  Abstract!Next \/ UNCHANGED Abstract!vars
<1>0. TypeInv /\ CallsInv /\ QueueInv /\ ReaderInv /\ ReaderInv'
  BY RefInvParts DEF RefInv, CommitInv
<1>1. Wakes /\ KeepsGroup /\ UNCHANGED status /\ NoCommit
  BY <1>0, OtherStepWakes, CallsOther
<1>2. Outcomes' = Outcomes /\ Entries' = Entries
  <2>1. \A w \in Calls : /\ pc'[w] = "idle" <=> pc[w] = "idle"
                         /\ pc'[w] = "returned" <=> pc[w] = "returned"
    BY <1>1 DEF Wakes
  <2>2. \A w \in Calls : Outcome(w)' = Outcome(w)
    BY <1>0, <1>1, <2>1, OutcomeKept DEF KeepsGroup
  <2>. QED
    BY <1>1, <2>2, EntriesKept DEF KeepsGroup
<1>3. ASSUME NEW r \in Readers, Get(r)
      PROVE  Abstract!Next
  <2>1. /\ reader[r].pc = "idle" /\ reader'[r].pc = "reading"
        /\ reader'[r].snap = last_sequence
        /\ \A q \in Readers : q # r => reader'[q] = reader[q]
    BY <1>0, <1>3, ReaderFacts DEF Get, ReadRefs
  <2>2. UNCHANGED <<mt, last_sequence>>
    BY <1>3 DEF Get, memVars
  <2>3. View(r)' = Committed' \cap 1..last_sequence
    BY <1>0, <2>1 DEF ReaderInv
  <2>4. View(r)' = UNION {EntriesOf(w) : w \in Calls}
    BY <1>0, <1>1, <2>3, VisibleCommitted DEF NoCommit
  <2>5. ViewOf(r)' = [begun |-> TRUE, seen |-> UNION {EntriesOf(w) : w \in Calls}]
    BY <2>1, <2>4 DEF ViewOf
  <2>6. \A q \in Readers : q # r => ViewOf(q)' = ViewOf(q)
    BY <2>1, <2>2 DEF ViewOf, View, Memtable
  <2>7. Views' = [Views EXCEPT ![r] =
                     [begun |-> TRUE, seen |-> UNION {EntriesOf(w) : w \in Calls}]]
    BY <2>5, <2>6 DEF Views
  <2>. QED
    BY <1>2, <2>1, <2>2, <2>7, ReadStep
<1>4. CASE ~\E r \in Readers : Get(r)
  <2>1. \/ UNCHANGED reader
        \/ \E r \in Readers : reader[r].pc = "reading" /\
             reader' = [reader EXCEPT ![r].pc = "returned"]
    BY <1>4, Zenon
    DEF OtherStep, RoomSwitch, BackgroundStep, BackgroundCall, NestedFlush, FlushBuilt,
        FlushLogged, FlushApply, FlushFail, RemoveObsoleteFiles, CompactionDone,
        CompactionApply, SpuriousWakeup, Close, AwaitBackground, GetDone, vars
  <2>2. \A q \in Readers : /\ reader'[q].pc = "idle" <=> reader[q].pc = "idle"
                           /\ reader'[q].snap = reader[q].snap
    BY <1>0, <2>1, ReaderFacts
  <2>3. Views' = Views
    BY <1>0, <1>1, <2>2, ViewsKept DEF NoCommit
  <2>. QED
    BY <1>1, <1>2, <2>3, StutterStep DEF KeepsGroup
<1>. QED
  BY <1>3, <1>4

(* What holds of every step of Write that commits nothing. *)
LEMMA CallViews ==
    ASSUME RefInv, RefInv', NEW w \in Calls,
           QuietCall(w) \/ AddRecord(w) \/ SyncWal(w) \/ InsertInto(w)
    PROVE  Views' = Views /\ UNCHANGED last_sequence
<1>1. NoCommit
  BY RefInvParts, CallsQuiet, CallsLogNoCommit
<1>2. UNCHANGED <<reader, last_sequence>>
  BY Zenon DEF QuietCall, Write, AwakeWriter, AwaitFlush, RoomError, RoomDelay, SleepDone,
               RoomWait, AwakeRoom, RoomSwitchFails, RoomOK, AddRecord, SyncWal,
               InsertInto, memVars
<1>. QED
  BY <1>1, <1>2, ViewsKept DEF RefInv, CommitInv, NoCommit

(* The front makes room, builds its group, logs and inserts it: nobody's   *)
(* outcome is decided.                                                     *)
LEMMA RefineLeader ==
    ASSUME RefInv, RefInv', NEW w \in Calls,
           \/ RoomError(w) \/ RoomDelay(w) \/ SleepDone(w) \/ RoomWait(w)
           \/ AwakeRoom(w) \/ RoomSwitchFails(w) \/ RoomOK(w)
           \/ AddRecord(w) \/ SyncWal(w) \/ InsertInto(w)
    PROVE  UNCHANGED Abstract!vars
<1>0. TypeInv /\ CallsInv /\ QueueInv /\ QueueInv'
  BY RefInvParts DEF RefInv, CommitInv
<1>1. Views' = Views /\ UNCHANGED last_sequence
  BY CallViews DEF QuietCall
<1>2. UNCHANGED <<done, batch, writers_info>>
  BY Zenon DEF RoomError, RoomDelay, SleepDone, RoomWait, AwakeRoom, RoomSwitchFails,
               RoomOK, AddRecord, SyncWal, InsertInto
<1>3. pc[w] \in Leading
  <2>1. pc[w] \in {"room", "sleep", "bgwake", "append", "sync", "insert"}
    BY DEF RoomError, RoomDelay, SleepDone, RoomWait, AwakeRoom, RoomSwitchFails,
           RoomCanSwitch, RoomOK, AddRecord, SyncWal, InsertInto, InRoom
  <2>. QED
    BY <2>1 DEF Leading, Committing
<1>4. \A v \in Calls : v # w => pc'[v] = pc[v] /\ status'[v] = status[v]
  <2>1. \/ pc' = pc
        \/ \E x : pc' = [pc EXCEPT ![w] = x]
    BY Zenon DEF RoomError, RoomDelay, SleepDone, RoomWait, AwakeRoom, RoomSwitchFails,
                 RoomOK, AddRecord, SyncWal, InsertInto
  <2>2. \/ status' = status
        \/ \E x : status' = [status EXCEPT ![w] = x]
    BY Zenon DEF RoomError, RoomDelay, SleepDone, RoomWait, AwakeRoom, RoomSwitchFails,
                 RoomOK, AddRecord, SyncWal, InsertInto
  <2>. QED
    BY <1>0, <2>1, <2>2, CallFacts
<1>5. Outcome(w) = "pending" /\ Outcome(w)' = "pending"
  <2>1. \E i \in Places : writers_info[i] = w
    BY <1>0, <1>3, CallFacts DEF QueueInv, Places
  <2>2. pc[w] \in Queued /\ ~done[w] /\ pc'[w] \in Queued /\ ~done'[w]
    BY <1>0, <1>2, <2>1 DEF QueueInv, Places
  <2>. QED
    BY <2>2, QueuedPending
<1>6. \A v \in Calls : Outcome(v)' = Outcome(v)
  BY <1>0, <1>2, <1>4, <1>5, OutcomeKept
<1>7. \A v \in Calls : Outcome(v) = "ok" => seqs'[v] = seqs[v]
  <2>1. CASE UNCHANGED seqs
    BY <2>1
  <2>2. CASE RoomOK(w) /\ batch[w] # NullBatch
    <3>1. PICK n \in Places :
            seqs' = [c \in Calls |->
              IF \E i \in 1..n : writers_info[i] = c
              THEN UNION {BatchSeqs(writers_info, i, last_sequence) :
                            i \in {j \in 1..n : writers_info[j] = c}}
              ELSE seqs[c]]
      BY <2>2, Zenon DEF RoomOK, Places
    <3>2. \A v \in Calls : (\E i \in 1..n : writers_info[i] = v) => Outcome(v) = "pending"
      <4>1. \A i \in 1..n : i \in Places
        BY <1>0, CallFacts DEF Places
      <4>2. \A v \in Calls : (\E i \in 1..n : writers_info[i] = v) =>
              pc[v] \in Queued /\ ~done[v]
        BY <1>0, <4>1 DEF QueueInv
      <4>. QED
        BY <4>2, QueuedPending
    <3>3. \A v \in Calls : (~\E i \in 1..n : writers_info[i] = v) => seqs'[v] = seqs[v]
      BY <3>1, Zenon
    <3>. QED
      BY <3>2, <3>3
  <2>. QED
    BY <2>1, <2>2, Zenon
    DEF RoomError, RoomDelay, SleepDone, RoomWait, AwakeRoom, RoomSwitchFails,
        RoomOK, AddRecord, SyncWal, InsertInto
<1>. QED
  BY <1>1, <1>6, <1>7, EntriesKept, StutterStep
(* One call's outcome changes and nothing else does. *)
LEMMA OneDecided ==
    ASSUME NEW w \in Calls, Outcome(w) = "pending", Outcome(w)' \in {"ok", "error"},
           \A v \in Calls : v # w => Outcome(v)' = Outcome(v),
           UNCHANGED seqs, seqs[w] = {}, Views' = Views, UNCHANGED last_sequence,
           last_sequence \in Nat
    PROVE  Abstract!Next
<1>. DEFINE S == {w}
<1>1. /\ S \in SUBSET Calls /\ S # {} /\ \A v \in S : Outcome(v) = "pending"
      /\ last_sequence' >= last_sequence
      /\ \A u, v \in S : u = v
  OBVIOUS
<1>2. \A v \in Calls : EntriesOf(v)' = EntriesOf(v)
  BY DEF EntriesOf
<1>3. CASE Outcome(w)' = "ok"
  <2>1. Outcomes' = [v \in Calls |-> IF v \in S THEN "ok" ELSE Outcome(v)]
    BY <1>3 DEF Outcomes
  <2>2. \A v \in S : EntriesOf(v)' \subseteq (last_sequence + 1)..last_sequence'
    BY DEF EntriesOf
  <2>3. /\ \A u, v \in S : u # v => EntriesOf(u)' \cap EntriesOf(v)' = {}
        /\ \A v \in Calls \ S : EntriesOf(v)' = EntriesOf(v)
    BY <1>1, <1>2, Zenon
  <2>. HIDE DEF S
  <2>. QED
    BY <1>1, <2>1, <2>2, <2>3, CommitStep
<1>4. CASE Outcome(w)' = "error"
  <2>1. Outcomes' = [v \in Calls |-> IF v \in S THEN "error" ELSE Outcome(v)]
    BY <1>4 DEF Outcomes
  <2>2. Entries' = Entries
    BY <1>2 DEF Entries
  <2>. HIDE DEF S
  <2>. QED
    BY <1>1, <2>1, <2>2, FailStep
<1>. QED
  BY <1>3, <1>4

(* A call of Write begins. *)
LEMMA RefineWrite ==
    ASSUME RefInv, RefInv', NEW w \in Calls, NEW b \in Batches, NEW s \in Syncs,
           Write(w, b, s)
    PROVE  Abstract!Next
<1>0. TypeInv /\ QueueInv
  BY RefInvParts
<1>1. Views' = Views /\ UNCHANGED last_sequence
  BY CallViews DEF QuietCall
<1>2. /\ pc[w] = "idle" /\ UNCHANGED <<done, status, seqs>>
      /\ batch' = [batch EXCEPT ![w] = b]
      /\ pc' = [pc EXCEPT ![w] = "room"] \/ pc' = [pc EXCEPT ![w] = "cvwait"]
  BY Zenon DEF Write
<1>3. /\ pc'[w] \in Queued
      /\ \A v \in Calls : v # w => pc'[v] = pc[v] /\ batch'[v] = batch[v]
  BY <1>0, <1>2, CallFacts DEF Queued, Leading
<1>4. Outcome(w) = "none" /\ Outcome(w)' = "pending"
  BY <1>0, <1>2, <1>3, IdleNotDone, QueuedPending
<1>5. \A v \in Calls : v # w => Outcome(v)' = Outcome(v)
  BY <1>0, <1>2, <1>3, OutcomeKept
<1>6. Outcomes' = [Outcomes EXCEPT ![w] = "pending"]
  BY <1>4, <1>5 DEF Outcomes
<1>7. Entries' = Entries
  BY <1>2, <1>4, <1>5 DEF Entries, EntriesOf
<1>. QED
  BY <1>1, <1>4, <1>6, <1>7, BeginStep

(* A waiter of Write wakes up: its outcome is known already, unless it is  *)
(* a null batch that has failed.                                           *)
LEMMA RefineAwake ==
    ASSUME RefInv, RefInv', NEW w \in Calls, AwakeWriter(w)
    PROVE  Abstract!Next \/ UNCHANGED Abstract!vars
<1>0. TypeInv /\ QueueInv /\ SeqsInv
  BY RefInvParts
<1>1. Views' = Views /\ UNCHANGED last_sequence
  BY CallViews DEF QuietCall
<1>2. /\ pc[w] = "cvwake" /\ UNCHANGED <<done, status, seqs, batch>>
      /\ \/ done[w] /\ pc' = [pc EXCEPT ![w] = AfterWrite(w, status[w])]
         \/ ~done[w] /\ pc' = [pc EXCEPT ![w] = "room"]
         \/ ~done[w] /\ pc' = [pc EXCEPT ![w] = "cvwait"]
  BY Zenon DEF AwakeWriter
<1>3. \A v \in Calls : v # w => pc'[v] = pc[v]
  BY <1>0, <1>2, CallFacts
<1>4. \A v \in Calls : v # w => Outcome(v)' = Outcome(v)
  BY <1>0, <1>2, <1>3, OutcomeKept
<1>5. CASE Outcome(w)' = Outcome(w)
  <2>1. \A v \in Calls : Outcome(v)' = Outcome(v)
    BY <1>4, <1>5
  <2>. QED
    BY <1>1, <1>2, <2>1, EntriesKept, StutterStep
<1>6. CASE batch[w] = NullBatch /\ done[w] /\ status[w] = "error"
  <2>1. Outcome(w) = "pending"
    BY <1>2, <1>6, OutcomeCases DEF Decided
  <2>2. pc'[w] = "returned"
    BY <1>0, <1>2, <1>6, CallFacts DEF AfterWrite
  <2>3. Outcome(w)' = "error"
    BY <1>2, <1>6, <2>2, OutcomeCases DEF Decided
  <2>4. seqs[w] = {}
    BY <1>0, <1>6 DEF SeqsInv
  <2>. QED
    BY <1>0, <1>1, <1>2, <1>4, <2>1, <2>3, <2>4, OneDecided, CallFacts
<1>7. CASE ~(batch[w] = NullBatch /\ done[w] /\ status[w] = "error")
  <2>1. Outcome(w)' = Outcome(w)
    <3>1. CASE ~done[w]
      <4>1. pc[w] \in Queued /\ pc'[w] \in Queued
        BY <1>0, <1>2, <3>1, CallFacts DEF Queued, Leading
      <4>. QED
        BY <1>2, <3>1, <4>1, QueuedPending
    <3>2. CASE done[w] /\ batch[w] # NullBatch
      <4>1. pc'[w] = "returned"
        BY <1>0, <1>2, <3>2, CallFacts DEF AfterWrite
      <4>. QED
        BY <1>2, <3>2, <4>1, OutcomeCases DEF Decided
    <3>3. CASE done[w] /\ batch[w] = NullBatch
      <4>1. status[w] = "ok"
        BY <1>0, <1>7, <3>3, CallFacts
      <4>2. pc'[w] = "flushwake"
        BY <1>0, <1>2, <3>3, <4>1, CallFacts DEF AfterWrite
      <4>. QED
        BY <1>2, <3>3, <4>2, OutcomeCases DEF Decided
    <3>. QED
      BY <3>1, <3>2, <3>3
  <2>. QED
    BY <1>5, <2>1
<1>. QED
  BY <1>6, <1>7

(* TEST_CompactMemTable returns. *)
LEMMA RefineAwaitFlush ==
    ASSUME RefInv, RefInv', NEW w \in Calls, AwaitFlush(w)
    PROVE  Abstract!Next \/ UNCHANGED Abstract!vars
<1>0. TypeInv /\ QueueInv /\ SeqsInv /\ status' \in [Calls -> {"ok", "error"}]
  BY RefInvParts DEF RefInv, TypeInv, TypeOK, CallTypes
<1>1. Views' = Views /\ UNCHANGED last_sequence
  BY CallViews DEF QuietCall
<1>2. /\ pc[w] = "flushwake" /\ UNCHANGED <<done, seqs, batch>>
      /\ \/ pc' = [pc EXCEPT ![w] = "flushwait"] /\ UNCHANGED status
         \/ /\ pc' = [pc EXCEPT ![w] = "returned"]
            /\ \E x : status' = [status EXCEPT ![w] = x]
  BY Zenon DEF AwaitFlush
<1>3. \A v \in Calls : v # w => pc'[v] = pc[v] /\ status'[v] = status[v]
  BY <1>0, <1>2, CallFacts
<1>4. \A v \in Calls : v # w => Outcome(v)' = Outcome(v)
  BY <1>0, <1>2, <1>3, OutcomeKept
<1>5. batch[w] = NullBatch /\ seqs[w] = {}
  BY <1>0, <1>2 DEF SeqsInv
<1>6. Outcome(w) = "pending"
  BY <1>2, <1>5, OutcomeCases DEF Decided
<1>7. CASE pc'[w] = "flushwait"
  <2>1. Outcome(w)' = "pending"
    BY <1>2, <1>5, <1>7, OutcomeCases DEF Decided
  <2>2. \A v \in Calls : Outcome(v)' = Outcome(v)
    BY <1>4, <1>6, <2>1
  <2>. QED
    BY <1>1, <1>2, <2>2, EntriesKept, StutterStep
<1>8. CASE pc'[w] = "returned"
  <2>1. Outcome(w)' \in {"ok", "error"}
    BY <1>0, <1>8, OutcomeCases DEF Decided
  <2>. QED
    BY <1>0, <1>1, <1>2, <1>4, <1>5, <1>6, <2>1, OneDecided, CallFacts
<1>. QED
  BY <1>0, <1>2, <1>7, <1>8, CallFacts
(* The leader publishes the group: all its calls that are not null are     *)
(* decided together, with the leader's status.                             *)
LEMMA RefineFinish ==
    ASSUME RefInv, RefInv', NEW w \in Calls, FinishWrite(w)
    PROVE  Abstract!Next \/ UNCHANGED Abstract!vars
<1>. DEFINE n == GroupLength
            InGroup(v) == \E i \in 1..n : writers_info[i] = v
            S == {v \in Calls : InGroup(v) /\ (batch[v] # NullBatch
                                               \/ (v = w /\ status[w] = "error"))}
<1>0. TypeInv /\ CallsInv /\ QueueInv /\ GroupInv /\ PhaseInv /\ SeqsInv /\ QueueInv'
  BY RefInvParts DEF RefInv, CommitInv
<1>1. Finishes(w)
  BY <1>0, FinishFacts
<1>2. /\ n \in Nat \ {0} /\ writers_info[1] = w
      /\ \A i \in 1..n : i \in Places
      /\ (group.n # 0 => n = group.n) /\ (group.n = 0 => n = 1)
  BY <1>0, <1>1, CallFacts DEF Finishes, Places, GroupLength
<1>3. UNCHANGED <<batch, seqs>> /\ pc'[w] = AfterWrite(w, status[w])
  BY <1>1 DEF Finishes
<1>4. \A v \in Calls : InGroup(v) => pc[v] \in Queued /\ ~done[v] /\ Outcome(v) = "pending"
  BY <1>0, <1>2, QueuedPending DEF QueueInv
<1>5. /\ InGroup(w) /\ ~done'[w] /\ status'[w] = status[w]
      /\ \A v \in Calls : v # w /\ InGroup(v) =>
            done'[v] /\ status'[v] = status[w] /\ pc'[v] \in {"cvwait", "cvwake"}
  <2>1. \A i \in 2..n : writers_info[i] # w
    BY <1>0, <1>2 DEF QueueInv
  <2>2. \A v \in Calls : v # w => (InGroup(v) <=> \E i \in 2..n : writers_info[i] = v)
    BY <1>2
  <2>3. InGroup(w)
    BY <1>2
  <2>4. ~done'[w] /\ status'[w] = status[w]
    BY <1>1, <1>4, <2>1, <2>3, Zenon DEF Finishes
  <2>5. \A v \in Calls : v # w /\ InGroup(v) => done'[v] /\ status'[v] = status[w]
    BY <1>1, <2>2 DEF Finishes
  <2>6. \A v \in Calls : v # w /\ InGroup(v) => pc'[v] \in {"cvwait", "cvwake"}
    <3>1. \A v \in Calls : v # w /\ InGroup(v) => pc[v] \notin Leading
      BY <1>0, <1>2 DEF QueueInv
    <3>2. \A v \in Calls : v # w /\ InGroup(v) => pc[v] \in {"cvwait", "cvwake"}
      BY <1>4, <3>1 DEF Queued
    <3>. QED
      BY <1>1, <3>2 DEF Finishes
  <2>. QED
    BY <2>3, <2>4, <2>5, <2>6
<1>6. \A v \in Calls : ~InGroup(v) => Outcome(v)' = Outcome(v)
  <2>. SUFFICES ASSUME NEW v \in Calls, ~InGroup(v) PROVE Outcome(v)' = Outcome(v)
    OBVIOUS
  <2>1. v # w /\ ~\E i \in 2..n : writers_info[i] = v
    BY <1>2, <1>5
  <2>2. done'[v] = done[v] /\ status'[v] = status[v]
    <3>1. (done'[v] <=> done[v]) /\ status'[v] = status[v]
      BY <1>1, <2>1, Zenon DEF Finishes
    <3>2. done'[v] \in BOOLEAN /\ done[v] \in BOOLEAN
      BY DEF RefInv, TypeInv, TypeOK, CallTypes
    <3>. QED
      BY <3>1, <3>2
  <2>3. /\ pc'[v] = "idle" <=> pc[v] = "idle"
        /\ pc'[v] = "returned" <=> pc[v] = "returned"
    BY <1>1, <2>1 DEF Finishes
  <2>. QED
    BY <1>0, <1>3, <2>2, <2>3, OutcomeKept
<1>7. \A v \in Calls : InGroup(v) =>
         Outcome(v)' = IF v \in S THEN status[w] ELSE "pending"
  <2>1. ASSUME NEW v \in Calls, InGroup(v), v # w
        PROVE  Outcome(v)' = IF v \in S THEN status[w] ELSE "pending"
    <3>1. done'[v] /\ status'[v] = status[w] /\ pc'[v] \in {"cvwait", "cvwake"}
      BY <1>5, <2>1
    <3>2. v \in S <=> batch[v] # NullBatch
      BY <2>1
    <3>. HIDE DEF S
    <3>. QED
      BY <1>3, <3>1, <3>2, OutcomeCases DEF Decided
  <2>2. Outcome(w)' = IF w \in S THEN status[w] ELSE "pending"
    <3>1. w \in S <=> batch[w] # NullBatch \/ status[w] = "error"
      BY <1>5
    <3>2. status[w] \in {"ok", "error"}
      BY <1>0, CallFacts
    <3>3. pc'[w] = IF w \in S THEN "returned" ELSE "flushwake"
      BY <1>3, <3>1, <3>2 DEF AfterWrite
    <3>. HIDE DEF S
    <3>. QED
      BY <1>3, <1>5, <3>3, OutcomeCases DEF Decided
  <2>. QED
    BY <2>1, <2>2
<1>8. \A v \in Calls : Outcome(v)' = IF v \in S THEN status[w] ELSE Outcome(v)
  BY <1>4, <1>6, <1>7
<1>9. Outcomes' = [v \in Calls |-> IF v \in S THEN status[w] ELSE Outcome(v)]
  BY <1>8 DEF Outcomes
<1>10. \A v \in Calls \ S : EntriesOf(v)' = EntriesOf(v)
  BY <1>3, <1>8 DEF EntriesOf
<1>11. S \in SUBSET Calls /\ \A v \in S : Outcome(v) = "pending"
  BY <1>4
<1>12. /\ last_sequence' = IF group.n = 0 THEN last_sequence ELSE group.hi
       /\ last_sequence' >= last_sequence
  BY <1>0, <1>1, CallFacts DEF Finishes, GroupInv
<1>13. Views' = Views
  <2>1. UNCHANGED reader
    BY Zenon DEF FinishWrite
  <2>2. Committed' \cap 1..last_sequence = Committed \cap 1..last_sequence
    BY <1>0, CallsFinish, InsertedFresh DEF Commits, FinishesIdly
  <2>. QED
    BY <2>1, <2>2, ViewsKept DEF RefInv, CommitInv
<1>14. status[w] = "ok" /\ S # {} => group.n # 0
  <2>1. group.n = 0 => \A v \in S : v = w
    BY <1>2
  <2>2. group.n = 0 /\ status[w] = "ok" => batch[w] = NullBatch
    BY <1>0, <1>1 DEF Finishes, PhaseInv
  <2>. QED
    BY <2>1, <2>2
<1>15. CASE S = {}
  <2>1. status[w] = "ok" /\ batch[w] = NullBatch
    BY <1>0, <1>5, <1>15, CallFacts
  <2>2. group.n = 0
    BY <1>0, <1>2, <2>1 DEF GroupInv
  <2>3. \A v \in Calls : Outcome(v)' = Outcome(v)
    BY <1>8, <1>15
  <2>. QED
    BY <1>3, <1>12, <1>13, <2>2, <2>3, EntriesKept, StutterStep
<1>16. CASE S # {} /\ status[w] = "error"
  <2>1. \A v \in S : EntriesOf(v)' = {} /\ EntriesOf(v) = {}
    BY <1>8, <1>11, <1>16 DEF EntriesOf
  <2>2. \A v \in Calls : EntriesOf(v)' = EntriesOf(v)
    BY <1>10, <2>1
  <2>3. Entries' = Entries
    BY <2>2 DEF Entries
  <2>. HIDE DEF S
  <2>4. Outcomes' = [v \in Calls |-> IF v \in S THEN "error" ELSE Outcome(v)]
    BY <1>9, <1>16
  <2>. QED
    BY <1>11, <1>12, <1>13, <1>16, <2>3, <2>4, FailStep
<1>17. CASE S # {} /\ status[w] = "ok"
  <2>1. /\ group.n # 0 /\ n = group.n /\ group.lo = last_sequence
        /\ last_sequence' = group.hi
    BY <1>0, <1>2, <1>12, <1>14, <1>17 DEF GroupInv
  <2>2. \A v \in S : EntriesOf(v)' = seqs[v]
    BY <1>3, <1>8, <1>11, <1>17 DEF EntriesOf
  <2>3. \A v \in S : EntriesOf(v)' \subseteq (last_sequence + 1)..last_sequence'
    <3>1. \A i \in 1..n : seqs[writers_info[i]] \subseteq GroupSeqs
      BY <1>0, <2>1 DEF GroupInv, Group
    <3>2. \A v \in S : seqs[v] \subseteq GroupSeqs
      BY <3>1
    <3>. QED
      BY <2>1, <2>2, <3>2 DEF GroupSeqs
  <2>4. \A u, v \in S : u # v => EntriesOf(u)' \cap EntriesOf(v)' = {}
    <3>1. \A i, j \in 1..n : i # j => seqs[writers_info[i]] \cap seqs[writers_info[j]] = {}
      BY <1>0, <2>1 DEF GroupInv, Group
    <3>2. \A u, v \in S : u # v => seqs[u] \cap seqs[v] = {}
      <4>1. \A v \in S : InGroup(v)
        OBVIOUS
      <4>. HIDE DEF S
      <4>. QED
        BY <3>1, <4>1
    <3>. HIDE DEF S
    <3>. QED
      BY <2>2, <3>2
  <2>. HIDE DEF S
  <2>5. Outcomes' = [v \in Calls |-> IF v \in S THEN "ok" ELSE Outcome(v)]
    BY <1>9, <1>17
  <2>. QED
    BY <1>10, <1>11, <1>12, <1>13, <1>17, <2>3, <2>4, <2>5, CommitStep
<1>18. status[w] \in {"ok", "error"}
  BY <1>0, CallFacts
<1>. QED
  BY <1>15, <1>16, <1>17, <1>18

-----------------------------------------------------------------------------
(***************************************************************************)
(* The refinement                                                          *)
(***************************************************************************)

LEMMA InitRefines == Init => Abstract!Init
<1>. SUFFICES ASSUME Init PROVE Abstract!Init
  OBVIOUS
<1>1. \A w \in Calls : pc[w] = "idle" /\ ~done[w]
  BY DEF Init
<1>2. \A w \in Calls : Outcome(w) = "none"
  BY <1>1, OutcomeCases
<1>3. \A r \in Readers : reader[r].pc = "idle"
  BY DEF Init
<1>4. last_sequence = 0
  BY DEF Init
<1>. QED
  BY <1>2, <1>3, <1>4 DEF Abstract!Init

LEMMA NextRefines ==
    ASSUME RefInv, RefInv', [Next]_vars
    PROVE  Abstract!Next \/ UNCHANGED Abstract!vars
<1>1. CASE OtherStep
  BY <1>1, RefineOther
<1>2. ASSUME NEW w \in Calls, QuietCall(w)
      PROVE  Abstract!Next \/ UNCHANGED Abstract!vars
  BY <1>2, RefineWrite, RefineAwake, RefineAwaitFlush, RefineLeader DEF QuietCall
<1>3. ASSUME NEW w \in Calls, AddRecord(w) \/ SyncWal(w) \/ InsertInto(w)
      PROVE  Abstract!Next \/ UNCHANGED Abstract!vars
  BY <1>3, RefineLeader
<1>4. ASSUME NEW w \in Calls, FinishWrite(w)
      PROVE  Abstract!Next \/ UNCHANGED Abstract!vars
  BY <1>4, RefineFinish
<1>. QED
  BY <1>1, <1>2, <1>3, <1>4, NextSplit

(* DBImpl::Write and DBImpl::Get implement the atomic store: batches       *)
(* become visible whole, at one step, with numbers of their own above all  *)
(* earlier ones, a failed one never does, and a Get keeps seeing exactly   *)
(* what was visible when it began, for any callers, readers, limits,       *)
(* failures and interleavings.                                             *)
THEOREM WritePathImplements == Spec => ImplementsAtomicStore
<1>1. Spec => []RefInv
  BY CommitInvariant, PTL DEF RefInv
<1>2. RefInv /\ RefInv' /\ [Next]_vars => [Abstract!Next]_Abstract!vars
  BY NextRefines
<1>. QED
  BY <1>1, <1>2, InitRefines, PTL DEF Spec, ImplementsAtomicStore, Abstract!Spec
=============================================================================
