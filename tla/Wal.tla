-------------------------------- MODULE Wal --------------------------------
(***************************************************************************)
(* The record format of WAL and MANIFEST files: Writer (wal_writer.cc) over *)
(* WritableFile (writeable_file.cc), and the Reader (wal_reader.cc) that    *)
(* DBImpl::RecoverWalFile drives after a crash.                             *)
(*                                                                          *)
(* A file is the sequence of its bytes.  A byte of a physical record knows  *)
(* which record and fragment it belongs to, the type and length in that     *)
(* fragment's header, from where in the record its data was taken, and its  *)
(* own place in it; CRC32C is modelled by what it is for: a header that is  *)
(* not followed by its own data does not check.                             *)
(***************************************************************************)
EXTENDS Integers, SequencesExt

CONSTANTS
    BlockSize,    \* kBlockSize
    HeaderSize,   \* kHeaderSize
    Sizes,        \* the sizes of the records callers add
    MaxRecords,   \* bound on the number of calls of AddRecord
    MaxCrashes,   \* bound on the number of crashes
    WriteFails,   \* whether ::write may fail
    ReuseLogs     \* gDBConfig->reuse_logs

ASSUME WalAssumption ==
    /\ HeaderSize \in Nat \ {0} /\ BlockSize \in Nat /\ BlockSize > HeaderSize
    /\ Sizes \subseteq Nat /\ MaxRecords \in Nat /\ MaxCrashes \in Nat
    /\ WriteFails \in BOOLEAN /\ ReuseLogs \in BOOLEAN

Zero == [id |-> 0, frag |-> 0, type |-> "zero", from |-> 0, len |-> 0, at |-> 0]

VARIABLES
    pc,            \* "idle", "add", "added", "read" or "recovered"
    file,          \* what ::write has handed over
    synced,        \* how much of it fsync has made durable
    block_offset,  \* Writer::block_offset_
    add,           \* AddRecord's locals: bytes left, fragments written, begin
    records,       \* every record added: its size, its outcome ("pending", "ok",
                   \* "failed" or "lost" in a crash) and where it ends in the file
    rd,            \* the Reader and the locals of ReadRecord
    out,           \* the records a recovery has read
    reported,      \* a recovery has called Reporter::Corruption
    crashes

vars == <<pc, file, synced, block_offset, add, records, rd, out, reported, crashes>>
writerVars == <<file, synced, block_offset, add, records>>
readerVars == <<rd, out, reported>>

-----------------------------------------------------------------------------
(***************************************************************************)
(* Writer and WritableFile                                                 *)
(***************************************************************************)

Leftover == BlockSize - block_offset

(* Mutant: a header that exactly fits is put off to the next block, but no *)
(* trailer is written.                                                     *)
Trailer_Skipped == 0

(* The zeros with which AddRecord fills a block that has no room left for a *)
(* header.                                                                  *)
Trailer == IF Leftover < HeaderSize THEN Leftover ELSE 0

(* Where the next fragment starts in its block. *)
FragmentOffset == IF Leftover < HeaderSize THEN 0 ELSE block_offset

FragmentLength ==
    LET avail == BlockSize - FragmentOffset - HeaderSize
    IN  IF add.left < avail THEN add.left ELSE avail

FragmentType ==
    LET end == add.left = FragmentLength
    IN  IF add.frags = 0 THEN (IF end THEN "full" ELSE "first")
                         ELSE (IF end THEN "last" ELSE "middle")

(* The bytes AddRecord's loop body hands to WritableFile: they all fit its  *)
(* buffer, so that one Flush writes them.                                   *)
FragmentBytes ==
    [i \in 1..Trailer |-> Zero] \o
    [i \in 1..(HeaderSize + FragmentLength) |->
        [id |-> Len(records), frag |-> add.frags + 1, type |-> FragmentType,
         from |-> Last(records).size - add.left, len |-> FragmentLength, at |-> i]]

(* A caller passes a record of size n to AddRecord. *)
AddRecord(n) ==
    /\ pc \in {"idle", "added"} /\ Len(records) < MaxRecords
    /\ pc' = "add"
    /\ add' = [left |-> n, frags |-> 0]
    /\ records' = Append(records, [size |-> n, status |-> "pending", end |-> 0])
    /\ UNCHANGED <<file, synced, block_offset, readerVars, crashes>>

(* AddRecord returns to its caller. *)
Returns(status) ==
    /\ pc' = IF status = "ok" THEN "added" ELSE "idle"
    /\ records' = [records EXCEPT ![Len(records)].status = status,
                                  ![Len(records)].end = Len(file')]

(* What the file may hold when a ::write of bytes has failed. *)
WriteUnbuffered(bytes) == {file \o SubSeq(bytes, 1, n) : n \in 0..(Len(bytes) - 1)}

(* One turn of AddRecord's loop: EmitPhysicalRecord and its Flush.  A       *)
(* ::write that fails has written some of the bytes and the buffer is       *)
(* dropped; block_offset_ moves on as if all had been written.              *)
EmitPhysicalRecord ==
    /\ pc = "add"
    /\ block_offset' = FragmentOffset + HeaderSize + FragmentLength
    /\ add' = [left |-> add.left - FragmentLength, frags |-> add.frags + 1]
    /\ \/ /\ file' = file \o FragmentBytes
          /\ IF add.left > FragmentLength THEN UNCHANGED <<pc, records>> ELSE Returns("ok")
       \/ /\ WriteFails
          /\ file' \in WriteUnbuffered(FragmentBytes)
          /\ Returns("failed")
    /\ UNCHANGED <<synced, readerVars, crashes>>

(* WritableFile::Sync, which a caller may ask for once AddRecord has       *)
(* returned OK; an fsync that fails has promised nothing.                  *)
Sync ==
    /\ pc = "added"
    /\ pc' = "idle"
    /\ synced' = Len(file)
    /\ UNCHANGED <<file, block_offset, add, records, readerVars, crashes>>

-----------------------------------------------------------------------------
(***************************************************************************)
(* Reader.  rd.pos and rd.end delimit buffer_ in the file.                 *)
(***************************************************************************)

NoRecord == [left |-> 0, frags |-> 0]
NewReader == [pos |-> 0, end |-> 0, eof |-> FALSE, scratch |-> <<>>, inFragment |-> FALSE]

(* The process dies, or the machine does: what was not synced may be lost  *)
(* from the end of the file.  DB::Open then reads the file.                *)
Crash ==
    /\ pc \in {"idle", "add", "added"} /\ crashes < MaxCrashes
    /\ \E n \in synced..Len(file) :
        /\ file' = SubSeq(file, 1, n)
        /\ records' = [i \in 1..Len(records) |->
              IF records[i].status = "pending" \/ records[i].end > n
              THEN [records[i] EXCEPT !.status = "lost"]
              ELSE records[i]]
    /\ pc' = "read" /\ rd' = NewReader /\ out' = <<>> /\ reported' = FALSE
    /\ block_offset' = 0 /\ add' = NoRecord
    /\ crashes' = crashes + 1
    /\ UNCHANGED synced

BufferSize == rd.end - rd.pos

(* file_->Read(kBlockSize): the next block, or what there is of it. *)
ReadBlock ==
    /\ pc = "read" /\ BufferSize < HeaderSize /\ ~rd.eof
    /\ LET n == IF Len(file) - rd.end < BlockSize THEN Len(file) - rd.end ELSE BlockSize
       IN  rd' = [rd EXCEPT !.pos = rd.end, !.end = rd.end + n, !.eof = n < BlockSize]
    /\ UNCHANGED <<pc, writerVars, out, reported, crashes>>

(* The bytes at the start of buffer_ are the header of one fragment. *)
Header == file[rd.pos + 1]
IntactHeader ==
    /\ Header.type # "zero"
    /\ \A i \in 1..HeaderSize : file[rd.pos + i] = [Header EXCEPT !.at = i]

(* Mutant: a record cut off by the end of the file counts as corrupted. *)
AtEof_Never == FALSE

AtEof == rd.eof

(* What ReadPhysicalRecord makes of the start of buffer_: a type, or        *)
(* kEof or kBadRecord; whether it reports a corruption.  What a header made *)
(* of other bytes says is arbitrary, except that its CRC does not match.    *)
PhysicalRecords ==
    IF IntactHeader
    THEN IF HeaderSize + Header.len > BufferSize
         THEN IF AtEof THEN {<<"eof", FALSE>>} ELSE {<<"bad", TRUE>>}
         ELSE IF \A i \in 1..(HeaderSize + Header.len) :
                    file[rd.pos + i] = [Header EXCEPT !.at = i]
              THEN {<<Header.type, FALSE>>}
              ELSE {<<"bad", TRUE>>}
    ELSE {<<"bad", TRUE>>, <<"bad", FALSE>>} \cup
         (IF rd.eof THEN {<<"eof", FALSE>>} ELSE {})

Fragment == [id |-> Header.id, frag |-> Header.frag, from |-> Header.from, len |-> Header.len]

(* scratch->size() > 0 *)
HasData(fragments) == \E i \in DOMAIN fragments : fragments[i].len > 0

(* Mutant: a bad record leaves buffer_ as it is. *)
DropBuffer_Kept == rd.pos

(* buffer_ = {} *)
DropBuffer == rd.end

(* Mutant: a first fragment is added to what has been put together so far. *)
StartScratch_Kept == Append(rd.scratch, Fragment)

(* scratch->assign(fragment) *)
StartScratch == <<Fragment>>

(* The switch of ReadRecord, for a physical record that is not kEof. *)
Assemble(type) ==
    LET rest == [rd EXCEPT !.pos = @ + HeaderSize + Header.len]
        over == [rest EXCEPT !.scratch = <<>>, !.inFragment = FALSE]
    IN  CASE type = "full"   -> rd' = over /\ out' = Append(out, <<Fragment>>)
          [] type = "first"  -> /\ rd' = [rest EXCEPT !.scratch = StartScratch,
                                                      !.inFragment = TRUE]
                                /\ UNCHANGED out
          [] type = "middle" -> /\ rd' = IF rd.inFragment
                                         THEN [rest EXCEPT !.scratch = Append(@, Fragment)]
                                         ELSE rest
                                /\ UNCHANGED out
          [] type = "last"   -> /\ rd' = over
                                /\ out' = IF rd.inFragment
                                          THEN Append(out, Append(rd.scratch, Fragment))
                                          ELSE out
          [] OTHER           -> /\ rd' = [rd EXCEPT !.pos = DropBuffer, !.scratch = <<>>,
                                                    !.inFragment = FALSE]
                                /\ UNCHANGED out

(* Whether ReadRecord itself reports what it drops. *)
AssemblyReports(type) ==
    \/ type \in {"full", "first"} /\ rd.inFragment /\ HasData(rd.scratch)
    \/ type \in {"middle", "last"} /\ ~rd.inFragment
    \/ type = "bad" /\ rd.inFragment

(* One turn of ReadRecord's loop. *)
ReadRecord ==
    /\ pc = "read" /\ BufferSize >= HeaderSize
    /\ \E p \in PhysicalRecords :
        /\ p[1] # "eof"
        /\ Assemble(p[1])
        /\ reported' = (reported \/ p[2] \/ AssemblyReports(p[1]))
    /\ UNCHANGED <<pc, writerVars, crashes>>

(* ReadRecord returns false: RecoverWalFile has replayed the file. *)
ReadEof ==
    /\ pc = "read"
    /\ \/ BufferSize < HeaderSize /\ rd.eof
       \/ BufferSize >= HeaderSize /\ \E p \in PhysicalRecords : p[1] = "eof"
    /\ pc' = "recovered"
    /\ rd' = NewReader
    /\ UNCHANGED <<writerVars, out, reported, crashes>>

(* With reuse_logs a new Writer goes on at the end of the file. *)
ReuseLog ==
    /\ pc = "recovered" /\ ReuseLogs
    /\ pc' = "idle"
    /\ block_offset' = Len(file) % BlockSize
    /\ UNCHANGED <<file, synced, add, records, readerVars, crashes>>

-----------------------------------------------------------------------------
Init ==
    /\ pc = "idle" /\ file = <<>> /\ synced = 0 /\ block_offset = 0
    /\ add = NoRecord /\ records = <<>>
    /\ rd = NewReader /\ out = <<>> /\ reported = FALSE /\ crashes = 0

Next ==
    \/ \E n \in Sizes : AddRecord(n)
    \/ EmitPhysicalRecord \/ Sync
    \/ Crash \/ ReadBlock \/ ReadRecord \/ ReadEof \/ ReuseLog

Spec == Init /\ [][Next]_vars
FairSpec == Spec /\ WF_vars(ReadBlock \/ ReadRecord \/ ReadEof)

-----------------------------------------------------------------------------
(***************************************************************************)
(* Properties                                                              *)
(***************************************************************************)

(* r is the record its first fragment belongs to: its fragments in order,  *)
(* and their data from its first byte to its last without a gap.            *)
Whole(r) ==
    /\ r # <<>>
    /\ \A i \in 1..Len(r) : r[i].id = r[1].id /\ r[i].frag = i
    /\ r[1].from = 0
    /\ \A i \in 2..Len(r) : r[i].from = r[i - 1].from + r[i - 1].len
    /\ Last(r).from + Last(r).len = records[r[1].id].size

(* Whatever failed, a recovery never returns a record that was not added as *)
(* a whole, none twice and none out of order: fragments of different        *)
(* records are never put together.                                          *)
NoPhantomRecords ==
    /\ \A i \in 1..Len(out) : Whole(out[i])
    /\ \A i, j \in 1..Len(out) : i < j => out[i][1].id < out[j][1].id

Read == {out[i][1].id : i \in 1..Len(out)}

(* A recovery returns every acknowledged record that no crash has cut off  *)
(* the file, if nothing before it failed or was cut off.                   *)
ReadBack ==
    pc = "recovered" =>
        \A i \in 1..Len(records) :
            (\A j \in 1..i : records[j].status = "ok") => i \in Read

(* A crash is not a corruption: unless an append had failed, the first     *)
(* recovery reports nothing, so that paranoid_checks does not refuse it.   *)
NoFalseAlarm ==
    (crashes = 1 /\ \A i \in 1..Len(records) : records[i].status # "failed") => ~reported

(* A recovery comes to the end of every file. *)
RecoveryEnds == pc = "read" ~> pc = "recovered"
=============================================================================
