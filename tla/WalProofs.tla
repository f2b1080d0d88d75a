----------------------------- MODULE WalProofs ------------------------------
(***************************************************************************)
(* Proofs about Wal, for any sizes of blocks, headers and records, any      *)
(* number of records and crashes.                                           *)
(***************************************************************************)
EXTENDS Wal, TLAPS

-----------------------------------------------------------------------------
(***************************************************************************)
(* What the writer leaves in the file                                      *)
(***************************************************************************)
Byte == [id : Nat, frag : Nat, type : {"zero", "full", "first", "middle", "last"},
         from : Nat, len : Nat, at : Nat]
Status == {"pending", "ok", "failed", "lost"}
Record == [size : Nat, status : Status, end : Nat]

IsData(b) == b.type # "zero"
Size(b) == HeaderSize + b.len

(* b is the last byte of its fragment, which another fragment follows, or   *)
(* with which the record ends.                                              *)
Ends(b) == IsData(b) /\ b.at = Size(b)
GoesOn(b) == b.type \in {"first", "middle"}
Completes(b) == b.type \in {"full", "last"}

(* There are only zeros in f from position i on up to j. *)
Zeros(f, i, j) == \A p \in i..j : ~IsData(f[p])

(* What comes before byte q of f: the fragment it belongs to; before a      *)
(* first fragment only older records; before any other one the whole        *)
(* fragment that it continues.                                              *)
Begins(f, q) ==
    /\ f[q].at \in 1..Size(f[q]) /\ f[q].at <= q
    /\ \A k \in 0..(f[q].at - 1) : f[q - k] = [f[q] EXCEPT !.at = @ - k]
StartsRecord(f, q) ==
    /\ f[q].frag = 1 /\ f[q].from = 0
    /\ \A p \in 1..(q - f[q].at) : IsData(f[p]) => f[p].id < f[q].id
Continues(b, c) ==
    /\ Ends(b) /\ GoesOn(b) /\ c.id = b.id
    /\ c.frag = b.frag + 1 /\ c.from = b.from + b.len
ContinuesRecord(f, q) ==
    \E p \in 1..(q - f[q].at) : Continues(f[p], f[q]) /\ Zeros(f, p + 1, q - f[q].at)

Chained(f, rs, q) ==
    IsData(f[q]) =>
        /\ f[q].id \in 1..Len(rs)
        /\ Begins(f, q)
        /\ IF f[q].type \in {"full", "first"}
           THEN StartsRecord(f, q) ELSE ContinuesRecord(f, q)
        /\ Completes(f[q]) => f[q].from + f[q].len = rs[f[q].id].size

FileInv ==
    /\ file \in Seq(Byte) /\ records \in Seq(Record) /\ synced \in 0..Len(file)
    /\ \A q \in 1..Len(file) : Chained(file, records, q)

(* The record under way. *)
AddInv ==
    /\ block_offset \in 0..BlockSize
    /\ pc = "add" =>
        /\ records # <<>> /\ add.left \in 0..Last(records).size /\ add.frags \in Nat
        /\ IF add.frags = 0
           THEN /\ add.left = Last(records).size
                /\ \A q \in 1..Len(file) : IsData(file[q]) => file[q].id < Len(records)
           ELSE /\ file # <<>> /\ Ends(Last(file)) /\ GoesOn(Last(file))
                /\ Last(file).id = Len(records) /\ Last(file).frag = add.frags
                /\ Last(file).from + Last(file).len = Last(records).size - add.left

(***************************************************************************)
(* What the reader has put together                                        *)
(***************************************************************************)
(* s is the beginning of a record.                                         *)
Contiguous(s) ==
    /\ s # <<>>
    /\ \A i \in 1..Len(s) : s[i].id = s[1].id /\ s[i].frag = i
    /\ s[1].from = 0
    /\ \A i \in 2..Len(s) : s[i].from = s[i - 1].from + s[i - 1].len
Fragments == [id : Nat, frag : Nat, from : Nat, len : Nat]
FragmentOf(b) == [id |-> b.id, frag |-> b.frag, from |-> b.from, len |-> b.len]

OutInv ==
    /\ out \in Seq(Seq(Fragments))
    /\ \A i \in 1..Len(out) : Whole(out[i]) /\ out[i][1].id \in 1..Len(records)
    /\ \A i, j \in 1..Len(out) : i < j => out[i][1].id < out[j][1].id

(* The last fragment of scratch_ ends at rd.pos, but for a trailer that was *)
(* dropped with its block.                                                  *)
ScratchInv ==
    rd.inFragment =>
        /\ rd.scratch \in Seq(Fragments) /\ Contiguous(rd.scratch)
        /\ rd.scratch[1].id \in 1..Len(records)
        /\ \A i \in 1..Len(out) : out[i][1].id < rd.scratch[1].id
        /\ \E e \in 1..rd.pos :
              /\ Ends(file[e]) /\ FragmentOf(file[e]) = Last(rd.scratch)
              /\ e # rd.pos => rd.pos < e + HeaderSize /\ (BufferSize >= HeaderSize \/ rd.eof)

Reader == [pos : Nat, end : Nat, eof : BOOLEAN, scratch : Seq(Fragments), inFragment : BOOLEAN]
ReadInv ==
    /\ rd \in Reader
    /\ pc = "read" =>
        /\ rd.pos \in 0..rd.end /\ rd.end \in 0..Len(file)
        /\ \A i \in 1..Len(out) : \E p \in 1..rd.pos : IsData(file[p]) /\ file[p].id = out[i][1].id
        /\ ScratchInv

PCs == {"idle", "add", "added", "read", "recovered"}
PhantomInv == pc \in PCs /\ FileInv /\ AddInv /\ OutInv /\ ReadInv

-----------------------------------------------------------------------------
(***************************************************************************)
(* A file without failures                                                 *)
(***************************************************************************)
Aligned(n) == \E k \in Nat : n = k * BlockSize

(* Up to n, the file f is what AddRecord writes: zeros fill a block, the    *)
(* fragments lie within their blocks, and each follows what it continues.   *)
Boundary(f, n) == n = 0 \/ ~IsData(f[n]) \/ Ends(f[n])
Dangling(f, n) == \E p \in 1..n : GoesOn(f[p]) /\ Zeros(f, p + 1, n)
CleanZero(f, n, q) ==
    \E a \in q..(q + HeaderSize - 2) : Aligned(a) /\ \A p \in q..a : p <= n => ~IsData(f[p])
CleanHead(f, n, q) ==
    /\ \E a \in 0..(q - 1) : Aligned(a) /\ q - 1 + Size(f[q]) <= a + BlockSize
    /\ \A i \in 1..Size(f[q]) : q + i - 1 <= n => f[q + i - 1] = [f[q] EXCEPT !.at = i]
    /\ f[q].type \in {"full", "first"} => ~Dangling(f, q - 1)
Clean(f, n) ==
    /\ n <= Len(f)
    /\ \A q \in 1..n :
          /\ ~IsData(f[q]) => CleanZero(f, n, q)
          /\ IsData(f[q]) /\ f[q].at = 1 => CleanHead(f, n, q) /\ Boundary(f, q - 1)

Good(i) == \A j \in 1..i : records[j].status = "ok"
Sound == \A j \in 1..Len(records) : records[j].status \in {"ok", "pending"}
Writing == pc \in {"idle", "add", "added"}

GoodInv ==
    \A i \in 1..Len(records) :
      /\ records[i].status \in {"ok", "failed"} => records[i].end <= Len(file)
      /\ Good(i) =>
        /\ records[i].end \in 1..Len(file) /\ Clean(file, records[i].end)
        /\ Ends(file[records[i].end]) /\ Completes(file[records[i].end])
        /\ file[records[i].end].id = i

SoundInv ==
    /\ \A i \in 1..Len(records) : records[i].status = "pending" => pc = "add" /\ i = Len(records)
    /\ pc = "add" => Last(records).status = "pending"
    /\ Sound => /\ Clean(file, Len(file))
                /\ file # <<>> => Ends(Last(file))
                /\ ~(pc = "add" /\ add.frags > 0) => ~Dangling(file, Len(file))
                /\ Writing => \E a \in 0..Len(file) : Aligned(a) /\ Len(file) = a + block_offset
                /\ pc # "add" => Len(file) = IF records = <<>> THEN 0 ELSE Last(records).end
NoFailure == \A i \in 1..Len(records) : records[i].status # "failed"
CrashInv ==
    /\ crashes \in Nat
    /\ crashes = 0 => /\ Writing /\ ~reported
                      /\ \A i \in 1..Len(records) : records[i].status # "lost"
                      /\ \A n \in 0..Len(file) :
                            (\A i \in 1..Len(records) : records[i].status = "failed" => n < records[i].end)
                                => Clean(file, n)
    /\ pc = "read" /\ crashes = 1 /\ NoFailure => Clean(file, Len(file))

WindowInv ==
    pc = "read" =>
        /\ rd.eof \in BOOLEAN
        /\ ~rd.eof => Aligned(rd.end)
        /\ rd.eof => rd.end = Len(file)
        /\ \E a \in 0..rd.pos : Aligned(a) /\ rd.end <= a + BlockSize
                                /\ (rd.end = a + BlockSize \/ rd.eof \/ rd.pos = rd.end)

ReadUpTo(c) ==
    /\ rd.pos <= c => Boundary(file, rd.pos) /\ (rd.inFragment <=> Dangling(file, rd.pos))
    /\ \A p \in 1..c : p <= rd.pos /\ Ends(file[p]) /\ Completes(file[p]) => file[p].id \in Read
ProgressInv ==
    pc = "read" => /\ \A c \in 1..Len(file) : Clean(file, c) => ReadUpTo(c)
                   /\ rd.inFragment \in BOOLEAN

WalInv == PhantomInv /\ GoodInv /\ SoundInv /\ CrashInv /\ WindowInv /\ ProgressInv
           /\ NoFalseAlarm /\ ReadBack

-----------------------------------------------------------------------------
(***************************************************************************)
(* Blocks                                                                  *)
(***************************************************************************)
LEMMA AlignedZero == Aligned(0)
<1>1. 0 = 0 * BlockSize
  BY WalAssumption
<1>. QED BY <1>1 DEF Aligned

LEMMA AlignedNext ==
    ASSUME NEW a \in Nat, Aligned(a)
    PROVE  Aligned(a + BlockSize)
<1>1. PICK k \in Nat : a = k * BlockSize
  BY DEF Aligned
<1>2. a + BlockSize = (k + 1) * BlockSize
  BY <1>1, WalAssumption
<1>. QED BY <1>2 DEF Aligned

(* There is a block between two block boundaries. *)
LEMMA AlignedGap ==
    ASSUME NEW a \in Nat, NEW b \in Nat, Aligned(a), Aligned(b), a < b
    PROVE  a + BlockSize <= b
<1>1. PICK k \in Nat : a = k * BlockSize
  BY DEF Aligned
<1>2. PICK l \in Nat : b = l * BlockSize
  BY DEF Aligned
<1>3. k < l
  <2>1. ASSUME l <= k PROVE FALSE
    <3>1. PICK d \in Nat : k = l + d
      <4>1. k - l \in Nat /\ k = l + (k - l)
        BY <2>1
      <4>. QED BY <4>1
    <3>2. k * BlockSize = l * BlockSize + d * BlockSize /\ d * BlockSize >= 0
      BY <3>1, WalAssumption
    <3>. QED BY <3>2, <1>1, <1>2, WalAssumption
  <2>. QED BY <2>1
<1>4. PICK d \in Nat : l = k + 1 + d
  <2>1. l - k - 1 \in Nat /\ l = k + 1 + (l - k - 1)
    BY <1>3
  <2>. QED BY <2>1
<1>5. l * BlockSize = k * BlockSize + BlockSize + d * BlockSize /\ d * BlockSize >= 0
  BY <1>4, WalAssumption
<1>. QED BY <1>1, <1>2, <1>5, WalAssumption

LEMMA AlignedPart ==
    ASSUME NEW n \in Nat
    PROVE  /\ n % BlockSize \in 0..BlockSize
           /\ \E a \in 0..n : Aligned(a) /\ n = a + (n % BlockSize)
<1>0. BlockSize \in Nat /\ BlockSize > 0
  BY WalAssumption
<1>1. /\ n = BlockSize * (n \div BlockSize) + (n % BlockSize)
      /\ n % BlockSize \in 0..(BlockSize - 1) /\ n \div BlockSize \in Nat
  BY <1>0
<1>2. Aligned(BlockSize * (n \div BlockSize)) /\ BlockSize * (n \div BlockSize) \in Nat
  BY <1>0, <1>1 DEF Aligned
<1>. QED BY <1>0, <1>1, <1>2

-----------------------------------------------------------------------------
(***************************************************************************)
(* Files                                                                   *)
(***************************************************************************)
LEMMA Sizes1 ==
    /\ HeaderSize \in Nat /\ HeaderSize > 0 /\ BlockSize \in Nat /\ BlockSize > HeaderSize
    /\ \A b \in Byte : b.len \in Nat /\ b.at \in Nat /\ b.id \in Nat /\ Size(b) \in Nat /\ Size(b) >= HeaderSize
<1>1. \A b \in Byte : b.len \in Nat /\ b.at \in Nat /\ b.id \in Nat
  BY DEF Byte
<1>. QED BY <1>1, WalAssumption DEF Size

LEMMA Prefix ==
    ASSUME NEW S, NEW f \in Seq(S), NEW n \in 0..Len(f)
    PROVE  /\ SubSeq(f, 1, n) \in Seq(S) /\ Len(SubSeq(f, 1, n)) = n
           /\ \A q \in 1..n : SubSeq(f, 1, n)[q] = f[q]
OBVIOUS

LEMMA Concat ==
    ASSUME NEW S, NEW f \in Seq(S), NEW g \in Seq(S)
    PROVE  /\ f \o g \in Seq(S) /\ Len(f \o g) = Len(f) + Len(g)
           /\ \A q \in 1..Len(f) : (f \o g)[q] = f[q]
           /\ \A q \in 1..Len(g) : (f \o g)[Len(f) + q] = g[q]
OBVIOUS

LEMMA Replace ==
    ASSUME NEW S, NEW f \in Seq(S), NEW k \in 1..Len(f), NEW v \in S
    PROVE  /\ [f EXCEPT ![k] = v] \in Seq(S) /\ Len([f EXCEPT ![k] = v]) = Len(f)
           /\ \A i \in 1..Len(f) : [f EXCEPT ![k] = v][i] = IF i = k THEN v ELSE f[i]
OBVIOUS

(* Byte q is chained to the bytes before it, whatever follows. *)
LEMMA ChainedSame ==
    ASSUME NEW f \in Seq(Byte), NEW g \in Seq(Byte), NEW q \in Nat,
           \A p \in 1..q : f[p] = g[p], q <= Len(f), q <= Len(g), q >= 1,
           NEW rs, NEW ss, Len(rs) \in Nat, Len(ss) \in Nat, Len(rs) <= Len(ss),
           \A i \in 1..Len(rs) : ss[i].size = rs[i].size,
           Chained(f, rs, q)
    PROVE  Chained(g, ss, q)
<1>. SUFFICES ASSUME IsData(g[q]) PROVE Chained(g, ss, q)
  BY DEF Chained
<1>0. f[q] = g[q] /\ f[q] \in Byte /\ IsData(f[q])
  OBVIOUS
<1>1. Begins(f, q) /\ f[q].id \in 1..Len(rs)
  BY <1>0 DEF Chained
<1>2. f[q].at \in Nat /\ f[q].at >= 1 /\ f[q].at <= q
  <2>1. f[q].at \in Nat /\ Size(f[q]) \in Nat
    BY <1>0, Sizes1
  <2>2. f[q].at \in 1..Size(f[q]) /\ f[q].at <= q
    BY <1>1 DEF Begins
  <2>. QED BY ONLY <2>1, <2>2
<1>3. Begins(g, q)
  <2>1. ASSUME NEW k \in 0..(f[q].at - 1) PROVE f[q - k] = g[q - k]
    <3>1. q - k \in 1..q
      BY ONLY <1>2, q \in Nat, k \in 0..(f[q].at - 1)
    <3>. QED BY <3>1
  <2>. QED BY <1>0, <1>1, <2>1 DEF Begins
<1>4. StartsRecord(f, q) => StartsRecord(g, q)
  BY <1>0, <1>2 DEF StartsRecord
<1>5. ContinuesRecord(f, q) => ContinuesRecord(g, q)
  <2>. SUFFICES ASSUME ContinuesRecord(f, q) PROVE ContinuesRecord(g, q)
    OBVIOUS
  <2>1. PICK p \in 1..(q - f[q].at) : Continues(f[p], f[q]) /\ Zeros(f, p + 1, q - f[q].at)
    BY DEF ContinuesRecord
  <2>2. f[p] = g[p] /\ Zeros(g, p + 1, q - g[q].at)
    BY <1>0, <1>2, <2>1 DEF Zeros
  <2>. QED BY <1>0, <2>1, <2>2 DEF ContinuesRecord
<1>6. g[q].id \in 1..Len(ss) /\ ss[g[q].id].size = rs[g[q].id].size
  BY <1>0, <1>1
<1>. QED BY <1>0, <1>3, <1>4, <1>5, <1>6 DEF Chained

(* What is clean stays clean when something follows or is cut off. *)
LEMMA DanglingSame ==
    ASSUME NEW f, NEW g, NEW n \in Nat, \A p \in 1..n : f[p] = g[p]
    PROVE  Dangling(f, n) <=> Dangling(g, n)
BY DEF Dangling, Zeros

LEMMA CleanPrefix ==
    ASSUME NEW f \in Seq(Byte), NEW g \in Seq(Byte), NEW n \in 0..Len(f), NEW m \in 0..n,
           m <= Len(g), \A p \in 1..m : f[p] = g[p], Clean(f, n)
    PROVE  Clean(g, m)
<1>. SUFFICES ASSUME NEW q \in 1..m
     PROVE  /\ ~IsData(g[q]) => CleanZero(g, m, q)
            /\ IsData(g[q]) /\ g[q].at = 1 => CleanHead(g, m, q) /\ Boundary(g, q - 1)
  BY DEF Clean
<1>0. /\ q \in 1..n /\ g[q] = f[q] /\ f[q] \in Byte /\ q - 1 \in Nat
      /\ q - 1 <= m /\ \A p \in 1..(q - 1) : f[p] = g[p]
  OBVIOUS
<1>1. ASSUME ~IsData(g[q]) PROVE CleanZero(g, m, q)
  <2>1. CleanZero(f, n, q)
    BY <1>0, <1>1 DEF Clean
  <2>2. PICK a \in q..(q + HeaderSize - 2) : Aligned(a) /\ \A p \in q..a : p <= n => ~IsData(f[p])
    BY <2>1 DEF CleanZero
  <2>3. \A p \in q..a : p <= m => ~IsData(g[p])
    <3>. SUFFICES ASSUME NEW p \in q..a, p <= m PROVE ~IsData(g[p])
      OBVIOUS
    <3>1. p \in 1..m /\ p <= n
      BY Sizes1
    <3>. QED BY <3>1, <2>2
  <2>. QED BY <1>0, <2>1, <2>2, <2>3 DEF CleanZero
<1>2. ASSUME IsData(g[q]), g[q].at = 1 PROVE CleanHead(g, m, q) /\ Boundary(g, q - 1)
  <2>1. CleanHead(f, n, q) /\ Boundary(f, q - 1)
    BY <1>0, <1>2 DEF Clean
  <2>2. \A i \in 1..Size(g[q]) : q + i - 1 <= m => g[q + i - 1] = [g[q] EXCEPT !.at = i]
    <3>. SUFFICES ASSUME NEW i \in 1..Size(g[q]), q + i - 1 <= m
         PROVE  g[q + i - 1] = [g[q] EXCEPT !.at = i]
      OBVIOUS
    <3>1. q + i - 1 \in 1..m /\ q + i - 1 <= n
      <4>1. i \in Nat /\ i >= 1 /\ m \in Nat /\ n \in Nat /\ m <= n
        BY Sizes1, <1>0
      <4>. QED BY ONLY <4>1, q \in 1..m, q + i - 1 <= m
    <3>2. f[q + i - 1] = [f[q] EXCEPT !.at = i]
      BY <1>0, <2>1, <3>1 DEF CleanHead
    <3>. QED BY <1>0, <3>1, <3>2
  <2>3. Dangling(f, q - 1) <=> Dangling(g, q - 1)
    BY <1>0, DanglingSame
  <2>4. CleanHead(g, m, q)
    BY <1>0, <2>1, <2>2, <2>3 DEF CleanHead
  <2>5. Boundary(g, q - 1)
    BY <1>0, <2>1 DEF Boundary
  <2>. QED BY <2>4, <2>5
<1>. QED BY <1>1, <1>2

-----------------------------------------------------------------------------
(***************************************************************************)
(* What a turn of AddRecord's loop writes                                  *)
(***************************************************************************)
NewByte(i) ==
    [id |-> Len(records), frag |-> add.frags + 1, type |-> FragmentType,
     from |-> Last(records).size - add.left, len |-> FragmentLength, at |-> i]

LEMMA NewBytes ==
    ASSUME PhantomInv, pc = "add"
    PROVE  /\ Len(records) \in Nat /\ Len(records) >= 1 /\ Last(records) \in Record
           /\ Last(records) = records[Len(records)]
           /\ add.left \in 0..Last(records).size /\ add.frags \in Nat
           /\ Trailer \in Nat /\ Trailer < HeaderSize
           /\ Trailer = IF Leftover < HeaderSize THEN Leftover ELSE 0
           /\ FragmentOffset = IF Leftover < HeaderSize THEN 0 ELSE block_offset
           /\ FragmentLength \in 0..add.left
           /\ FragmentOffset + HeaderSize + FragmentLength \in 0..BlockSize
           /\ FragmentBytes \in Seq(Byte)
           /\ Len(FragmentBytes) = Trailer + HeaderSize + FragmentLength
           /\ \A i \in 1..Trailer : FragmentBytes[i] = Zero
           /\ \A i \in 1..(HeaderSize + FragmentLength) : FragmentBytes[Trailer + i] = NewByte(i)
           /\ \A i \in Nat : NewByte(i) \in Byte
           /\ FragmentType \in {"full", "last"} <=> FragmentLength = add.left
           /\ FragmentType \in {"full", "first"} <=> add.frags = 0
           /\ FragmentType \in {"full", "first", "middle", "last"}
<1>1. /\ records \in Seq(Record) /\ records # <<>> /\ add.left \in 0..Last(records).size
      /\ add.frags \in Nat /\ block_offset \in 0..BlockSize
  BY DEF PhantomInv, FileInv, AddInv
<1>2. Len(records) \in Nat /\ Len(records) >= 1 /\ Last(records) = records[Len(records)]
  BY <1>1 DEF Last
<1>3. Last(records) \in Record /\ Last(records).size \in Nat
  <2>1. Last(records) \in Record
    BY <1>1, <1>2
  <2>. QED BY <2>1 DEF Record
<1>4. /\ Trailer \in Nat /\ Trailer < HeaderSize
      /\ Trailer = IF Leftover < HeaderSize THEN Leftover ELSE 0
      /\ FragmentOffset = IF Leftover < HeaderSize THEN 0 ELSE block_offset
      /\ FragmentOffset \in 0..(BlockSize - HeaderSize)
  BY <1>1, Sizes1 DEF Trailer, Leftover, FragmentOffset
<1>5. /\ FragmentLength \in 0..add.left
      /\ FragmentOffset + HeaderSize + FragmentLength \in 0..BlockSize
  BY <1>1, <1>3, <1>4, Sizes1 DEF FragmentLength
<1>6. /\ FragmentType \in {"full", "last"} <=> FragmentLength = add.left
      /\ FragmentType \in {"full", "first"} <=> add.frags = 0
      /\ FragmentType \in {"full", "first", "middle", "last"}
  BY DEF FragmentType
<1>7. ASSUME NEW i \in Nat PROVE NewByte(i) \in Byte
  <2>1. Last(records).size - add.left \in Nat /\ FragmentLength \in Nat /\ add.frags + 1 \in Nat
    BY <1>1, <1>3, <1>5
  <2>. QED BY <2>1, <1>2, <1>6 DEF NewByte, Byte
<1>8. Zero \in Byte
  BY DEF Zero, Byte
<1>. DEFINE head == [i \in 1..Trailer |-> Zero]
            body == [i \in 1..(HeaderSize + FragmentLength) |-> NewByte(i)]
<1>9. FragmentBytes = head \o body
  BY DEF FragmentBytes, NewByte
<1>10. head \in Seq(Byte) /\ Len(head) = Trailer /\ \A i \in 1..Trailer : head[i] = Zero
  BY <1>4, <1>8
<1>11. /\ body \in Seq(Byte) /\ Len(body) = HeaderSize + FragmentLength
       /\ \A i \in 1..(HeaderSize + FragmentLength) : body[i] = NewByte(i)
  <2>1. HeaderSize + FragmentLength \in Nat
    BY <1>1, <1>3, <1>5, Sizes1
  <2>2. \A i \in 1..(HeaderSize + FragmentLength) : NewByte(i) \in Byte
    BY <1>7
  <2>. QED BY <2>1, <2>2
<1>. HIDE DEF head, body
<1>12. /\ FragmentBytes \in Seq(Byte)
       /\ Len(FragmentBytes) = Trailer + (HeaderSize + FragmentLength)
       /\ \A i \in 1..Trailer : FragmentBytes[i] = Zero
       /\ \A i \in 1..(HeaderSize + FragmentLength) : FragmentBytes[Trailer + i] = NewByte(i)
  <2>1. /\ head \o body \in Seq(Byte) /\ Len(head \o body) = Len(head) + Len(body)
        /\ \A i \in 1..Len(head) : (head \o body)[i] = head[i]
        /\ \A i \in 1..Len(body) : (head \o body)[Len(head) + i] = body[i]
    <3>1. head \in Seq(Byte) /\ body \in Seq(Byte)
      BY <1>10, <1>11
    <3>. QED BY <3>1, Concat
  <2>. QED BY <1>9, <1>10, <1>11, <2>1
<1>13. Len(FragmentBytes) = Trailer + HeaderSize + FragmentLength
  BY <1>12, <1>4, <1>5, <1>1, <1>3, Sizes1
<1>. QED BY <1>1, <1>2, <1>3, <1>4, <1>5, <1>6, <1>7, <1>12, <1>13

(* The file after a turn, of whose bytes m have been written. *)
After(m) == file \o SubSeq(FragmentBytes, 1, m)

LEMMA AfterFile ==
    ASSUME PhantomInv, pc = "add", NEW m \in 0..Len(FragmentBytes)
    PROVE  /\ After(m) \in Seq(Byte) /\ Len(After(m)) = Len(file) + m /\ Len(file) \in Nat /\ m \in Nat
           /\ \A q \in 1..Len(file) : After(m)[q] = file[q]
           /\ \A i \in 1..Trailer : i <= m => After(m)[Len(file) + i] = Zero
           /\ \A i \in 1..(HeaderSize + FragmentLength) :
                 Trailer + i <= m => After(m)[Len(file) + (Trailer + i)] = NewByte(i)
           /\ \A q \in 1..Len(After(m)) :
                 \/ q \in 1..Len(file)
                 \/ \E i \in 1..Trailer : i <= m /\ q = Len(file) + i
                 \/ \E i \in 1..(HeaderSize + FragmentLength) :
                       Trailer + i <= m /\ q = Len(file) + (Trailer + i)
<1>. DEFINE part == SubSeq(FragmentBytes, 1, m)
<1>0. /\ file \in Seq(Byte) /\ Len(file) \in Nat /\ FragmentBytes \in Seq(Byte)
      /\ Len(FragmentBytes) = Trailer + HeaderSize + FragmentLength
      /\ Trailer \in Nat /\ FragmentLength \in Nat /\ HeaderSize \in Nat
  BY NewBytes, Sizes1 DEF PhantomInv, FileInv
<1>1. part \in Seq(Byte) /\ Len(part) = m /\ m \in Nat /\ \A i \in 1..m : part[i] = FragmentBytes[i]
  BY <1>0, Prefix
<1>. HIDE DEF part
<1>2. /\ After(m) \in Seq(Byte) /\ Len(After(m)) = Len(file) + m
      /\ \A q \in 1..Len(file) : After(m)[q] = file[q]
      /\ \A q \in 1..m : After(m)[Len(file) + q] = part[q]
  BY <1>0, <1>1, Concat DEF After, part
<1>3. ASSUME NEW i \in 1..Trailer, i <= m PROVE After(m)[Len(file) + i] = Zero
  <2>1. i \in 1..m
    BY <1>3, <1>0, <1>1
  <2>. QED BY <2>1, <1>1, <1>2, NewBytes
<1>4. ASSUME NEW i \in 1..(HeaderSize + FragmentLength), Trailer + i <= m
      PROVE  After(m)[Len(file) + (Trailer + i)] = NewByte(i)
  <2>1. Trailer + i \in 1..m
    BY <1>4, <1>0, <1>1
  <2>. QED BY <2>1, <1>1, <1>2, NewBytes
<1>5. ASSUME NEW q \in 1..Len(After(m)), ~(q \in 1..Len(file))
      PROVE  \/ \E i \in 1..Trailer : i <= m /\ q = Len(file) + i
             \/ \E i \in 1..(HeaderSize + FragmentLength) :
                       Trailer + i <= m /\ q = Len(file) + (Trailer + i)
  <2>. PICK k : k = q - Len(file)
    OBVIOUS
  <2>1. k \in 1..m /\ q = Len(file) + k
    BY <1>0, <1>1, <1>2, <1>5
  <2>2. CASE k <= Trailer
    <3>1. k \in 1..Trailer /\ k <= m
      BY <2>1, <2>2, <1>0, <1>1
    <3>. QED BY <3>1, <2>1
  <2>3. CASE k > Trailer
    <3>. PICK i : i = k - Trailer
      OBVIOUS
    <3>1. i \in 1..(HeaderSize + FragmentLength) /\ Trailer + i = k /\ k <= m
      BY <2>1, <2>3, <1>0, <1>1
    <3>. QED BY <3>1, <2>1
  <2>. QED BY <2>1, <2>2, <2>3, <1>0
<1>. QED BY <1>0, <1>1, <1>2, <1>3, <1>4, <1>5

LEMMA EmitChained ==
    ASSUME PhantomInv, pc = "add", NEW m \in 0..Len(FragmentBytes), NEW q \in 1..Len(After(m))
    PROVE  Chained(After(m), records, q)
<1>. PICK f : f = After(m)
  OBVIOUS
<1>0. f \in Seq(Byte) /\ Len(f) = Len(file) + m /\ Len(file) \in Nat /\ m \in Nat
  BY AfterFile
<1>a. \A p \in 1..Len(file) : f[p] = file[p]
  BY AfterFile
<1>b. \A i \in 1..Trailer : i <= m => f[Len(file) + i] = Zero
  BY AfterFile
<1>c. \A i \in 1..(HeaderSize + FragmentLength) :
         Trailer + i <= m => f[Len(file) + (Trailer + i)] = NewByte(i)
  BY AfterFile
<1>d. \A p \in 1..Len(f) :
         \/ p \in 1..Len(file)
         \/ \E i \in 1..Trailer : i <= m /\ p = Len(file) + i
         \/ \E i \in 1..(HeaderSize + FragmentLength) :
               Trailer + i <= m /\ p = Len(file) + (Trailer + i)
  BY AfterFile
<1>1. CASE q \in 1..Len(file)
  <2>1. Chained(file, records, q) /\ file \in Seq(Byte) /\ records \in Seq(Record)
    BY <1>1 DEF PhantomInv, FileInv
  <2>2. \A p \in 1..q : file[p] = f[p]
    BY <1>0, <1>1, <1>a
  <2>3. q \in Nat /\ q >= 1 /\ q <= Len(file) /\ q <= Len(f) /\ Len(records) \in Nat
    BY <1>0, <1>1, <2>1
  <2>4. Len(records) <= Len(records) /\ \A i \in 1..Len(records) : records[i].size = records[i].size
    BY <2>3
  <2>5. file \in Seq(Byte) /\ f \in Seq(Byte) /\ Chained(file, records, q)
    BY <1>0, <2>1
  <2>6. Chained(f, records, q)
    BY ONLY <2>2, <2>3, <2>4, <2>5, ChainedSame
  <2>. QED BY <2>6
<1>2. ASSUME NEW i \in 1..Trailer, i <= m, q = Len(file) + i
      PROVE  Chained(f, records, q)
  BY <1>b, <1>2 DEF Chained, IsData, Zero
<1>3. ASSUME NEW i \in 1..(HeaderSize + FragmentLength), Trailer + i <= m, q = Len(file) + (Trailer + i)
      PROVE  Chained(f, records, q)
  <2>0. /\ Trailer \in Nat /\ FragmentLength \in Nat /\ HeaderSize \in Nat
        /\ Len(records) \in Nat /\ Len(records) >= 1
    BY NewBytes, Sizes1
  <2>1. /\ f[q] = NewByte(i) /\ f[q].at = i /\ f[q].len = FragmentLength /\ f[q].id = Len(records)
        /\ f[q].frag = add.frags + 1 /\ f[q].from = Last(records).size - add.left
        /\ f[q].type = FragmentType /\ q - i = Len(file) + Trailer
    BY <1>0, <1>c, <1>3, <2>0 DEF NewByte
  <2>2. Begins(f, q)
    <3>1. ASSUME NEW k \in 0..(i - 1) PROVE f[q - k] = [f[q] EXCEPT !.at = @ - k]
      <4>1. i - k \in 1..(HeaderSize + FragmentLength) /\ Trailer + (i - k) <= m
            /\ q - k = Len(file) + (Trailer + (i - k))
        BY <1>0, <1>3, <2>0
      <4>2. f[q - k] = NewByte(i - k)
        BY <4>1, <1>c
      <4>3. NewByte(i - k) = [NewByte(i) EXCEPT !.at = @ - k]
        BY DEF NewByte
      <4>. QED BY <4>2, <4>3, <2>1
    <3>2. f[q].at \in 1..Size(f[q]) /\ f[q].at <= q
      BY <2>0, <2>1, <1>0, <1>3 DEF Size
    <3>. QED BY <3>1, <3>2, <2>1 DEF Begins
  <2>3. \A p \in 1..(q - i) : p > Len(file) => ~IsData(f[p])
    <3>. SUFFICES ASSUME NEW p \in 1..(q - i), p > Len(file) PROVE ~IsData(f[p])
      OBVIOUS
    <3>. PICK j : j = p - Len(file)
      OBVIOUS
    <3>1. j \in 1..Trailer /\ j <= m /\ p = Len(file) + j
      <4>1. p \in Nat /\ p <= Len(file) + Trailer /\ Len(file) \in Nat /\ Trailer \in Nat
        BY <2>0, <2>1, <1>0
      <4>2. Trailer + i <= m /\ i \in Nat /\ m \in Nat
        BY <2>0, <1>0, <1>3
      <4>. QED BY ONLY <4>1, <4>2, j = p - Len(file), p > Len(file)
    <3>2. f[p] = Zero
      BY <3>1, <1>b
    <3>. QED BY <3>2 DEF IsData, Zero
  <2>4. FragmentType \in {"full", "first"} => StartsRecord(f, q)
    <3>. SUFFICES ASSUME FragmentType \in {"full", "first"} PROVE StartsRecord(f, q)
      OBVIOUS
    <3>1. add.frags = 0
      BY NewBytes
    <3>2. /\ add.left = Last(records).size
          /\ \A p \in 1..Len(file) : IsData(file[p]) => file[p].id < Len(records)
      BY <3>1 DEF PhantomInv, AddInv
    <3>3. Last(records).size \in Nat
      BY NewBytes DEF Record
    <3>4. \A p \in 1..(q - i) : IsData(f[p]) => f[p].id < f[q].id
      <4>. SUFFICES ASSUME NEW p \in 1..(q - i), IsData(f[p]) PROVE f[p].id < f[q].id
        OBVIOUS
      <4>1. p \in 1..Len(file)
        BY <2>0, <2>1, <2>3, <1>0
      <4>2. f[p] = file[p]
        BY <4>1, <1>a
      <4>. QED BY <4>1, <4>2, <3>2, <2>1
    <3>. QED BY <3>1, <3>2, <3>3, <3>4, <2>1 DEF StartsRecord
  <2>5. ~(FragmentType \in {"full", "first"}) => ContinuesRecord(f, q)
    <3>. SUFFICES ASSUME ~(FragmentType \in {"full", "first"}) PROVE ContinuesRecord(f, q)
      OBVIOUS
    <3>1. add.frags # 0
      BY NewBytes
    <3>2. /\ file # <<>> /\ Ends(Last(file)) /\ GoesOn(Last(file))
          /\ Last(file).id = Len(records) /\ Last(file).frag = add.frags
          /\ Last(file).from + Last(file).len = Last(records).size - add.left
      BY <3>1 DEF PhantomInv, AddInv
    <3>3. file \in Seq(Byte)
      BY DEF PhantomInv, FileInv
    <3>4. Len(file) \in 1..(q - i) /\ Last(file) = f[Len(file)]
      BY <3>2, <3>3, <2>0, <2>1, <1>0, <1>a DEF Last
    <3>5. Continues(f[Len(file)], f[q])
      BY <3>2, <3>4, <2>1 DEF Continues
    <3>6. Zeros(f, Len(file) + 1, q - i)
      <4>1. \A p \in (Len(file) + 1)..(q - i) : p \in 1..(q - i) /\ p > Len(file)
        <5>1. Len(file) \in Nat /\ q - i \in Nat
          BY <1>0, <2>0, <2>1
        <5>. QED BY ONLY <5>1
      <4>. QED BY <4>1, <2>3 DEF Zeros
    <3>. QED BY <3>4, <3>5, <3>6, <2>1 DEF ContinuesRecord
  <2>6. Completes(f[q]) => f[q].from + f[q].len = records[f[q].id].size
    <3>. SUFFICES ASSUME Completes(f[q]) PROVE f[q].from + f[q].len = records[f[q].id].size
      OBVIOUS
    <3>1. FragmentLength = add.left /\ add.left \in Nat /\ Last(records) = records[Len(records)]
      BY <2>1, NewBytes DEF Completes
    <3>2. Last(records).size \in Nat
      BY NewBytes DEF Record
    <3>. QED BY <3>1, <3>2, <2>1
  <2>. QED BY <2>0, <2>1, <2>2, <2>4, <2>5, <2>6 DEF Chained
<1>. QED BY <1>1, <1>2, <1>3, <1>d

(* What a step may do to the records: their sizes stay. *)
SameSizes ==
    /\ records' \in Seq(Record) /\ Len(records) <= Len(records')
    /\ \A i \in 1..Len(records) : records'[i].size = records[i].size

LEMMA EmitFile ==
    ASSUME PhantomInv, EmitPhysicalRecord
    PROVE  /\ SameSizes /\ Len(records') = Len(records)
           /\ \E m \in 0..Len(FragmentBytes) :
                 /\ file' = After(m)
                 /\ \/ m = Len(FragmentBytes)
                    \/ Returns("failed")
           /\ \/ /\ file' = After(Len(FragmentBytes)) /\ add.left > FragmentLength
                 /\ UNCHANGED <<pc, records>>
              \/ /\ file' = After(Len(FragmentBytes)) /\ ~(add.left > FragmentLength)
                 /\ Returns("ok")
              \/ /\ \E m \in 0..(Len(FragmentBytes) - 1) : file' = After(m)
                 /\ Returns("failed")
<1>0. /\ pc = "add" /\ records \in Seq(Record) /\ Len(records) \in Nat /\ Len(records) >= 1
      /\ FragmentBytes \in Seq(Byte) /\ Len(FragmentBytes) \in Nat /\ file \in Seq(Byte)
  BY NewBytes DEF EmitPhysicalRecord, PhantomInv, FileInv
<1>1. After(Len(FragmentBytes)) = file \o FragmentBytes
  <2>1. SubSeq(FragmentBytes, 1, Len(FragmentBytes)) = FragmentBytes
    BY <1>0
  <2>. QED BY <2>1 DEF After
<1>2. \/ /\ file' = After(Len(FragmentBytes)) /\ add.left > FragmentLength
         /\ UNCHANGED <<pc, records>>
      \/ /\ file' = After(Len(FragmentBytes)) /\ ~(add.left > FragmentLength)
         /\ Returns("ok")
      \/ /\ \E m \in 0..(Len(FragmentBytes) - 1) : file' = After(m)
         /\ Returns("failed")
  BY <1>1 DEF EmitPhysicalRecord, WriteUnbuffered, After
<1>3. \E m \in 0..Len(FragmentBytes) : /\ file' = After(m)
                                       /\ \/ m = Len(FragmentBytes)
                                          \/ Returns("failed")
  <2>1. CASE file' = After(Len(FragmentBytes))
    BY <2>1, <1>0
  <2>2. CASE (\E m \in 0..(Len(FragmentBytes) - 1) : file' = After(m)) /\ Returns("failed")
    <3>1. PICK m \in 0..(Len(FragmentBytes) - 1) : file' = After(m)
      BY <2>2
    <3>2. m \in 0..Len(FragmentBytes)
      BY <1>0
    <3>. QED BY <3>1, <3>2, <2>2
  <2>. QED BY <1>2, <2>1, <2>2
<1>4. Len(file') \in Nat
  BY <1>0, <1>3, AfterFile
<1>5. ASSUME NEW s \in Status,
             records' = [records EXCEPT ![Len(records)].status = s, ![Len(records)].end = Len(file')]
      PROVE  SameSizes /\ Len(records') = Len(records)
  <2>1. records[Len(records)] \in Record
    BY <1>0
  <2>2. [records[Len(records)] EXCEPT !.status = s, !.end = Len(file')] \in Record
    BY <2>1, <1>4 DEF Record
  <2>3. records' = [records EXCEPT ![Len(records)] = [records[Len(records)] EXCEPT !.status = s, !.end = Len(file')]]
    BY <1>5
  <2>4. /\ records' \in Seq(Record) /\ Len(records') = Len(records)
        /\ \A i \in 1..Len(records) : records'[i] = IF i = Len(records)
              THEN [records[Len(records)] EXCEPT !.status = s, !.end = Len(file')] ELSE records[i]
    <3>1. Len(records) \in 1..Len(records) /\ records \in Seq(Record)
      BY <1>0
    <3>. QED BY ONLY <3>1, <2>2, <2>3, Replace
  <2>5. [records[Len(records)] EXCEPT !.status = s, !.end = Len(file')].size = records[Len(records)].size
    BY <2>1 DEF Record
  <2>6. ASSUME NEW i \in 1..Len(records) PROVE records'[i].size = records[i].size
    BY <2>4, <2>5
  <2>7. Len(records) <= Len(records')
    BY <1>0, <2>4
  <2>. QED BY <2>4, <2>6, <2>7 DEF SameSizes
<1>6. SameSizes /\ Len(records') = Len(records)
  <2>1. CASE UNCHANGED records
    BY <2>1, <1>0 DEF SameSizes
  <2>2. CASE Returns("ok")
    BY <2>2, <1>5 DEF Returns, Status
  <2>3. CASE Returns("failed")
    BY <2>3, <1>5 DEF Returns, Status
  <2>. QED BY <1>2, <2>1, <2>2, <2>3
<1>. QED BY <1>2, <1>3, <1>6

LEMMA OutSame ==
    ASSUME PhantomInv, SameSizes, UNCHANGED out
    PROVE  OutInv'
<1>0. /\ out \in Seq(Seq(Fragments)) /\ Len(records) \in Nat /\ Len(records') \in Nat
      /\ Len(records) <= Len(records')
      /\ \A i \in 1..Len(out) : Whole(out[i]) /\ out[i][1].id \in 1..Len(records)
      /\ \A i, j \in 1..Len(out) : i < j => out[i][1].id < out[j][1].id
  BY DEF PhantomInv, FileInv, OutInv, SameSizes
<1>1. ASSUME NEW i \in 1..Len(out) PROVE Whole(out[i])' /\ out[i][1].id \in 1..Len(records')
  <2>1. Whole(out[i]) /\ out[i][1].id \in 1..Len(records)
    BY <1>0
  <2>2. records'[out[i][1].id].size = records[out[i][1].id].size
    BY <2>1 DEF SameSizes
  <2>3. out[i][1].id \in 1..Len(records')
    BY <2>1, <1>0
  <2>. QED BY <2>1, <2>2, <2>3 DEF Whole
<1>. QED BY <1>0, <1>1 DEF OutInv

LEMMA EmitPhantom ==
    ASSUME PhantomInv, EmitPhysicalRecord
    PROVE  PhantomInv'
<1>0. /\ pc = "add" /\ SameSizes /\ Len(records') = Len(records) /\ UNCHANGED <<rd, out>>
      /\ records \in Seq(Record)
  BY EmitFile DEF EmitPhysicalRecord, PhantomInv, FileInv, readerVars
<1>1. PICK m \in 0..Len(FragmentBytes) : file' = After(m)
  BY EmitFile
<1>2. FileInv'
  <2>1. After(m) \in Seq(Byte)
    BY <1>0, AfterFile
  <2>2. ASSUME NEW q \in 1..Len(After(m)) PROVE Chained(After(m), records', q)
    <3>1. Chained(After(m), records, q)
      BY <1>0, EmitChained
    <3>2. /\ Len(records) \in Nat /\ Len(records') \in Nat /\ Len(records) <= Len(records')
          /\ \A i \in 1..Len(records) : records'[i].size = records[i].size
      BY <1>0 DEF SameSizes
    <3>3. q \in Nat /\ q >= 1 /\ q <= Len(After(m)) /\ \A p \in 1..q : After(m)[p] = After(m)[p]
      BY <2>1
    <3>. QED BY ONLY <2>1, <3>1, <3>2, <3>3, ChainedSame
  <2>3. \A q \in 1..Len(file') : Chained(file', records', q)
    BY <1>1, <2>2
  <2>4. synced' \in 0..Len(file')
    <3>1. Len(file') = Len(file) + m /\ Len(file) \in Nat /\ m \in Nat
      BY <1>0, <1>1, AfterFile
    <3>2. synced \in 0..Len(file) /\ synced' = synced
      BY DEF PhantomInv, FileInv, EmitPhysicalRecord
    <3>. QED BY <3>1, <3>2
  <2>. QED BY <1>1, <2>1, <2>3, <2>4, <1>0 DEF FileInv, SameSizes
<1>3. AddInv'
  <2>1. block_offset' \in 0..BlockSize
    BY <1>0, NewBytes DEF EmitPhysicalRecord
  <2>2. ASSUME pc' = "add"
        PROVE  /\ records' # <<>> /\ add'.left \in 0..Last(records').size /\ add'.frags \in Nat
               /\ add'.frags # 0 /\ file' # <<>> /\ Ends(Last(file')) /\ GoesOn(Last(file'))
               /\ Last(file').id = Len(records') /\ Last(file').frag = add'.frags
               /\ Last(file').from + Last(file').len = Last(records').size - add'.left
    <3>1. file' = After(Len(FragmentBytes)) /\ add.left > FragmentLength /\ records' = records
      BY <2>2, EmitFile DEF Returns
    <3>2. add' = [left |-> add.left - FragmentLength, frags |-> add.frags + 1]
      BY DEF EmitPhysicalRecord
    <3>3. /\ Len(records) >= 1 /\ add.left \in 0..Last(records).size /\ add.frags \in Nat
          /\ FragmentLength \in 0..add.left /\ Last(records).size \in Nat
          /\ Trailer \in Nat /\ HeaderSize \in Nat /\ HeaderSize > 0
          /\ Len(FragmentBytes) = Trailer + HeaderSize + FragmentLength
          /\ FragmentType \in {"first", "middle"}
      <4>1. /\ Len(records) >= 1 /\ add.left \in 0..Last(records).size /\ add.frags \in Nat
            /\ FragmentLength \in 0..add.left /\ Last(records) \in Record
            /\ Trailer \in Nat /\ Len(FragmentBytes) = Trailer + HeaderSize + FragmentLength
            /\ FragmentType \in {"full", "last"} <=> FragmentLength = add.left
            /\ FragmentType \in {"full", "first", "middle", "last"}
        BY <1>0, NewBytes
      <4>2. Last(records).size \in Nat
        BY <4>1 DEF Record
      <4>3. FragmentType \in {"first", "middle"}
        BY <4>1, <4>2, <3>1
      <4>. QED BY <4>1, <4>2, <4>3, Sizes1
    <3>4. PICK n : n = HeaderSize + FragmentLength
      OBVIOUS
    <3>5. n \in 1..(HeaderSize + FragmentLength) /\ Trailer + n = Len(FragmentBytes)
          /\ Len(FragmentBytes) \in 0..Len(FragmentBytes)
      BY <3>3, <3>4
    <3>6. /\ file' \in Seq(Byte) /\ Len(file') = Len(file) + Len(FragmentBytes) /\ Len(file) \in Nat
          /\ file'[Len(file) + (Trailer + n)] = NewByte(n)
      BY <1>0, <3>1, <3>5, AfterFile
    <3>7. file' # <<>> /\ Last(file') = NewByte(n)
      BY <3>5, <3>6, <3>3, <3>4 DEF Last
    <3>8. /\ Ends(NewByte(n)) /\ GoesOn(NewByte(n)) /\ NewByte(n).id = Len(records)
          /\ NewByte(n).frag = add.frags + 1
          /\ NewByte(n).from + NewByte(n).len = Last(records).size - (add.left - FragmentLength)
      BY <3>3, <3>4 DEF NewByte, Ends, GoesOn, IsData, Size
    <3>9. add'.left \in 0..Last(records).size /\ add'.frags \in Nat /\ add'.frags # 0
      BY <3>2, <3>3
    <3>10. records' # <<>>
      BY <3>1, <3>3, <1>0
    <3>11. add'.left = add.left - FragmentLength /\ add'.frags = add.frags + 1
      BY <3>2
    <3>. QED BY <3>1, <3>7, <3>8, <3>9, <3>10, <3>11
  <2>. QED BY <2>1, <2>2 DEF AddInv
<1>4. OutInv'
  BY <1>0, OutSame
<1>5. pc' \in PCs /\ pc' # "read"
  BY <1>0, EmitFile DEF Returns, PCs
<1>6. ReadInv'
  BY <1>0, <1>5 DEF ReadInv, PhantomInv
<1>. QED BY <1>2, <1>3, <1>4, <1>5, <1>6 DEF PhantomInv

LEMMA AddPhantom ==
    ASSUME PhantomInv, NEW n \in Sizes, AddRecord(n)
    PROVE  PhantomInv'
<1>. DEFINE r == [size |-> n, status |-> "pending", end |-> 0]
<1>0. /\ pc' = "add" /\ records' = Append(records, r) /\ add' = [left |-> n, frags |-> 0]
      /\ UNCHANGED <<file, synced, block_offset, rd, out>>
      /\ records \in Seq(Record) /\ file \in Seq(Byte) /\ n \in Nat
  BY WalAssumption DEF AddRecord, PhantomInv, FileInv, readerVars
<1>1. r \in Record
  BY <1>0 DEF Record, Status
<1>. HIDE DEF r
<1>2. /\ records' \in Seq(Record) /\ Len(records') = Len(records) + 1 /\ Len(records) \in Nat
      /\ \A i \in 1..Len(records) : records'[i] = records[i]
      /\ Last(records') = r /\ records' # <<>>
  BY <1>0, <1>1 DEF Last
<1>3. SameSizes
  BY <1>2 DEF SameSizes
<1>4. ASSUME NEW q \in 1..Len(file) PROVE Chained(file, records', q)
  <2>1. Chained(file, records, q)
    BY DEF PhantomInv, FileInv
  <2>2. /\ Len(records) \in Nat /\ Len(records') \in Nat /\ Len(records) <= Len(records')
        /\ \A i \in 1..Len(records) : records'[i].size = records[i].size
    BY <1>2
  <2>3. q \in Nat /\ q >= 1 /\ q <= Len(file) /\ \A p \in 1..q : file[p] = file[p]
    BY <1>0
  <2>4. file \in Seq(Byte)
    BY <1>0
  <2>. QED BY ONLY <2>1, <2>2, <2>3, <2>4, ChainedSame
<1>5. FileInv'
  BY <1>0, <1>2, <1>4 DEF FileInv, PhantomInv
<1>6. AddInv'
  <2>1. \A q \in 1..Len(file) : IsData(file[q]) => file[q].id < Len(records')
    <3>. SUFFICES ASSUME NEW q \in 1..Len(file), IsData(file[q]) PROVE file[q].id < Len(records')
      OBVIOUS
    <3>1. file[q].id \in 1..Len(records)
      BY DEF PhantomInv, FileInv, Chained
    <3>. QED BY <3>1, <1>2
  <2>2. add'.left = n /\ add'.frags = 0 /\ Last(records').size = n
    BY <1>0, <1>2 DEF r
  <2>3. block_offset' \in 0..BlockSize
    BY <1>0 DEF PhantomInv, AddInv
  <2>. QED BY <1>0, <1>2, <2>1, <2>2, <2>3 DEF AddInv
<1>7. OutInv'
  BY <1>0, <1>3, OutSame
<1>8. pc' \in PCs /\ ReadInv'
  BY <1>0 DEF ReadInv, PhantomInv, PCs
<1>. QED BY <1>5, <1>6, <1>7, <1>8 DEF PhantomInv

LEMMA SyncPhantom ==
    ASSUME PhantomInv, Sync
    PROVE  PhantomInv'
<1>0. /\ pc' = "idle" /\ UNCHANGED <<file, records, block_offset, rd, out>> /\ synced' = Len(file)
      /\ file \in Seq(Byte) /\ records \in Seq(Record)
  BY DEF Sync, readerVars, PhantomInv, FileInv
<1>1. FileInv'
  BY <1>0 DEF FileInv, PhantomInv
<1>2. AddInv'
  BY <1>0 DEF AddInv, PhantomInv
<1>3. OutInv'
  BY <1>0 DEF OutInv, PhantomInv, Whole
<1>4. pc' \in PCs /\ ReadInv'
  BY <1>0 DEF ReadInv, PhantomInv, PCs
<1>. QED BY <1>1, <1>2, <1>3, <1>4 DEF PhantomInv

LEMMA CrashFile ==
    ASSUME PhantomInv, Crash
    PROVE  /\ SameSizes /\ Len(records') = Len(records)
           /\ \E n \in synced..Len(file) :
                 /\ n \in 0..Len(file) /\ file' = SubSeq(file, 1, n)
                 /\ file' \in Seq(Byte) /\ Len(file') = n /\ \A q \in 1..n : file'[q] = file[q]
                 /\ \A i \in 1..Len(records) :
                       records'[i] = IF records[i].status = "pending" \/ records[i].end > n
                                     THEN [records[i] EXCEPT !.status = "lost"]
                                     ELSE records[i]
<1>0. file \in Seq(Byte) /\ records \in Seq(Record) /\ synced \in 0..Len(file)
  BY DEF PhantomInv, FileInv
<1>1. PICK n \in synced..Len(file) :
        /\ file' = SubSeq(file, 1, n)
        /\ records' = [i \in 1..Len(records) |->
              IF records[i].status = "pending" \/ records[i].end > n
              THEN [records[i] EXCEPT !.status = "lost"]
              ELSE records[i]]
  BY DEF Crash
<1>2. n \in 0..Len(file)
  BY <1>0
<1>3. file' \in Seq(Byte) /\ Len(file') = n /\ \A q \in 1..n : file'[q] = file[q]
  BY <1>0, <1>1, <1>2, Prefix
<1>4. ASSUME NEW i \in 1..Len(records)
      PROVE  /\ records'[i] = IF records[i].status = "pending" \/ records[i].end > n
                              THEN [records[i] EXCEPT !.status = "lost"]
                              ELSE records[i]
             /\ records'[i] \in Record /\ records'[i].size = records[i].size
  <2>1. records[i] \in Record
    BY <1>0
  <2>2. [records[i] EXCEPT !.status = "lost"] \in Record /\ [records[i] EXCEPT !.status = "lost"].size = records[i].size
    BY <2>1 DEF Record, Status
  <2>. QED BY <1>1, <2>1, <2>2
<1>5. records' \in Seq(Record) /\ Len(records') = Len(records)
  <2>1. Len(records) \in Nat /\ DOMAIN records' = 1..Len(records)
    BY <1>0, <1>1
  <2>2. records' = [i \in 1..Len(records) |-> records'[i]]
    BY <1>1
  <2>. QED BY <2>1, <2>2, <1>4
<1>6. SameSizes
  <2>1. Len(records) <= Len(records')
    BY <1>0, <1>5
  <2>. QED BY <2>1, <1>4, <1>5 DEF SameSizes
<1>. QED BY <1>2, <1>3, <1>1, <1>4, <1>5, <1>6

LEMMA CrashPhantom ==
    ASSUME PhantomInv, Crash
    PROVE  PhantomInv'
<1>0. /\ pc' = "read" /\ rd' = NewReader /\ out' = <<>> /\ block_offset' = 0 /\ synced' = synced
      /\ SameSizes /\ file \in Seq(Byte) /\ records \in Seq(Record)
  BY CrashFile DEF Crash, PhantomInv, FileInv
<1>1. PICK n \in synced..Len(file) :
        /\ n \in 0..Len(file) /\ file' \in Seq(Byte) /\ Len(file') = n /\ \A q \in 1..n : file'[q] = file[q]
  BY CrashFile
<1>2. FileInv'
  <2>1. ASSUME NEW q \in 1..n PROVE Chained(file', records', q)
    <3>1. Chained(file, records, q)
      BY <1>1 DEF PhantomInv, FileInv
    <3>2. /\ Len(records) \in Nat /\ Len(records') \in Nat /\ Len(records) <= Len(records')
          /\ \A i \in 1..Len(records) : records'[i].size = records[i].size
      BY <1>0 DEF SameSizes
    <3>3. q \in Nat /\ q >= 1 /\ q <= Len(file) /\ q <= Len(file') /\ \A p \in 1..q : file[p] = file'[p]
      BY <1>0, <1>1
    <3>4. file \in Seq(Byte) /\ file' \in Seq(Byte)
      BY <1>0, <1>1
    <3>. QED BY ONLY <3>1, <3>2, <3>3, <3>4, ChainedSame
  <2>2. synced' \in 0..Len(file')
    BY <1>0, <1>1 DEF PhantomInv, FileInv
  <2>3. \A q \in 1..Len(file') : Chained(file', records', q)
    BY <1>1, <2>1
  <2>4. file' \in Seq(Byte) /\ records' \in Seq(Record)
    BY <1>0, <1>1 DEF SameSizes
  <2>. QED BY <2>2, <2>3, <2>4 DEF FileInv
<1>3. AddInv'
  BY <1>0, Sizes1 DEF AddInv
<1>4. OutInv'
  <2>1. <<>> \in Seq(Seq(Fragments)) /\ Len(<<>>) = 0
    OBVIOUS
  <2>. QED BY <1>0, <2>1 DEF OutInv
<1>5. ReadInv'
  <2>1. rd' \in Reader /\ rd'.pos = 0 /\ rd'.end = 0 /\ rd'.inFragment = FALSE
    BY <1>0 DEF NewReader, Reader
  <2>2. Len(file') \in Nat /\ Len(out') = 0
    BY <1>0, <1>1
  <2>. QED BY <2>1, <2>2 DEF ReadInv, ScratchInv
<1>6. pc' \in PCs
  BY <1>0 DEF PCs
<1>. QED BY <1>2, <1>3, <1>4, <1>5, <1>6 DEF PhantomInv

LEMMA ReadBlockPhantom ==
    ASSUME PhantomInv, ReadBlock
    PROVE  PhantomInv'
<1>. DEFINE n == IF Len(file) - rd.end < BlockSize THEN Len(file) - rd.end ELSE BlockSize
<1>0. /\ pc = "read" /\ UNCHANGED <<pc, file, synced, block_offset, add, records, out>>
      /\ rd' = [rd EXCEPT !.pos = rd.end, !.end = rd.end + n, !.eof = n < BlockSize]
      /\ rd.end - rd.pos < HeaderSize /\ ~rd.eof
      /\ file \in Seq(Byte) /\ records \in Seq(Record)
  BY DEF ReadBlock, writerVars, BufferSize, PhantomInv, FileInv
<1>1. /\ rd \in Reader /\ rd.pos \in 0..rd.end /\ rd.end \in 0..Len(file) /\ Len(file) \in Nat
      /\ \A i \in 1..Len(out) : \E p \in 1..rd.pos : IsData(file[p]) /\ file[p].id = out[i][1].id
      /\ ScratchInv
  BY <1>0 DEF PhantomInv, ReadInv
<1>2. n \in Nat /\ n <= Len(file) - rd.end /\ n <= BlockSize /\ (n < BlockSize \/ n = BlockSize)
  BY <1>1, Sizes1
<1>. HIDE DEF n
<1>3. /\ rd' \in Reader /\ rd'.pos = rd.end /\ rd'.end = rd.end + n /\ rd'.eof = (n < BlockSize)
      /\ rd'.scratch = rd.scratch /\ rd'.inFragment = rd.inFragment
  <2>1. rd.end + n \in Nat /\ rd.end \in Nat /\ (n < BlockSize) \in BOOLEAN
    BY <1>1, <1>2
  <2>. QED BY <1>0, <1>1, <2>1 DEF Reader
<1>4. ScratchInv'
  <2>. SUFFICES ASSUME rd.inFragment PROVE ScratchInv'
    BY <1>3 DEF ScratchInv
  <2>1. PICK e \in 1..rd.pos :
              /\ Ends(file[e]) /\ FragmentOf(file[e]) = Last(rd.scratch)
              /\ e # rd.pos => rd.pos < e + HeaderSize /\ (BufferSize >= HeaderSize \/ rd.eof)
    BY <1>1 DEF ScratchInv
  <2>2. e = rd.pos
    BY <2>1, <1>0, <1>1, Sizes1 DEF BufferSize
  <2>3. e \in 1..rd'.pos /\ rd'.pos < e + HeaderSize
    BY <2>1, <2>2, <1>0, <1>1, <1>3, Sizes1
  <2>4. BufferSize' >= HeaderSize \/ rd'.eof
    <3>1. CASE n < BlockSize
      BY <3>1, <1>3
    <3>2. CASE n = BlockSize
      <4>1. rd'.end - rd'.pos = n
        BY <1>1, <1>2, <1>3
      <4>. QED BY <4>1, <3>2, Sizes1 DEF BufferSize
    <3>. QED BY <3>1, <3>2, <1>2
  <2>5. /\ Ends(file'[e]) /\ FragmentOf(file'[e]) = Last(rd'.scratch)
    BY <2>1, <1>0, <1>3
  <2>6. /\ rd'.scratch \in Seq(Fragments) /\ Contiguous(rd'.scratch)
        /\ rd'.scratch[1].id \in 1..Len(records')
        /\ \A i \in 1..Len(out') : out'[i][1].id < rd'.scratch[1].id
    BY <1>0, <1>1, <1>3 DEF ScratchInv
  <2>. QED BY <2>3, <2>4, <2>5, <2>6 DEF ScratchInv
<1>5. rd'.pos \in 0..rd'.end /\ rd'.end \in 0..Len(file')
  BY <1>0, <1>1, <1>2, <1>3
<1>6. \A i \in 1..Len(out') : \E p \in 1..rd'.pos : IsData(file'[p]) /\ file'[p].id = out'[i][1].id
  <2>1. \A p \in 1..rd.pos : p \in 1..rd'.pos
    BY <1>1, <1>3
  <2>. QED BY <1>0, <1>1, <2>1
<1>7. ReadInv'
  BY <1>3, <1>4, <1>5, <1>6 DEF ReadInv
<1>8. FileInv' /\ AddInv'
  BY <1>0 DEF FileInv, AddInv, PhantomInv
<1>9. OutInv' /\ pc' \in PCs
  BY <1>0 DEF OutInv, PhantomInv, Whole
<1>. QED BY <1>7, <1>8, <1>9 DEF PhantomInv

-----------------------------------------------------------------------------
(***************************************************************************)
(* What the reader accepts                                                 *)
(***************************************************************************)
(* The fragment at the start of buffer_ is there, and whole. *)
Accepts ==
    /\ IntactHeader /\ HeaderSize + Header.len <= BufferSize
    /\ \A i \in 1..(HeaderSize + Header.len) : file[rd.pos + i] = [Header EXCEPT !.at = i]

LEMMA ReadTypes ==
    ASSUME PhantomInv, pc = "read", BufferSize >= HeaderSize
    PROVE  /\ file \in Seq(Byte) /\ Len(file) \in Nat /\ records \in Seq(Record) /\ rd \in Reader
           /\ rd.pos \in Nat /\ rd.end \in Nat /\ rd.end <= Len(file) /\ rd.pos + HeaderSize <= rd.end
           /\ Header \in Byte /\ Fragment \in Fragments /\ Fragment = FragmentOf(Header)
           /\ Size(Header) \in Nat /\ Size(Header) >= HeaderSize
           /\ Size(Header) = HeaderSize + Header.len
<1>1. file \in Seq(Byte) /\ Len(file) \in Nat /\ records \in Seq(Record) /\ rd \in Reader
  BY DEF PhantomInv, FileInv, ReadInv
<1>2. rd.pos \in 0..rd.end /\ rd.end \in 0..Len(file)
  BY DEF PhantomInv, ReadInv
<1>3. rd.pos \in Nat /\ rd.end \in Nat /\ rd.end <= Len(file) /\ rd.pos + HeaderSize <= rd.end
  BY <1>1, <1>2, Sizes1 DEF BufferSize
<1>4. Header \in Byte
  <2>1. rd.pos + 1 \in 1..Len(file)
    BY <1>1, <1>3, Sizes1
  <2>. QED BY <1>1, <2>1 DEF Header
<1>5. Fragment \in Fragments /\ Fragment = FragmentOf(Header)
  BY <1>4 DEF Fragment, FragmentOf, Fragments, Byte
<1>. QED BY <1>1, <1>3, <1>4, <1>5, Sizes1 DEF Size

LEMMA Accepted ==
    ASSUME PhantomInv, pc = "read", BufferSize >= HeaderSize, Accepts
    PROVE  /\ rd.pos + Size(Header) \in (rd.pos + 1)..rd.end
           /\ IsData(Header) /\ Header.id \in 1..Len(records)
           /\ Ends(file[rd.pos + Size(Header)])
           /\ FragmentOf(file[rd.pos + Size(Header)]) = Fragment
           /\ file[rd.pos + Size(Header)].type = Header.type
           /\ IF Header.type \in {"full", "first"}
              THEN /\ Header.frag = 1 /\ Header.from = 0
                   /\ \A p \in 1..rd.pos : IsData(file[p]) => file[p].id < Header.id
              ELSE \E p \in 1..rd.pos : Continues(file[p], Header) /\ Zeros(file, p + 1, rd.pos)
           /\ Completes(Header) => Header.from + Header.len = records[Header.id].size
<1>. PICK q : q = rd.pos + 1
  OBVIOUS
<1>. PICK z : z = rd.pos + Size(Header)
  OBVIOUS
<1>0. /\ file \in Seq(Byte) /\ Len(file) \in Nat
      /\ rd.pos \in Nat /\ rd.end \in Nat /\ rd.end <= Len(file)
      /\ Header \in Byte /\ Fragment = FragmentOf(Header)
      /\ Size(Header) \in Nat /\ Size(Header) >= HeaderSize /\ Size(Header) = HeaderSize + Header.len
  BY ReadTypes
<1>1. Size(Header) \in 1..Size(Header) /\ 1 \in 1..Size(Header)
  BY <1>0, Sizes1
<1>2. z \in (rd.pos + 1)..rd.end
  <2>1. Size(Header) <= rd.end - rd.pos
    BY <1>0 DEF Accepts, BufferSize
  <2>. QED BY <1>0, <1>1, <2>1
<1>3. file[z] = [Header EXCEPT !.at = Size(Header)] /\ Header = [Header EXCEPT !.at = 1]
  <2>1. \A i \in 1..Size(Header) : file[rd.pos + i] = [Header EXCEPT !.at = i]
    BY <1>0 DEF Accepts
  <2>. QED BY <2>1, <1>1 DEF Header
<1>4. /\ Header.at = 1 /\ file[z].at = Size(Header) /\ file[z].len = Header.len
      /\ file[z].type = Header.type /\ FragmentOf(file[z]) = FragmentOf(Header)
  BY <1>0, <1>3 DEF Byte, FragmentOf
<1>5. IsData(Header) /\ IsData(file[z])
  BY <1>4 DEF Accepts, IntactHeader, IsData
<1>6. Ends(file[z])
  BY <1>4, <1>5 DEF Ends, Size
<1>7. q \in 1..Len(file) /\ file[q] = Header /\ q - file[q].at = rd.pos
  BY <1>0, <1>2, <1>4 DEF Header
<1>8. Chained(file, records, q)
  BY <1>7 DEF PhantomInv, FileInv
<1>9. /\ Header.id \in 1..Len(records)
      /\ IF Header.type \in {"full", "first"} THEN StartsRecord(file, q) ELSE ContinuesRecord(file, q)
      /\ Completes(Header) => Header.from + Header.len = records[Header.id].size
  BY <1>5, <1>7, <1>8 DEF Chained
<1>10. StartsRecord(file, q) => /\ Header.frag = 1 /\ Header.from = 0
                                /\ \A p \in 1..rd.pos : IsData(file[p]) => file[p].id < Header.id
  BY <1>7 DEF StartsRecord
<1>11. ContinuesRecord(file, q) => \E p \in 1..rd.pos : Continues(file[p], Header) /\ Zeros(file, p + 1, rd.pos)
  BY <1>7 DEF ContinuesRecord
<1>. QED BY <1>0, <1>2, <1>4, <1>5, <1>6, <1>9, <1>10, <1>11

(* Fewer bytes than a header cannot hold a fragment: of two fragments, the  *)
(* second of which ends less than a header's length after the first, there  *)
(* is only one.                                                             *)
LEMMA LastFragment ==
    ASSUME PhantomInv, NEW e \in 1..Len(file), NEW p \in 1..Len(file), NEW c \in Nat,
           Ends(file[e]), Ends(file[p]), Zeros(file, p + 1, c),
           e <= c, p <= c, c < e + HeaderSize
    PROVE  p = e
<1>0. file \in Seq(Byte) /\ file[e] \in Byte /\ file[p] \in Byte /\ HeaderSize \in Nat
  <2>1. file \in Seq(Byte)
    BY DEF PhantomInv, FileInv
  <2>. QED BY <2>1, Sizes1
<1>1. ~(p < e)
  <2>. SUFFICES ASSUME p < e PROVE FALSE
    OBVIOUS
  <2>1. e \in (p + 1)..c
    BY <1>0
  <2>. QED BY <2>1 DEF Zeros, Ends
<1>2. ~(e < p)
  <2>. SUFFICES ASSUME e < p PROVE FALSE
    OBVIOUS
  <2>1. Begins(file, p)
    BY DEF PhantomInv, FileInv, Chained, Ends
  <2>. PICK k : k = p - e
    OBVIOUS
  <2>2. file[p].at = Size(file[p]) /\ Size(file[p]) >= HeaderSize /\ Size(file[p]) \in Nat
    BY <1>0, Sizes1 DEF Ends
  <2>3. k \in 0..(file[p].at - 1) /\ k > 0 /\ p - k = e
    BY <2>2, <1>0
  <2>4. file[e] = [file[p] EXCEPT !.at = @ - k]
    BY <2>1, <2>3 DEF Begins
  <2>5. file[e].at = file[p].at - k /\ Size(file[e]) = Size(file[p])
    BY <2>4, <1>0 DEF Byte, Size
  <2>6. file[e].at = Size(file[e])
    BY DEF Ends
  <2>. QED BY <2>2, <2>3, <2>5, <2>6
<1>. QED BY <1>1, <1>2

LEMMA Joined ==
    ASSUME NEW s \in Seq(Fragments), Contiguous(s), NEW f \in Fragments,
           f.id = Last(s).id, f.frag = Last(s).frag + 1, f.from = Last(s).from + Last(s).len
    PROVE  /\ Append(s, f) \in Seq(Fragments) /\ Contiguous(Append(s, f))
           /\ Append(s, f)[1] = s[1] /\ Last(Append(s, f)) = f
<1>. PICK t : t = Append(s, f)
  OBVIOUS
<1>0. /\ Len(s) \in Nat /\ Len(s) >= 1 /\ Last(s) = s[Len(s)] /\ s[1].from = 0
      /\ \A i \in 1..Len(s) : s[i].id = s[1].id /\ s[i].frag = i
      /\ \A i \in 2..Len(s) : s[i].from = s[i - 1].from + s[i - 1].len
  BY DEF Contiguous, Last
<1>1. /\ t \in Seq(Fragments) /\ Len(t) = Len(s) + 1 /\ t[Len(s) + 1] = f
      /\ \A i \in 1..Len(s) : t[i] = s[i]
  OBVIOUS
<1>2. ASSUME NEW i \in 1..Len(t) PROVE t[i].id = t[1].id /\ t[i].frag = i
  <2>1. CASE i \in 1..Len(s)
    BY <1>0, <1>1, <2>1
  <2>2. CASE i = Len(s) + 1
    <3>1. Len(s) \in 1..Len(s) /\ 1 \in 1..Len(s)
      BY <1>0
    <3>2. Last(s).id = s[1].id /\ Last(s).frag = Len(s) /\ t[1] = s[1]
      BY <3>1, <1>0, <1>1
    <3>. QED BY <3>2, <2>2, <1>1
  <2>. QED BY <1>0, <1>1, <2>1, <2>2
<1>3. ASSUME NEW i \in 2..Len(t) PROVE t[i].from = t[i - 1].from + t[i - 1].len
  <2>1. CASE i \in 2..Len(s)
    <3>1. i \in 1..Len(s) /\ i - 1 \in 1..Len(s)
      BY <2>1, <1>0
    <3>. QED BY <3>1, <2>1, <1>0, <1>1
  <2>2. CASE i = Len(s) + 1
    <3>1. i - 1 = Len(s) /\ Len(s) \in 1..Len(s)
      BY <2>2, <1>0
    <3>. QED BY <3>1, <2>2, <1>0, <1>1
  <2>. QED BY <1>0, <1>1, <2>1, <2>2
<1>4. t[1] = s[1] /\ t # <<>> /\ Last(t) = f
  BY <1>0, <1>1 DEF Last
<1>5. Contiguous(t)
  BY <1>0, <1>2, <1>3, <1>4 DEF Contiguous
<1>. QED BY <1>1, <1>4, <1>5

(* The fragment that goes on with a record goes on with the one put        *)
(* together so far.                                                         *)
LEMMA Continued ==
    ASSUME PhantomInv, pc = "read", BufferSize >= HeaderSize, Accepts,
           ~(Header.type \in {"full", "first"}), rd.inFragment
    PROVE  /\ Append(rd.scratch, Fragment) \in Seq(Fragments) /\ Contiguous(Append(rd.scratch, Fragment))
           /\ Append(rd.scratch, Fragment)[1] = rd.scratch[1]
           /\ Last(Append(rd.scratch, Fragment)) = Fragment
           /\ Fragment.id = rd.scratch[1].id
<1>0. /\ rd.scratch \in Seq(Fragments) /\ Contiguous(rd.scratch)
      /\ \E e \in 1..rd.pos :
              /\ Ends(file[e]) /\ FragmentOf(file[e]) = Last(rd.scratch)
              /\ e # rd.pos => rd.pos < e + HeaderSize /\ (BufferSize >= HeaderSize \/ rd.eof)
  BY DEF PhantomInv, ReadInv, ScratchInv
<1>1. PICK e \in 1..rd.pos :
              /\ Ends(file[e]) /\ FragmentOf(file[e]) = Last(rd.scratch)
              /\ e # rd.pos => rd.pos < e + HeaderSize
  BY <1>0
<1>2. PICK p \in 1..rd.pos : Continues(file[p], Header) /\ Zeros(file, p + 1, rd.pos)
  BY Accepted
<1>3. /\ rd.pos \in Nat /\ rd.pos <= Len(file) /\ Len(file) \in Nat /\ HeaderSize > 0 /\ HeaderSize \in Nat
      /\ Fragment \in Fragments /\ Fragment = FragmentOf(Header)
  BY ReadTypes, Sizes1
<1>4. p = e
  <2>1. e \in 1..Len(file) /\ p \in 1..Len(file) /\ e <= rd.pos /\ p <= rd.pos
    BY <1>3
  <2>2. rd.pos < e + HeaderSize
    BY <1>1, <1>3
  <2>. QED BY <1>1, <1>2, <1>3, <2>1, <2>2, LastFragment DEF Continues
<1>5. /\ Fragment.id = Last(rd.scratch).id /\ Fragment.frag = Last(rd.scratch).frag + 1
      /\ Fragment.from = Last(rd.scratch).from + Last(rd.scratch).len
  <2>1. /\ Header.id = file[e].id /\ Header.frag = file[e].frag + 1
        /\ Header.from = file[e].from + file[e].len
    BY <1>2, <1>4 DEF Continues
  <2>. QED BY <2>1, <1>1, <1>3 DEF FragmentOf
<1>6. Last(rd.scratch).id = rd.scratch[1].id
  <2>1. Len(rd.scratch) \in 1..Len(rd.scratch)
    BY <1>0 DEF Contiguous
  <2>. QED BY <1>0, <2>1 DEF Contiguous, Last
<1>. QED BY <1>0, <1>3, <1>5, <1>6, Joined

LEMMA PhysicalCases ==
    ASSUME PhantomInv, pc = "read", BufferSize >= HeaderSize, NEW p \in PhysicalRecords
    PROVE  \/ p[1] \in {"eof", "bad"}
           \/ Accepts /\ p = <<Header.type, FALSE>>
<1>1. \/ p \in {<<"eof", FALSE>>, <<"bad", TRUE>>, <<"bad", FALSE>>}
      \/ Accepts /\ p = <<Header.type, FALSE>>
  <2>1. CASE ~IntactHeader
    BY <2>1 DEF PhysicalRecords
  <2>2. CASE IntactHeader /\ HeaderSize + Header.len > BufferSize
    BY <2>2 DEF PhysicalRecords
  <2>3. CASE IntactHeader /\ ~(HeaderSize + Header.len > BufferSize) /\ Accepts
    BY <2>3 DEF PhysicalRecords, Accepts
  <2>4. CASE IntactHeader /\ ~(HeaderSize + Header.len > BufferSize) /\ ~Accepts
    <3>1. HeaderSize + Header.len <= BufferSize
      BY <2>4, ReadTypes DEF BufferSize
    <3>. QED BY <2>4, <3>1 DEF PhysicalRecords, Accepts
  <2>. QED BY <2>1, <2>2, <2>3, <2>4
<1>2. ASSUME p \in {<<"eof", FALSE>>, <<"bad", TRUE>>, <<"bad", FALSE>>} PROVE p[1] \in {"eof", "bad"}
  <2>1. p = <<"eof", FALSE>> => p[1] = "eof"
    OBVIOUS
  <2>2. p = <<"bad", FALSE>> => p[1] = "bad"
    OBVIOUS
  <2>3. p = <<"bad", TRUE>> => p[1] = "bad"
    OBVIOUS
  <2>. QED BY <1>2, <2>1, <2>2, <2>3
<1>. QED BY <1>1, <1>2

(* buffer_ is dropped, and what was put together with it. *)
LEMMA DropPhantom ==
    ASSUME PhantomInv, pc = "read", BufferSize >= HeaderSize, UNCHANGED <<pc, writerVars, out>>,
           rd' = [rd EXCEPT !.pos = rd.end, !.scratch = <<>>, !.inFragment = FALSE]
    PROVE  PhantomInv'
<1>0. /\ UNCHANGED <<file, synced, block_offset, add, records>>
      /\ rd \in Reader /\ rd.pos \in Nat /\ rd.end \in Nat /\ rd.end <= Len(file) /\ rd.pos <= rd.end
      /\ Len(file) \in Nat
      /\ \A i \in 1..Len(out) : \E p \in 1..rd.pos : IsData(file[p]) /\ file[p].id = out[i][1].id
  BY ReadTypes, Sizes1 DEF writerVars, PhantomInv, ReadInv
<1>1. /\ rd' \in Reader /\ rd'.pos = rd.end /\ rd'.end = rd.end /\ rd'.inFragment = FALSE
  <2>1. <<>> \in Seq(Fragments)
    OBVIOUS
  <2>. QED BY <1>0, <2>1 DEF Reader
<1>2. \A i \in 1..Len(out) : \E p \in 1..rd'.pos : IsData(file[p]) /\ file[p].id = out[i][1].id
  <2>1. \A p \in 1..rd.pos : p \in 1..rd'.pos
    BY <1>0, <1>1
  <2>. QED BY <1>0, <2>1
<1>3. ReadInv'
  <2>1. rd'.pos \in 0..rd'.end /\ rd'.end \in 0..Len(file')
    BY <1>0, <1>1
  <2>. QED BY <1>0, <1>1, <1>2, <2>1 DEF ReadInv, ScratchInv
<1>4. FileInv' /\ AddInv'
  BY <1>0 DEF FileInv, AddInv, PhantomInv
<1>5. OutInv' /\ pc' \in PCs
  BY <1>0 DEF OutInv, PhantomInv, Whole
<1>. QED BY <1>3, <1>4, <1>5 DEF PhantomInv

(* What comes of a fragment that is accepted. *)
LEMMA AcceptPhantom ==
    ASSUME PhantomInv, pc = "read", BufferSize >= HeaderSize, UNCHANGED <<pc, writerVars>>, Accepts,
           Assemble(Header.type)
    PROVE  PhantomInv'
<1>. PICK z : z = rd.pos + Size(Header)
  OBVIOUS
<1>0. /\ UNCHANGED <<file, synced, block_offset, add, records>>
      /\ file \in Seq(Byte) /\ Len(file) \in Nat
      /\ rd \in Reader /\ rd.pos \in Nat /\ rd.end \in Nat /\ rd.end <= Len(file) /\ rd.pos <= rd.end
      /\ Header \in Byte /\ Fragment \in Fragments /\ Fragment = FragmentOf(Header)
      /\ Size(Header) = HeaderSize + Header.len
      /\ Size(Header) \in Nat /\ HeaderSize \in Nat /\ Header.len \in Nat
  BY ReadTypes, Sizes1 DEF writerVars
<1>1. /\ z \in (rd.pos + 1)..rd.end /\ IsData(Header) /\ Header.id \in 1..Len(records)
      /\ Ends(file[z]) /\ FragmentOf(file[z]) = Fragment
      /\ IF Header.type \in {"full", "first"}
         THEN /\ Header.frag = 1 /\ Header.from = 0
              /\ \A p \in 1..rd.pos : IsData(file[p]) => file[p].id < Header.id
         ELSE \E p \in 1..rd.pos : Continues(file[p], Header) /\ Zeros(file, p + 1, rd.pos)
      /\ Completes(Header) => Header.from + Header.len = records[Header.id].size
  BY Accepted
<1>2. /\ z \in Nat /\ z = rd.pos + HeaderSize + Header.len /\ z > rd.pos /\ z <= rd.end
      /\ z \in 1..z
  <2>1. z \in (rd.pos + 1)..rd.end /\ rd.pos \in Nat /\ rd.end \in Nat
    BY <1>0, <1>1
  <2>2. z \in Nat /\ z > rd.pos /\ z <= rd.end /\ z \in 1..z
    BY ONLY <2>1
  <2>3. rd.pos \in Nat /\ HeaderSize \in Nat /\ Header.len \in Nat /\ Size(Header) = HeaderSize + Header.len
    BY <1>0
  <2>4. z = rd.pos + HeaderSize + Header.len
    BY ONLY <2>3, z = rd.pos + Size(Header)
  <2>. QED BY <2>2, <2>4
<1>3. /\ \A i \in 1..Len(out) : \E p \in 1..rd.pos : IsData(file[p]) /\ file[p].id = out[i][1].id
      /\ ScratchInv
      /\ out \in Seq(Seq(Fragments)) /\ Len(out) \in Nat
      /\ \A i \in 1..Len(out) : Whole(out[i]) /\ out[i][1].id \in 1..Len(records)
      /\ \A i, j \in 1..Len(out) : i < j => out[i][1].id < out[j][1].id
  <2>1. /\ \A i \in 1..Len(out) : \E p \in 1..rd.pos : IsData(file[p]) /\ file[p].id = out[i][1].id
        /\ ScratchInv
    BY DEF PhantomInv, ReadInv
  <2>2. OutInv
    BY DEF PhantomInv
  <2>3. Len(out) \in Nat
    BY <2>2 DEF OutInv
  <2>. QED BY <2>1, <2>2, <2>3 DEF OutInv
<1>4. \A i \in 1..Len(out) : \E p \in 1..z : IsData(file[p]) /\ file[p].id = out[i][1].id
  <2>1. \A p \in 1..rd.pos : p \in 1..z
    BY <1>0, <1>2
  <2>. QED BY <1>3, <2>1
<1>5. IsData(file[z]) /\ file[z].id = Fragment.id /\ Fragment.id = Header.id
  BY <1>0, <1>1 DEF Ends, FragmentOf
<1>6. FileInv' /\ AddInv' /\ pc' \in PCs
  BY <1>0 DEF FileInv, AddInv, PhantomInv
\* nothing is read
<1>7. ASSUME out' = out PROVE OutInv'
  <2>1. ASSUME NEW i \in 1..Len(out) PROVE Whole(out[i])'
    BY <1>0, <1>3, <1>7, <2>1 DEF Whole
  <2>. QED BY <1>0, <1>3, <1>7, <2>1 DEF OutInv
\* a record is read
<1>8. ASSUME NEW r \in Seq(Fragments), out' = Append(out, r), Whole(r), r[1].id = Header.id,
             \A i \in 1..Len(out) : out[i][1].id < Header.id
      PROVE  /\ OutInv'
             /\ \A i \in 1..Len(out') : \E p \in 1..z : IsData(file[p]) /\ file[p].id = out'[i][1].id
  <2>1. /\ out' \in Seq(Seq(Fragments)) /\ Len(out') = Len(out) + 1 /\ out'[Len(out) + 1] = r
        /\ \A i \in 1..Len(out) : out'[i] = out[i]
    BY <1>3, <1>8
  <2>2. ASSUME NEW i \in 1..Len(out') PROVE i \in 1..Len(out) \/ i = Len(out) + 1
    BY <2>1, <1>3
  <2>3. ASSUME NEW i \in 1..Len(out') PROVE Whole(out'[i]) /\ out'[i][1].id \in 1..Len(records)
    <3>1. CASE i \in 1..Len(out)
      BY <3>1, <2>1, <1>3
    <3>2. CASE i = Len(out) + 1
      BY <3>2, <2>1, <1>1, <1>8
    <3>. QED BY <2>2, <3>1, <3>2
  <2>4. ASSUME NEW i \in 1..Len(out'), NEW j \in 1..Len(out'), i < j
        PROVE  out'[i][1].id < out'[j][1].id
    <3>1. i \in 1..Len(out) /\ out'[i] = out[i]
      <4>1. i \in 1..Len(out)
        BY ONLY <1>3, <2>1, i \in 1..Len(out'), j \in 1..Len(out'), i < j
      <4>. QED BY <4>1, <2>1
    <3>2. CASE j \in 1..Len(out)
      BY <3>1, <3>2, <2>1, <2>4, <1>3
    <3>3. CASE j = Len(out) + 1
      BY <3>1, <3>3, <2>1, <1>8
    <3>. QED BY <2>2, <3>2, <3>3
  <2>5. OutInv'
    <3>1. ASSUME NEW i \in 1..Len(out') PROVE Whole(out[i])' /\ out'[i][1].id \in 1..Len(records')
      BY <2>3, <1>0 DEF Whole
    <3>. QED BY <2>1, <2>4, <3>1 DEF OutInv
  <2>6. ASSUME NEW i \in 1..Len(out') PROVE \E p \in 1..z : IsData(file[p]) /\ file[p].id = out'[i][1].id
    <3>1. CASE i \in 1..Len(out)
      BY <3>1, <2>1, <1>4
    <3>2. CASE i = Len(out) + 1
      <4>1. out'[i][1].id = Header.id
        BY <3>2, <2>1, <1>8
      <4>. QED BY <4>1, <1>2, <1>5
    <3>. QED BY <2>2, <3>1, <3>2
  <2>. QED BY <2>5, <2>6
\* the reader goes on after the fragment
<1>9. ASSUME NEW s \in Seq(Fragments), NEW b \in BOOLEAN,
             rd' = [rd EXCEPT !.pos = @ + HeaderSize + Header.len, !.scratch = s, !.inFragment = b]
      PROVE  /\ rd' \in Reader /\ rd'.pos = z /\ rd'.end = rd.end /\ rd'.scratch = s /\ rd'.inFragment = b
             /\ rd'.pos \in 0..rd'.end /\ rd'.end \in 0..Len(file')
  <2>1. rd.pos + HeaderSize + Header.len = z
    BY <1>2
  <2>2. /\ rd' \in Reader /\ rd'.pos = z /\ rd'.end = rd.end /\ rd'.scratch = s /\ rd'.inFragment = b
    BY <1>0, <1>2, <1>9, <2>1 DEF Reader
  <2>. QED BY <2>2, <1>0, <1>2
\* scratch_ ends with the fragment
<1>10. ASSUME rd'.scratch \in Seq(Fragments), Contiguous(rd'.scratch), Last(rd'.scratch) = Fragment,
              rd'.scratch[1].id = Fragment.id, rd'.pos = z, out' = out,
              \A i \in 1..Len(out) : out[i][1].id < Fragment.id
       PROVE  ScratchInv'
  <2>1. z \in 1..rd'.pos /\ Ends(file'[z]) /\ FragmentOf(file'[z]) = Last(rd'.scratch) /\ z = rd'.pos
    BY <1>0, <1>1, <1>2, <1>10
  <2>2. rd'.scratch[1].id \in 1..Len(records')
    BY <1>0, <1>1, <1>5, <1>10
  <2>3. \A i \in 1..Len(out') : out'[i][1].id < rd'.scratch[1].id
    BY <1>10
  <2>. QED BY <2>1, <2>2, <2>3, <1>10 DEF ScratchInv
<1>11. ASSUME \A i \in 1..Len(out') : \E p \in 1..z : IsData(file[p]) /\ file[p].id = out'[i][1].id,
              rd' \in Reader, rd'.pos = z, rd'.pos \in 0..rd'.end, rd'.end \in 0..Len(file'),
              rd'.inFragment => ScratchInv', OutInv'
       PROVE  PhantomInv'
  <2>1. ScratchInv'
    BY <1>11 DEF ScratchInv
  <2>2. ReadInv'
    BY <1>0, <1>11, <2>1 DEF ReadInv
  <2>. QED BY <2>2, <1>6, <1>11 DEF PhantomInv
<1>12. Header.type \in {"full", "first", "middle", "last"}
  BY <1>0, <1>1 DEF Byte, IsData
<1>13. <<Fragment>> \in Seq(Fragments) /\ Len(<<Fragment>>) = 1 /\ <<Fragment>>[1] = Fragment /\ Last(<<Fragment>>) = Fragment
  BY <1>0 DEF Last
<1>14. <<>> \in Seq(Fragments)
  OBVIOUS
\* older records come before
<1>15. ASSUME Header.type \in {"full", "first"}
       PROVE  /\ Contiguous(<<Fragment>>)
              /\ \A i \in 1..Len(out) : out[i][1].id < Header.id
  <2>1. Header.frag = 1 /\ Header.from = 0 /\ \A p \in 1..rd.pos : IsData(file[p]) => file[p].id < Header.id
    BY <1>1, <1>15
  <2>2. Fragment.frag = 1 /\ Fragment.from = 0
    BY <2>1, <1>0 DEF FragmentOf
  <2>3. Contiguous(<<Fragment>>)
    BY <2>2, <1>13 DEF Contiguous
  <2>. QED BY <2>1, <2>3, <1>3
<1>16. ASSUME NEW r \in Seq(Fragments), Contiguous(r), Last(r) = Fragment, r[1].id = Fragment.id,
              Completes(Header)
       PROVE  Whole(r)
  <2>1. Last(r).from + Last(r).len = records[r[1].id].size
    BY <1>16, <1>1, <1>5, <1>0 DEF FragmentOf
  <2>. QED BY <2>1, <1>16 DEF Contiguous, Whole
<1>17. CASE Header.type = "full"
  <2>1. /\ rd' = [rd EXCEPT !.pos = @ + HeaderSize + Header.len, !.scratch = <<>>, !.inFragment = FALSE]
        /\ out' = Append(out, <<Fragment>>)
    BY <1>17 DEF Assemble
  <2>2. Whole(<<Fragment>>)
    BY <1>13, <1>15, <1>16, <1>17 DEF Completes
  <2>3. /\ OutInv'
        /\ \A i \in 1..Len(out') : \E p \in 1..z : IsData(file[p]) /\ file[p].id = out'[i][1].id
    BY <1>8, <1>5, <1>13, <1>15, <1>17, <2>1, <2>2
  <2>4. /\ rd' \in Reader /\ rd'.pos = z /\ rd'.inFragment = FALSE
        /\ rd'.pos \in 0..rd'.end /\ rd'.end \in 0..Len(file')
    BY <1>9, <1>14, <2>1
  <2>. QED BY <1>11, <2>3, <2>4
<1>18. CASE Header.type = "first"
  <2>1. /\ rd' = [rd EXCEPT !.pos = @ + HeaderSize + Header.len, !.scratch = <<Fragment>>, !.inFragment = TRUE]
        /\ out' = out
    BY <1>18 DEF Assemble, StartScratch
  <2>2. /\ rd' \in Reader /\ rd'.pos = z /\ rd'.scratch = <<Fragment>>
        /\ rd'.pos \in 0..rd'.end /\ rd'.end \in 0..Len(file')
    BY <1>9, <1>13, <2>1
  <2>3. ScratchInv'
    BY <1>10, <1>5, <1>13, <1>15, <1>18, <2>1, <2>2
  <2>. QED BY <1>4, <1>7, <1>11, <2>1, <2>2, <2>3
<1>19. ASSUME Header.type \in {"middle", "last"}, rd.inFragment
       PROVE  /\ Append(rd.scratch, Fragment) \in Seq(Fragments) /\ Contiguous(Append(rd.scratch, Fragment))
              /\ Append(rd.scratch, Fragment)[1].id = Fragment.id
              /\ Last(Append(rd.scratch, Fragment)) = Fragment
              /\ \A i \in 1..Len(out) : out[i][1].id < Fragment.id
  <2>1. /\ Append(rd.scratch, Fragment) \in Seq(Fragments) /\ Contiguous(Append(rd.scratch, Fragment))
        /\ Append(rd.scratch, Fragment)[1] = rd.scratch[1]
        /\ Last(Append(rd.scratch, Fragment)) = Fragment
        /\ Fragment.id = rd.scratch[1].id
    BY <1>19, Continued
  <2>2. \A i \in 1..Len(out) : out[i][1].id < rd.scratch[1].id
    BY <1>3, <1>19 DEF ScratchInv
  <2>. QED BY <2>1, <2>2
<1>20. CASE Header.type = "middle" /\ rd.inFragment
  <2>1. /\ rd' = [rd EXCEPT !.pos = @ + HeaderSize + Header.len, !.scratch = Append(rd.scratch, Fragment)]
        /\ out' = out
    BY <1>20 DEF Assemble
  <2>2. rd' = [rd EXCEPT !.pos = @ + HeaderSize + Header.len, !.scratch = Append(rd.scratch, Fragment),
                         !.inFragment = rd.inFragment]
    BY <2>1, <1>0 DEF Reader
  <2>3. rd.inFragment \in BOOLEAN
    BY <1>0 DEF Reader
  <2>4. /\ rd' \in Reader /\ rd'.pos = z /\ rd'.scratch = Append(rd.scratch, Fragment)
        /\ rd'.pos \in 0..rd'.end /\ rd'.end \in 0..Len(file')
    BY <1>9, <1>19, <1>20, <2>2, <2>3
  <2>5. ScratchInv'
    BY <1>10, <1>19, <1>20, <2>1, <2>4
  <2>. QED BY <1>4, <1>7, <1>11, <2>1, <2>4, <2>5
<1>21. CASE Header.type = "middle" /\ ~rd.inFragment
  <2>1. /\ rd' = [rd EXCEPT !.pos = @ + HeaderSize + Header.len]
        /\ out' = out
    BY <1>21 DEF Assemble
  <2>2. rd.inFragment \in BOOLEAN /\ rd.scratch \in Seq(Fragments)
    BY <1>0 DEF Reader
  <2>3. rd' = [rd EXCEPT !.pos = @ + HeaderSize + Header.len, !.scratch = rd.scratch,
                         !.inFragment = rd.inFragment]
    BY <2>1, <1>0 DEF Reader
  <2>4. /\ rd' \in Reader /\ rd'.pos = z /\ rd'.inFragment = rd.inFragment
        /\ rd'.pos \in 0..rd'.end /\ rd'.end \in 0..Len(file')
    BY <1>9, <2>2, <2>3
  <2>. QED BY <1>4, <1>7, <1>11, <1>21, <2>1, <2>4
<1>22. CASE Header.type = "last"
  <2>1. /\ rd' = [rd EXCEPT !.pos = @ + HeaderSize + Header.len, !.scratch = <<>>, !.inFragment = FALSE]
        /\ out' = IF rd.inFragment THEN Append(out, Append(rd.scratch, Fragment)) ELSE out
    BY <1>22 DEF Assemble
  <2>2. /\ rd' \in Reader /\ rd'.pos = z /\ rd'.inFragment = FALSE
        /\ rd'.pos \in 0..rd'.end /\ rd'.end \in 0..Len(file')
    BY <1>9, <1>14, <2>1
  <2>3. CASE rd.inFragment
    <3>1. Whole(Append(rd.scratch, Fragment))
      BY <1>16, <1>19, <1>22, <2>3 DEF Completes
    <3>2. /\ OutInv'
          /\ \A i \in 1..Len(out') : \E p \in 1..z : IsData(file[p]) /\ file[p].id = out'[i][1].id
      BY <1>8, <1>5, <1>19, <1>22, <2>1, <2>3, <3>1
    <3>. QED BY <1>11, <2>2, <3>2
  <2>4. CASE ~rd.inFragment
    BY <1>4, <1>7, <1>11, <2>1, <2>2, <2>4
  <2>. QED BY <2>3, <2>4
<1>. QED BY <1>12, <1>17, <1>18, <1>20, <1>21, <1>22

LEMMA ReadPhantom ==
    ASSUME PhantomInv, ReadRecord
    PROVE  PhantomInv'
<1>0. pc = "read" /\ BufferSize >= HeaderSize /\ UNCHANGED <<pc, writerVars>>
  BY DEF ReadRecord
<1>1. PICK p \in PhysicalRecords : p[1] # "eof" /\ Assemble(p[1])
  BY DEF ReadRecord
<1>2. CASE p[1] = "bad"
  <2>1. /\ rd' = [rd EXCEPT !.pos = rd.end, !.scratch = <<>>, !.inFragment = FALSE]
        /\ out' = out
    BY <1>1, <1>2 DEF Assemble, DropBuffer
  <2>. QED BY <1>0, <2>1, DropPhantom
<1>3. CASE Accepts /\ p = <<Header.type, FALSE>>
  BY <1>0, <1>1, <1>3, AcceptPhantom
<1>. QED BY <1>0, <1>1, <1>2, <1>3, PhysicalCases

LEMMA EndPhantom ==
    ASSUME PhantomInv, ReadEof \/ ReuseLog
    PROVE  PhantomInv'
<1>0. /\ UNCHANGED <<file, synced, add, records, out>> /\ pc' \in {"recovered", "idle"}
      /\ block_offset' \in {block_offset, Len(file) % BlockSize}
      /\ rd' \in {rd, NewReader}
  BY DEF ReadEof, ReuseLog, writerVars, readerVars
<1>1. block_offset' \in 0..BlockSize
  <2>1. Len(file) \in Nat /\ block_offset \in 0..BlockSize
    BY DEF PhantomInv, FileInv, AddInv
  <2>2. Len(file) % BlockSize \in 0..BlockSize
    BY <2>1, AlignedPart
  <2>. QED BY <1>0, <2>1, <2>2
<1>2. rd' \in Reader
  <2>1. NewReader \in Reader
    BY DEF NewReader, Reader
  <2>. QED BY <1>0, <2>1 DEF PhantomInv, ReadInv
<1>3. FileInv' /\ AddInv'
  BY <1>0, <1>1 DEF FileInv, AddInv, PhantomInv
<1>4. OutInv'
  BY <1>0 DEF OutInv, PhantomInv, Whole
<1>5. ReadInv' /\ pc' \in PCs
  BY <1>0, <1>2 DEF ReadInv, PCs
<1>. QED BY <1>3, <1>4, <1>5 DEF PhantomInv

LEMMA PhantomStays ==
    ASSUME PhantomInv, UNCHANGED vars
    PROVE  PhantomInv'
<1>0. UNCHANGED <<pc, file, synced, block_offset, add, records, rd, out>>
  BY DEF vars
<1>1. FileInv' /\ AddInv' /\ pc' \in PCs
  BY <1>0 DEF FileInv, AddInv, PhantomInv
<1>2. OutInv'
  BY <1>0 DEF OutInv, PhantomInv, Whole
<1>3. ReadInv'
  BY <1>0 DEF ReadInv, ScratchInv, PhantomInv, BufferSize
<1>. QED BY <1>1, <1>2, <1>3 DEF PhantomInv

LEMMA PhantomInit == Init => PhantomInv
<1>. SUFFICES ASSUME Init PROVE PhantomInv
  OBVIOUS
<1>0. /\ pc = "idle" /\ file = <<>> /\ synced = 0 /\ block_offset = 0
      /\ records = <<>> /\ rd = NewReader /\ out = <<>>
  BY DEF Init
<1>1. /\ <<>> \in Seq(Byte) /\ <<>> \in Seq(Record) /\ <<>> \in Seq(Seq(Fragments))
      /\ <<>> \in Seq(Fragments) /\ Len(<<>>) = 0
  OBVIOUS
<1>2. FileInv
  BY <1>0, <1>1 DEF FileInv
<1>3. AddInv /\ pc \in PCs
  BY <1>0, Sizes1 DEF AddInv, PCs
<1>4. OutInv
  BY <1>0, <1>1 DEF OutInv
<1>5. ReadInv
  <2>1. rd \in Reader
    BY <1>0, <1>1 DEF NewReader, Reader
  <2>. QED BY <1>0, <2>1 DEF ReadInv
<1>. QED BY <1>2, <1>3, <1>4, <1>5 DEF PhantomInv

LEMMA PhantomNext == PhantomInv /\ [Next]_vars => PhantomInv'
<1>. SUFFICES ASSUME PhantomInv, [Next]_vars PROVE PhantomInv'
  OBVIOUS
<1>1. CASE \E n \in Sizes : AddRecord(n)
  BY <1>1, AddPhantom
<1>2. CASE EmitPhysicalRecord
  BY <1>2, EmitPhantom
<1>3. CASE Sync
  BY <1>3, SyncPhantom
<1>4. CASE Crash
  BY <1>4, CrashPhantom
<1>5. CASE ReadBlock
  BY <1>5, ReadBlockPhantom
<1>6. CASE ReadRecord
  BY <1>6, ReadPhantom
<1>7. CASE ReadEof \/ ReuseLog
  BY <1>7, EndPhantom
<1>8. CASE UNCHANGED vars
  BY <1>8, PhantomStays
<1>. QED BY <1>1, <1>2, <1>3, <1>4, <1>5, <1>6, <1>7, <1>8 DEF Next

(* Whatever writes fail, whatever crashes cut off and whatever was appended *)
(* after a recovery, Reader::ReadRecord returns records that AddRecord was  *)
(* given, each whole, none twice and in their order.                        *)
THEOREM NothingPutTogether == Spec => []NoPhantomRecords
<1>1. PhantomInv => NoPhantomRecords
  BY DEF PhantomInv, OutInv, NoPhantomRecords
<1>. QED BY <1>1, PhantomInit, PhantomNext, PTL DEF Spec

-----------------------------------------------------------------------------
(***************************************************************************)
(* A file without failures: the writer                                     *)
(***************************************************************************)
LEMMA ZerosDangle ==
    ASSUME NEW f, NEW m \in Nat, NEW n \in Nat, m <= n, \A p \in (m + 1)..n : ~IsData(f[p])
    PROVE  Dangling(f, n) <=> Dangling(f, m)
<1>1. ASSUME Dangling(f, n) PROVE Dangling(f, m)
  <2>1. PICK p \in 1..n : GoesOn(f[p]) /\ Zeros(f, p + 1, n)
    BY <1>1 DEF Dangling
  <2>2. p \in 1..m
    BY <2>1 DEF GoesOn, IsData
  <2>. QED BY <2>1, <2>2 DEF Dangling, Zeros
<1>2. ASSUME Dangling(f, m) PROVE Dangling(f, n)
  <2>1. PICK p \in 1..m : GoesOn(f[p]) /\ Zeros(f, p + 1, m)
    BY <1>2 DEF Dangling
  <2>2. p \in 1..n /\ \A k \in (p + 1)..n : k \in (p + 1)..m \/ k \in (m + 1)..n
    OBVIOUS
  <2>. QED BY <2>1, <2>2 DEF Dangling, Zeros
<1>. QED BY <1>1, <1>2

LEMMA DataDangles ==
    ASSUME NEW f, NEW n \in Nat, n >= 1, IsData(f[n])
    PROVE  Dangling(f, n) <=> GoesOn(f[n])
<1>1. ASSUME Dangling(f, n) PROVE GoesOn(f[n])
  <2>1. PICK p \in 1..n : GoesOn(f[p]) /\ Zeros(f, p + 1, n)
    BY <1>1 DEF Dangling
  <2>2. p = n
    <3>1. ~(n \in (p + 1)..n)
      BY <2>1 DEF Zeros
    <3>. QED BY <3>1
  <2>. QED BY <2>1, <2>2
<1>2. ASSUME GoesOn(f[n]) PROVE Dangling(f, n)
  <2>1. n \in 1..n /\ Zeros(f, n + 1, n)
    BY DEF Zeros
  <2>. QED BY <2>1, <1>2 DEF Dangling
<1>. QED BY <1>1, <1>2

(* A whole clean file stays clean whatever follows. *)
LEMMA CleanWhole ==
    ASSUME NEW f \in Seq(Byte), NEW g \in Seq(Byte), NEW n \in Nat, n <= Len(f), n <= Len(g),
           \A p \in 1..n : f[p] = g[p], Clean(f, n), n > 0 => Ends(f[n]), NEW q \in 1..n, NEW l \in Nat
    PROVE  /\ ~IsData(g[q]) => CleanZero(g, l, q)
           /\ IsData(g[q]) /\ g[q].at = 1 => CleanHead(g, l, q) /\ Boundary(g, q - 1)
<1>0. /\ g[q] = f[q] /\ f[q] \in Byte /\ q - 1 \in Nat /\ q - 1 <= n /\ Ends(f[n])
      /\ \A p \in 1..(q - 1) : f[p] = g[p]
  OBVIOUS
<1>1. ASSUME ~IsData(g[q]) PROVE CleanZero(g, l, q)
  <2>1. PICK a \in q..(q + HeaderSize - 2) : Aligned(a) /\ \A p \in q..a : p <= n => ~IsData(f[p])
    BY <1>0, <1>1 DEF Clean, CleanZero
  <2>2. a < n
    <3>1. ~(n \in q..a)
      BY <2>1, <1>0 DEF Ends
    <3>. QED BY <3>1, Sizes1
  <2>3. \A p \in q..a : ~IsData(g[p])
    <3>. SUFFICES ASSUME NEW p \in q..a PROVE ~IsData(g[p])
      OBVIOUS
    <3>1. p \in 1..n /\ p <= n
      BY <2>2, Sizes1
    <3>. QED BY <3>1, <2>1
  <2>. QED BY <2>1, <2>3 DEF CleanZero
<1>2. ASSUME IsData(g[q]), g[q].at = 1 PROVE CleanHead(g, l, q) /\ Boundary(g, q - 1)
  <2>1. /\ \E a \in 0..(q - 1) : Aligned(a) /\ q - 1 + Size(f[q]) <= a + BlockSize
        /\ \A i \in 1..Size(f[q]) : q + i - 1 <= n => f[q + i - 1] = [f[q] EXCEPT !.at = i]
        /\ f[q].type \in {"full", "first"} => ~Dangling(f, q - 1)
        /\ Boundary(f, q - 1)
    BY <1>0, <1>2 DEF Clean, CleanHead
  <2>2. Size(f[q]) \in Nat /\ Size(f[q]) >= 1
    BY <1>0, Sizes1
  <2>3. q + Size(f[q]) - 1 <= n
    <3>. SUFFICES ASSUME n < q + Size(f[q]) - 1 PROVE FALSE
      BY <2>2
    <3>. PICK i : i = n - q + 1
      OBVIOUS
    <3>. PICK s : s = Size(f[q])
      OBVIOUS
    <3>0. n \in Nat /\ q \in 1..n /\ s \in Nat /\ n < q + s - 1 /\ i = n - q + 1
      BY <2>2
    <3>1. i \in 1..s /\ q + i - 1 = n /\ q + i - 1 <= n /\ i # s
      BY ONLY <3>0
    <3>2. f[n] = [f[q] EXCEPT !.at = i]
      <4>1. f[q + i - 1] = [f[q] EXCEPT !.at = i]
        BY <2>1, <3>1
      <4>. QED BY <4>1, <3>1
    <3>3. f[n].at = i /\ Size(f[n]) = Size(f[q])
      BY <3>2, <1>0 DEF Byte, Size
    <3>. QED BY <1>0, <3>1, <3>3 DEF Ends
  <2>4. \A i \in 1..Size(g[q]) : g[q + i - 1] = [g[q] EXCEPT !.at = i]
    <3>. SUFFICES ASSUME NEW i \in 1..Size(g[q]) PROVE g[q + i - 1] = [g[q] EXCEPT !.at = i]
      OBVIOUS
    <3>1. q + i - 1 \in 1..n /\ q + i - 1 <= n /\ i \in 1..Size(f[q])
      BY <2>2, <2>3, <1>0
    <3>. QED BY <3>1, <2>1, <1>0
  <2>5. Dangling(f, q - 1) <=> Dangling(g, q - 1)
    BY <1>0, DanglingSame
  <2>6. CleanHead(g, l, q)
    BY <1>0, <2>1, <2>4, <2>5 DEF CleanHead
  <2>7. Boundary(g, q - 1)
    BY <1>0, <2>1 DEF Boundary
  <2>. QED BY <2>6, <2>7
<1>. QED BY <1>1, <1>2

LEMMA EmitClean ==
    ASSUME PhantomInv, SoundInv, Sound, pc = "add"
    PROVE  /\ Clean(After(Len(FragmentBytes)), Len(file) + Len(FragmentBytes))
           /\ \E a \in 0..(Len(file) + Len(FragmentBytes)) :
                 /\ Aligned(a)
                 /\ Len(file) + Len(FragmentBytes) = a + (FragmentOffset + HeaderSize + FragmentLength)
<1>. PICK f : f = After(Len(FragmentBytes))
  OBVIOUS
<1>. PICK n : n = Len(file) + Len(FragmentBytes)
  OBVIOUS
<1>. PICK b : b = Len(file) + Trailer
  OBVIOUS
<1>0. /\ Len(file) \in Nat /\ file \in Seq(Byte) /\ Trailer \in Nat /\ Trailer < HeaderSize
      /\ FragmentLength \in Nat /\ HeaderSize \in Nat /\ HeaderSize > 0 /\ BlockSize \in Nat
      /\ Len(FragmentBytes) = Trailer + HeaderSize + FragmentLength
      /\ FragmentOffset + HeaderSize + FragmentLength \in 0..BlockSize
      /\ Trailer = IF Leftover < HeaderSize THEN Leftover ELSE 0
      /\ FragmentOffset = IF Leftover < HeaderSize THEN 0 ELSE block_offset
      /\ block_offset \in 0..BlockSize
  <2>1. file \in Seq(Byte) /\ Len(file) \in Nat /\ block_offset \in 0..BlockSize
    BY DEF PhantomInv, FileInv, AddInv
  <2>2. /\ Trailer \in Nat /\ Trailer < HeaderSize /\ FragmentLength \in Nat
        /\ Len(FragmentBytes) = Trailer + HeaderSize + FragmentLength
        /\ FragmentOffset + HeaderSize + FragmentLength \in 0..BlockSize
        /\ Trailer = IF Leftover < HeaderSize THEN Leftover ELSE 0
        /\ FragmentOffset = IF Leftover < HeaderSize THEN 0 ELSE block_offset
    BY NewBytes
  <2>. QED BY <2>1, <2>2, Sizes1
<1>1. /\ Len(FragmentBytes) \in 0..Len(FragmentBytes) /\ b \in Nat /\ n \in Nat
      /\ n = b + HeaderSize + FragmentLength
  BY <1>0
<1>2. /\ f \in Seq(Byte) /\ Len(f) = n
      /\ \A q \in 1..Len(file) : f[q] = file[q]
      /\ \A i \in 1..Trailer : f[Len(file) + i] = Zero
      /\ \A i \in 1..(HeaderSize + FragmentLength) : f[b + i] = NewByte(i)
  <2>1. /\ f \in Seq(Byte) /\ Len(f) = n
        /\ \A q \in 1..Len(file) : f[q] = file[q]
        /\ \A i \in 1..Trailer : i <= Len(FragmentBytes) => f[Len(file) + i] = Zero
        /\ \A i \in 1..(HeaderSize + FragmentLength) :
              Trailer + i <= Len(FragmentBytes) => f[Len(file) + (Trailer + i)] = NewByte(i)
    BY <1>1, AfterFile
  <2>2. \A i \in 1..Trailer : i <= Len(FragmentBytes)
    BY <1>0
  <2>3. \A i \in 1..(HeaderSize + FragmentLength) :
            Trailer + i <= Len(FragmentBytes) /\ Len(file) + (Trailer + i) = b + i
    BY <1>0
  <2>. QED BY <2>1, <2>2, <2>3
<1>3. /\ Clean(file, Len(file)) /\ (Len(file) > 0 => Ends(file[Len(file)]))
      /\ add.frags = 0 => ~Dangling(file, Len(file))
      /\ \E a \in 0..Len(file) : Aligned(a) /\ Len(file) = a + block_offset
  <2>1. Len(file) > 0 => file # <<>>
    OBVIOUS
  <2>2. add.frags \in Nat
    BY NewBytes
  <2>. QED BY <2>1, <2>2, <1>0 DEF SoundInv, Writing, Last
<1>4. PICK a \in 0..b : Aligned(a) /\ b = a + FragmentOffset
  <2>1. PICK a0 \in 0..Len(file) : Aligned(a0) /\ Len(file) = a0 + block_offset
    BY <1>3
  <2>2. CASE Leftover < HeaderSize
    <3>1. b = a0 + BlockSize /\ FragmentOffset = 0
      BY <2>1, <2>2, <1>0 DEF Leftover
    <3>2. Aligned(a0 + BlockSize)
      BY <2>1, AlignedNext
    <3>. QED BY <3>1, <3>2, <1>0
  <2>3. CASE ~(Leftover < HeaderSize)
    BY <2>1, <2>3, <1>0
  <2>. QED BY <2>2, <2>3
\* the trailer ends with its block
<1>5. Trailer > 0 => Aligned(b) /\ b > 1
  <2>. SUFFICES ASSUME Trailer > 0 PROVE Aligned(b) /\ b > 1
    OBVIOUS
  <2>1. FragmentOffset = 0 /\ block_offset > 0
    BY <1>0, Sizes1 DEF Leftover
  <2>2. Len(file) > 0
    BY <1>3, <2>1, <1>0
  <2>. QED BY <2>1, <2>2, <1>0, <1>4
<1>6. \A p \in (Len(file) + 1)..b : ~IsData(f[p])
  <2>. SUFFICES ASSUME NEW p \in (Len(file) + 1)..b PROVE ~IsData(f[p])
    OBVIOUS
  <2>. PICK i : i = p - Len(file)
    OBVIOUS
  <2>1. i \in 1..Trailer /\ p = Len(file) + i
    BY <1>0
  <2>. QED BY <2>1, <1>2 DEF IsData, Zero
<1>7. ASSUME NEW q \in 1..n
      PROVE  /\ ~IsData(f[q]) => CleanZero(f, n, q)
             /\ IsData(f[q]) /\ f[q].at = 1 => CleanHead(f, n, q) /\ Boundary(f, q - 1)
  <2>1. CASE q \in 1..Len(file)
    <3>1. Len(file) <= Len(f) /\ \A p \in 1..Len(file) : file[p] = f[p]
      BY <1>0, <1>1, <1>2
    <3>2. file \in Seq(Byte) /\ f \in Seq(Byte) /\ Len(file) \in Nat /\ n \in Nat /\ Len(file) <= Len(file)
      BY <1>0, <1>1, <1>2
    <3>3. Clean(file, Len(file)) /\ (Len(file) > 0 => Ends(file[Len(file)]))
      BY <1>3
    <3>. QED BY ONLY <3>1, <3>2, <3>3, <2>1, CleanWhole
  <2>2. CASE q \in (Len(file) + 1)..b
    <3>1. ~IsData(f[q])
      BY <1>6, <2>2
    <3>2. Aligned(b) /\ b \in q..(q + HeaderSize - 2) /\ \A p \in q..b : ~IsData(f[p])
      BY <1>0, <1>5, <1>6, <2>2
    <3>. QED BY <3>1, <3>2 DEF CleanZero
  <2>3. CASE q \in (b + 1)..n
    <3>. PICK i : i = q - b
      OBVIOUS
    <3>1. i \in 1..(HeaderSize + FragmentLength) /\ q = b + i
      BY <1>1, <2>3, <1>0
    <3>2. f[q] = NewByte(i)
      BY <3>1, <1>2
    <3>3. /\ IsData(f[q]) /\ f[q].at = i /\ f[q].type = FragmentType
          /\ Size(f[q]) = HeaderSize + FragmentLength
      <4>1. FragmentType \in {"full", "first", "middle", "last"}
        BY NewBytes
      <4>. QED BY ONLY <4>1, <3>2 DEF NewByte, IsData, Size
    <3>. SUFFICES ASSUME i = 1 PROVE CleanHead(f, n, q) /\ Boundary(f, q - 1)
      BY <3>3
    <3>4. q - 1 = b
      BY <3>1, <1>1
    <3>5. a \in 0..(q - 1) /\ Aligned(a) /\ q - 1 + Size(f[q]) <= a + BlockSize
      BY <3>3, <3>4, <1>0, <1>4
    <3>6. ASSUME NEW j \in 1..Size(f[q]) PROVE f[q + j - 1] = [f[q] EXCEPT !.at = j]
      <4>1. j \in 1..(HeaderSize + FragmentLength) /\ q + j - 1 = b + j
        BY <3>3, <3>4, <1>1, <3>1
      <4>2. f[q + j - 1] = NewByte(j)
        BY <4>1, <1>2
      <4>. QED BY <4>2, <3>2 DEF NewByte
    <3>7. FragmentType \in {"full", "first"} => ~Dangling(f, q - 1)
      <4>. SUFFICES ASSUME FragmentType \in {"full", "first"} PROVE ~Dangling(f, b)
        BY <3>4
      <4>1. ~Dangling(file, Len(file))
        BY <1>3, NewBytes
      <4>2. Dangling(file, Len(file)) <=> Dangling(f, Len(file))
        BY <1>0, <1>2, DanglingSame
      <4>3. Dangling(f, b) <=> Dangling(f, Len(file))
        <5>1. Len(file) \in Nat /\ b \in Nat /\ Len(file) <= b
          BY <1>0, <1>1
        <5>. QED BY ONLY <5>1, <1>6, ZerosDangle
      <4>. QED BY <4>1, <4>2, <4>3
    <3>8. Boundary(f, b)
      <4>1. CASE Trailer > 0
        <5>1. b \in (Len(file) + 1)..b
          BY <4>1, <1>0
        <5>. QED BY <5>1, <1>6 DEF Boundary
      <4>2. CASE Trailer = 0
        <5>1. b = Len(file)
          BY <4>2, <1>0
        <5>2. CASE Len(file) = 0
          BY <5>1, <5>2 DEF Boundary
        <5>3. CASE Len(file) > 0
          <6>1. Len(file) \in 1..Len(file) /\ Ends(file[Len(file)])
            BY <5>3, <1>0, <1>3
          <6>. QED BY <6>1, <5>1, <1>2 DEF Boundary
        <5>. QED BY <5>2, <5>3, <1>0
      <4>. QED BY <4>1, <4>2, <1>0
    <3>. QED BY <3>3, <3>4, <3>5, <3>6, <3>7, <3>8 DEF CleanHead
  <2>4. q \in 1..Len(file) \/ q \in (Len(file) + 1)..b \/ q \in (b + 1)..n
    BY <1>0, <1>1
  <2>. QED BY <2>1, <2>2, <2>3, <2>4
<1>8. Clean(f, n)
  BY <1>2, <1>1, <1>7 DEF Clean
<1>9. a \in 0..n /\ n = a + (FragmentOffset + HeaderSize + FragmentLength)
  <2>1. FragmentOffset \in Nat
    BY <1>0
  <2>. QED BY <2>1, <1>0, <1>1, <1>4
<1>. QED BY <1>8, <1>9, <1>4

LEMMA EmitRecords ==
    ASSUME PhantomInv, EmitPhysicalRecord
    PROVE  /\ Len(records) \in Nat /\ Len(records) >= 1 /\ Len(records') = Len(records)
           /\ records' \in Seq(Record)
           /\ \A i \in 1..Len(records) : i # Len(records) => records'[i] = records[i]
           /\ \/ /\ pc' = "add" /\ records' = records /\ add.left > FragmentLength
                 /\ file' = After(Len(FragmentBytes))
              \/ /\ pc' = "added" /\ FragmentLength = add.left /\ file' = After(Len(FragmentBytes))
                 /\ records'[Len(records)].status = "ok" /\ records'[Len(records)].end = Len(file')
              \/ /\ pc' = "idle"
                 /\ records'[Len(records)].status = "failed" /\ records'[Len(records)].end = Len(file')
<1>0. /\ pc = "add" /\ records \in Seq(Record) /\ Len(records) \in Nat /\ Len(records) >= 1
      /\ FragmentLength \in 0..add.left /\ add.left \in Nat /\ Len(records') = Len(records)
      /\ records' \in Seq(Record)
  <2>1. pc = "add" /\ records \in Seq(Record) /\ records' \in Seq(Record) /\ Len(records') = Len(records)
    BY EmitFile DEF EmitPhysicalRecord, PhantomInv, FileInv, SameSizes
  <2>2. /\ Len(records) \in Nat /\ Len(records) >= 1 /\ FragmentLength \in 0..add.left
        /\ add.left \in 0..Last(records).size /\ Last(records) \in Record
    BY <2>1, NewBytes
  <2>3. Last(records).size \in Nat
    BY <2>2 DEF Record
  <2>. QED BY <2>1, <2>2, <2>3
<1>1. ASSUME NEW s \in {"ok", "failed"}, Returns(s)
      PROVE  /\ pc' = IF s = "ok" THEN "added" ELSE "idle"
             /\ records'[Len(records)].status = s /\ records'[Len(records)].end = Len(file')
             /\ \A i \in 1..Len(records) : i # Len(records) => records'[i] = records[i]
  <2>1. pc' = IF s = "ok" THEN "added" ELSE "idle"
    BY <1>1 DEF Returns
  <2>. DEFINE r == [records[Len(records)] EXCEPT !.status = s, !.end = Len(file')]
  <2>2. records' = [records EXCEPT ![Len(records)] = r]
    BY <1>1 DEF Returns
  <2>3. records[Len(records)] \in Record
    BY <1>0
  <2>4. r.status = s /\ r.end = Len(file')
    BY <2>3 DEF Record
  <2>. HIDE DEF r
  <2>5. \A i \in 1..Len(records) : records'[i] = IF i = Len(records) THEN r ELSE records[i]
    BY <2>2, <1>0
  <2>. QED BY <1>0, <2>1, <2>4, <2>5
<1>2. CASE /\ file' = After(Len(FragmentBytes)) /\ add.left > FragmentLength
           /\ UNCHANGED <<pc, records>>
  BY <1>0, <1>2
<1>3. CASE /\ file' = After(Len(FragmentBytes)) /\ ~(add.left > FragmentLength)
           /\ Returns("ok")
  <2>1. FragmentLength = add.left
    BY <1>0, <1>3
  <2>. QED BY <2>1, <1>0, <1>1, <1>3
<1>4. CASE Returns("failed")
  BY <1>0, <1>1, <1>4
<1>. QED BY <1>2, <1>3, <1>4, EmitFile

(* The file is kept up to n, and what is good of it. *)
LEMMA GoodKept ==
    ASSUME PhantomInv, GoodInv, file' \in Seq(Byte), NEW n \in Nat, n <= Len(file), n <= Len(file'),
           \A q \in 1..n : file'[q] = file[q],
           NEW i \in 1..Len(records), Good(i), records[i].end <= n
    PROVE  /\ records[i].end \in 1..Len(file') /\ Clean(file', records[i].end)
           /\ Ends(file'[records[i].end]) /\ Completes(file'[records[i].end])
           /\ file'[records[i].end].id = i
<1>. PICK c : c = records[i].end
  OBVIOUS
<1>1. /\ c \in 1..Len(file) /\ Clean(file, c) /\ Ends(file[c]) /\ Completes(file[c]) /\ file[c].id = i
  BY DEF GoodInv
<1>2. file \in Seq(Byte) /\ Len(file) \in Nat /\ Len(file') \in Nat
  BY DEF PhantomInv, FileInv
<1>3. c \in 1..n /\ c \in 1..Len(file') /\ c \in 0..Len(file) /\ c \in 0..c /\ c <= Len(file')
      /\ \A p \in 1..c : file[p] = file'[p]
  BY <1>1, <1>2
<1>4. file'[c] = file[c]
  BY <1>3
<1>5. Clean(file', c)
  BY <1>1, <1>2, <1>3, CleanPrefix
<1>. QED BY <1>1, <1>3, <1>4, <1>5

LEMMA EmitGood ==
    ASSUME PhantomInv, GoodInv, SoundInv, CrashInv, EmitPhysicalRecord
    PROVE  GoodInv' /\ SoundInv' /\ CrashInv'
<1>. PICK l : l = Len(records)
  OBVIOUS
<1>0. /\ pc = "add" /\ pc' \in {"add", "added", "idle"} /\ l \in Nat /\ l >= 1 /\ l \in 1..l
      /\ records \in Seq(Record) /\ records' \in Seq(Record) /\ Len(records') = l
      /\ \A i \in 1..l : i # l => records'[i] = records[i]
      /\ Last(records) = records[l] /\ Last(records') = records'[l]
      /\ file \in Seq(Byte) /\ Len(file) \in Nat
      /\ UNCHANGED <<crashes, reported>>
  BY EmitRecords DEF EmitPhysicalRecord, PhantomInv, FileInv, Last, readerVars
<1>1. \/ /\ pc' = "add" /\ records' = records /\ add.left > FragmentLength
         /\ file' = After(Len(FragmentBytes))
      \/ /\ pc' = "added" /\ FragmentLength = add.left /\ file' = After(Len(FragmentBytes))
         /\ records'[l].status = "ok" /\ records'[l].end = Len(file')
      \/ /\ pc' = "idle" /\ records'[l].status = "failed" /\ records'[l].end = Len(file')
  BY EmitRecords
<1>2. PICK m \in 0..Len(FragmentBytes) : file' = After(m)
  BY EmitFile
<1>3. /\ file' \in Seq(Byte) /\ Len(file') = Len(file) + m /\ m \in Nat /\ Len(file') \in Nat
      /\ \A q \in 1..Len(file) : file'[q] = file[q]
  BY <1>0, <1>2, AfterFile
<1>4. records[l].status = "pending" /\ \A i \in 1..l : records[i].status = "pending" => i = l
  BY <1>0 DEF SoundInv
\* the file is clean as long as nothing has failed
<1>5. Sound => Clean(file', Len(file'))
  <2>. SUFFICES ASSUME Sound PROVE Clean(file', Len(file'))
    OBVIOUS
  <2>. PICK f : f = After(Len(FragmentBytes))
    OBVIOUS
  <2>. PICK n : n = Len(file) + Len(FragmentBytes)
    OBVIOUS
  <2>1. Clean(f, n)
    BY <1>0, EmitClean
  <2>2. FragmentBytes \in Seq(Byte) /\ Len(FragmentBytes) \in Nat /\ Len(FragmentBytes) \in 0..Len(FragmentBytes)
    BY <1>0, NewBytes
  <2>3. f \in Seq(Byte) /\ Len(f) = n
    BY <1>0, <2>2, AfterFile
  <2>4. \A p \in 1..(Len(file) + m) : file'[p] = f[p]
    <3>1. \A k \in 0..Len(FragmentBytes) : \A p \in 1..(Len(file) + k) :
              After(k)[p] = IF p <= Len(file) THEN file[p] ELSE FragmentBytes[p - Len(file)]
      <4>. SUFFICES ASSUME NEW k \in 0..Len(FragmentBytes), NEW p \in 1..(Len(file) + k)
           PROVE  After(k)[p] = IF p <= Len(file) THEN file[p] ELSE FragmentBytes[p - Len(file)]
        OBVIOUS
      <4>1. /\ SubSeq(FragmentBytes, 1, k) \in Seq(Byte) /\ Len(SubSeq(FragmentBytes, 1, k)) = k
            /\ \A q \in 1..k : SubSeq(FragmentBytes, 1, k)[q] = FragmentBytes[q]
        BY <2>2, Prefix
      <4>2. /\ \A q \in 1..Len(file) : After(k)[q] = file[q]
            /\ \A q \in 1..k : After(k)[Len(file) + q] = SubSeq(FragmentBytes, 1, k)[q]
        BY <4>1, <1>0, Concat DEF After
      <4>3. CASE p <= Len(file)
        BY <4>2, <4>3, <1>0
      <4>4. CASE p > Len(file)
        <5>1. p - Len(file) \in 1..k /\ p = Len(file) + (p - Len(file))
          BY <4>4, <1>0, <2>2
        <5>. QED BY <5>1, <4>1, <4>2, <4>4, <1>0
      <4>. QED BY <4>3, <4>4, <1>0
    <3>2. \A p \in 1..(Len(file) + m) : p \in 1..(Len(file) + Len(FragmentBytes))
      BY <1>0, <2>2
    <3>. QED BY <3>1, <3>2, <1>2, <2>2
  <2>5. n \in 0..Len(f) /\ Len(file') \in 0..n /\ Len(file') <= Len(file') /\ \A p \in 1..Len(file') : f[p] = file'[p]
    BY <2>2, <2>3, <2>4, <1>0, <1>3
  <2>. QED BY ONLY <2>1, <2>3, <2>5, <1>3, CleanPrefix
\* what a turn of the loop that did not fail leaves
<1>6. ASSUME Sound, pc' # "idle"
      PROVE  /\ \E a \in 0..Len(file') : Aligned(a) /\ Len(file') = a + block_offset'
             /\ Ends(Last(file')) /\ Last(file') = file'[Len(file')] /\ Len(file') >= 1 /\ file' # <<>>
             /\ Last(file').id = l /\ (pc' = "added" => Completes(Last(file')))
  <2>1. file' = After(Len(FragmentBytes)) /\ (pc' = "added" => FragmentLength = add.left)
    BY <1>1, <1>6
  <2>2. /\ Len(FragmentBytes) = Trailer + HeaderSize + FragmentLength /\ Trailer \in Nat
        /\ FragmentLength \in Nat /\ HeaderSize \in Nat /\ HeaderSize > 0
        /\ FragmentType \in {"full", "last"} <=> FragmentLength = add.left
        /\ FragmentType \in {"full", "first", "middle", "last"}
    BY <1>0, NewBytes, Sizes1
  <2>. PICK k : k = HeaderSize + FragmentLength
    OBVIOUS
  <2>3. /\ k \in 1..(HeaderSize + FragmentLength) /\ Trailer + k = Len(FragmentBytes)
        /\ Len(FragmentBytes) \in Nat /\ Len(FragmentBytes) \in 0..Len(FragmentBytes)
    BY <2>2
  <2>4. Len(file') = Len(file) + Len(FragmentBytes) /\ file'[Len(file) + (Trailer + k)] = NewByte(k)
    BY <1>0, <2>1, <2>3, AfterFile
  <2>5. Len(file') >= 1 /\ file'[Len(file')] = NewByte(k)
    BY <2>2, <2>3, <2>4, <1>0
  <2>6. file' # <<>> /\ Last(file') = file'[Len(file')]
    BY <2>5, <1>3 DEF Last
  <2>7. Ends(NewByte(k)) /\ NewByte(k).id = l /\ (pc' = "added" => Completes(NewByte(k)))
    BY <2>1, <2>2 DEF NewByte, Ends, IsData, Size, Completes
  <2>8. \E a \in 0..Len(file') : Aligned(a) /\ Len(file') = a + block_offset'
    <3>1. block_offset' = FragmentOffset + HeaderSize + FragmentLength
      BY DEF EmitPhysicalRecord
    <3>. QED BY <1>0, <1>6, <2>4, <3>1, EmitClean
  <2>. QED BY <2>5, <2>6, <2>7, <2>8
<1>7. \A i \in 1..l : Good(i)' /\ i # l => Good(i)
  <2>. SUFFICES ASSUME NEW i \in 1..l, Good(i)', i # l PROVE Good(i)
    OBVIOUS
  <2>1. \A j \in 1..i : j \in 1..l /\ j # l
    OBVIOUS
  <2>. QED BY <2>1, <1>0 DEF Good
<1>8. ASSUME records'[l].status = "ok", \A j \in 1..l : j # l => records[j].status = "ok" PROVE Sound
  BY <1>4, <1>8 DEF Sound
<1>9. GoodInv'
  <2>. SUFFICES ASSUME NEW i \in 1..l
       PROVE  /\ records'[i].status \in {"ok", "failed"} => records'[i].end <= Len(file')
              /\ Good(i)' => /\ records'[i].end \in 1..Len(file') /\ Clean(file', records'[i].end)
                             /\ Ends(file'[records'[i].end]) /\ Completes(file'[records'[i].end])
                             /\ file'[records'[i].end].id = i
    BY <1>0 DEF GoodInv
  <2>1. CASE i # l
    <3>1. records'[i] = records[i]
      BY <2>1, <1>0
    <3>2. records[i].status \in {"ok", "failed"} => records[i].end <= Len(file)
      BY DEF GoodInv
    <3>3. records[i].end \in Nat
      <4>1. records[i] \in Record
        BY <1>0
      <4>. QED BY <4>1 DEF Record
    <3>4. ASSUME Good(i)' PROVE /\ records'[i].end \in 1..Len(file') /\ Clean(file', records'[i].end)
                                /\ Ends(file'[records'[i].end]) /\ Completes(file'[records'[i].end])
                                /\ file'[records'[i].end].id = i
      <4>1. Good(i)
        BY <2>1, <3>4, <1>7
      <4>2. records[i].end <= Len(file)
        BY <4>1, <1>0 DEF GoodInv
      <4>3. Len(file) \in Nat /\ Len(file) <= Len(file) /\ Len(file) <= Len(file')
        BY <1>0, <1>3
      <4>. QED BY <4>1, <4>2, <4>3, <3>1, <1>3, GoodKept
    <3>. QED BY <3>1, <3>2, <3>3, <3>4, <1>0, <1>3
  <2>2. CASE i = l /\ pc' = "added"
    <3>1. records'[l].end = Len(file')
      BY <1>1, <2>2
    <3>2. ASSUME Good(l)' PROVE /\ Clean(file', Len(file')) /\ Len(file') \in 1..Len(file')
                                /\ Ends(file'[Len(file')]) /\ Completes(file'[Len(file')])
                                /\ file'[Len(file')].id = l
      <4>1. \A j \in 1..l : records'[j].status = "ok"
        BY <3>2 DEF Good
      <4>2. Sound
        BY <4>1, <1>0, <1>8
      <4>. QED BY <4>2, <1>3, <1>5, <1>6, <2>2
    <3>. QED BY <2>2, <3>1, <3>2, <1>3
  <2>3. CASE i = l /\ pc' # "added"
    <3>1. records'[l].status # "ok" /\ (records'[l].status = "failed" => records'[l].end = Len(file'))
      BY <1>0, <1>1, <1>4, <2>3
    <3>2. ~Good(l)'
      BY <3>1, <1>0 DEF Good
    <3>. QED BY <2>3, <3>1, <3>2, <1>3
  <2>. QED BY <2>1, <2>2, <2>3
<1>10. Sound' => Sound /\ pc' # "idle"
  <2>. SUFFICES ASSUME Sound' PROVE Sound /\ pc' # "idle"
    OBVIOUS
  <2>1. \A i \in 1..l : records'[i].status \in {"ok", "pending"}
    BY <1>0 DEF Sound
  <2>2. ASSUME NEW i \in 1..l PROVE records[i].status \in {"ok", "pending"}
    BY <2>1, <1>0, <1>4
  <2>3. records'[l].status # "failed"
    BY <2>1, <1>0
  <2>. QED BY <2>2, <2>3, <1>1 DEF Sound
<1>11. SoundInv'
  <2>1. ASSUME NEW i \in 1..l, records'[i].status = "pending" PROVE pc' = "add" /\ i = l
    BY <2>1, <1>0, <1>1, <1>4
  <2>2. pc' = "add" => Last(records').status = "pending"
    BY <1>0, <1>1, <1>4
  <2>3. ASSUME Sound' PROVE /\ Clean(file', Len(file'))
                            /\ file' # <<>> => Ends(Last(file'))
                            /\ ~(pc' = "add" /\ add'.frags > 0) => ~Dangling(file', Len(file'))
                            /\ \E a \in 0..Len(file') : Aligned(a) /\ Len(file') = a + block_offset'
                            /\ pc' # "add" => Len(file') = IF records' = <<>> THEN 0 ELSE Last(records').end
    <3>1. Sound /\ pc' # "idle"
      BY <1>10, <2>3
    <3>2. Clean(file', Len(file')) /\ Ends(Last(file'))
          /\ \E a \in 0..Len(file') : Aligned(a) /\ Len(file') = a + block_offset'
      BY <3>1, <1>5, <1>6
    <3>3. pc' = "add" => add'.frags > 0
      <4>1. add'.frags = add.frags + 1 /\ add.frags \in Nat
        BY <1>0, NewBytes DEF EmitPhysicalRecord
      <4>. QED BY <4>1
    <3>4. pc' = "added" => ~Dangling(file', Len(file'))
      <4>. SUFFICES ASSUME pc' = "added" PROVE ~Dangling(file', Len(file'))
        OBVIOUS
      <4>1. Completes(file'[Len(file')]) /\ Ends(file'[Len(file')]) /\ Len(file') >= 1
        BY <3>1, <1>6
      <4>2. ~GoesOn(file'[Len(file')]) /\ IsData(file'[Len(file')])
        BY <4>1 DEF Completes, GoesOn, Ends
      <4>. QED BY <4>1, <4>2, <1>3, DataDangles
    <3>5. pc' = "added" => Len(file') = IF records' = <<>> THEN 0 ELSE Last(records').end
      <4>1. records' # <<>>
        BY <1>0
      <4>. QED BY <4>1, <1>0, <1>1
    <3>. QED BY <3>1, <3>2, <3>3, <3>4, <3>5, <1>0
  <2>. QED BY <2>1, <2>2, <2>3, <1>0 DEF SoundInv
<1>12. CrashInv'
  <2>1. crashes' \in Nat
    BY <1>0 DEF CrashInv
  <2>2. pc' # "read" /\ Writing'
    BY <1>0 DEF Writing
  <2>3. ASSUME crashes = 0
        PROVE  /\ ~reported /\ \A i \in 1..l : records'[i].status # "lost"
               /\ \A n \in 0..Len(file') :
                     (\A i \in 1..l : records'[i].status = "failed" => n < records'[i].end)
                         => Clean(file', n)
    <3>1. /\ ~reported /\ \A i \in 1..l : records[i].status # "lost"
          /\ \A n \in 0..Len(file) :
                (\A i \in 1..l : records[i].status = "failed" => n < records[i].end)
                    => Clean(file, n)
      BY <2>3 DEF CrashInv
    <3>2. ASSUME NEW i \in 1..l PROVE records'[i].status # "lost"
      <4>1. CASE i # l
        BY <4>1, <3>1, <1>0
      <4>2. CASE i = l
        BY <4>2, <1>1, <1>4
      <4>. QED BY <4>1, <4>2
    <3>3. ASSUME NEW n \in 0..Len(file'),
                 \A i \in 1..l : records'[i].status = "failed" => n < records'[i].end
          PROVE  Clean(file', n)
      <4>1. CASE Sound
        <5>1. Len(file') \in 0..Len(file') /\ n \in 0..Len(file') /\ n <= Len(file')
          BY <1>3
        <5>2. \A p \in 1..n : file'[p] = file'[p]
          OBVIOUS
        <5>3. Clean(file', Len(file')) /\ file' \in Seq(Byte)
          BY <4>1, <1>3, <1>5
        <5>. QED BY ONLY <5>1, <5>2, <5>3, CleanPrefix
      <4>2. CASE ~Sound
        <5>1. PICK i \in 1..l : records[i].status \notin {"ok", "pending"}
          BY <4>2 DEF Sound
        <5>2. records[i].status = "failed" /\ i # l
          <6>1. records[i] \in Record
            BY <1>0
          <6>. QED BY <6>1, <5>1, <3>1, <1>4 DEF Record, Status
        <5>3. n < records[i].end /\ records[i].end <= Len(file) /\ records[i].end \in Nat
          <6>1. records[i] \in Record
            BY <1>0
          <6>2. records[i].end \in Nat
            BY <6>1 DEF Record
          <6>3. records[i].end <= Len(file)
            BY <5>2 DEF GoodInv
          <6>4. records'[i] = records[i]
            BY <5>2, <1>0
          <6>5. n < records[i].end
            BY <5>2, <3>3, <6>4
          <6>. QED BY <6>2, <6>3, <6>5
        <5>4. n \in 0..Len(file) /\ n \in 0..n /\ n <= Len(file') /\ \A p \in 1..n : file[p] = file'[p]
          BY <5>3, <1>0, <1>3
        <5>5. \A j \in 1..l : records[j].status = "failed" => n < records[j].end
          BY <3>3, <1>0, <1>4
        <5>6. Clean(file, n) /\ file \in Seq(Byte) /\ file' \in Seq(Byte)
          BY <5>4, <5>5, <3>1, <1>0, <1>3
        <5>. QED BY ONLY <5>4, <5>6, CleanPrefix
      <4>. QED BY <4>1, <4>2
    <3>. QED BY <3>1, <3>2, <3>3
  <2>. QED BY <2>1, <2>2, <2>3, <1>0 DEF CrashInv
<1>. QED BY <1>9, <1>11, <1>12

LEMMA AddGood ==
    ASSUME PhantomInv, GoodInv, SoundInv, CrashInv, NEW n \in Sizes, AddRecord(n)
    PROVE  GoodInv' /\ SoundInv' /\ CrashInv'
<1>. PICK l : l = Len(records)
  OBVIOUS
<1>0. /\ pc \in {"idle", "added"} /\ pc' = "add" /\ add' = [left |-> n, frags |-> 0]
      /\ UNCHANGED <<file, block_offset, crashes, reported>>
      /\ records \in Seq(Record) /\ file \in Seq(Byte) /\ l \in Nat /\ l + 1 \in 1..(l + 1)
      /\ records' = Append(records, [size |-> n, status |-> "pending", end |-> 0])
  BY DEF AddRecord, PhantomInv, FileInv, readerVars
<1>1. /\ Len(records') = l + 1 /\ Last(records') = records'[l + 1] /\ records' # <<>>
      /\ \A i \in 1..l : records'[i] = records[i]
      /\ records'[l + 1] = [size |-> n, status |-> "pending", end |-> 0]
  BY <1>0 DEF Last
<1>2. records'[l + 1].status = "pending"
  BY <1>1
<1>3. \A i \in 1..l : records[i].status # "pending"
  BY <1>0 DEF SoundInv
<1>4. \A i \in 1..(l + 1) : i \in 1..l \/ i = l + 1
  BY <1>0
<1>5. \A i \in 1..(l + 1) : Good(i)' => i \in 1..l /\ Good(i)
  <2>. SUFFICES ASSUME NEW i \in 1..(l + 1), Good(i)' PROVE i \in 1..l /\ Good(i)
    OBVIOUS
  <2>1. \A j \in 1..i : records'[j].status = "ok"
    BY DEF Good
  <2>2. i # l + 1
    BY <2>1, <1>0, <1>2
  <2>3. i \in 1..l /\ \A j \in 1..i : j \in 1..l
    BY <2>2, <1>0
  <2>. QED BY <2>1, <2>3, <1>1 DEF Good
<1>6. GoodInv'
  <2>1. ASSUME NEW i \in 1..(l + 1)
        PROVE  /\ records'[i].status \in {"ok", "failed"} => records'[i].end <= Len(file)
               /\ Good(i)' => /\ records'[i].end \in 1..Len(file) /\ Clean(file, records'[i].end)
                              /\ Ends(file[records'[i].end]) /\ Completes(file[records'[i].end])
                              /\ file[records'[i].end].id = i
    <3>1. CASE i \in 1..l
      BY <3>1, <1>1, <1>5 DEF GoodInv
    <3>2. CASE i = l + 1
      BY <3>2, <1>0, <1>2, <1>5
    <3>. QED BY <3>1, <3>2, <1>4
  <2>. QED BY <2>1, <1>0, <1>1 DEF GoodInv
<1>7. SoundInv'
  <2>1. ASSUME NEW i \in 1..(l + 1), records'[i].status = "pending" PROVE i = l + 1
    BY <2>1, <1>1, <1>3, <1>4
  <2>2. Sound' => Sound
    <3>1. \A i \in 1..l : i \in 1..(l + 1)
      BY <1>0
    <3>. QED BY <3>1, <1>1 DEF Sound
  <2>3. Sound => /\ Clean(file, Len(file))
                 /\ file # <<>> => Ends(Last(file))
                 /\ ~Dangling(file, Len(file))
                 /\ \E a \in 0..Len(file) : Aligned(a) /\ Len(file) = a + block_offset
    BY <1>0 DEF SoundInv, Writing
  <2>. QED BY <2>1, <2>2, <2>3, <1>0, <1>1, <1>2 DEF SoundInv
<1>8. CrashInv'
  <2>1. crashes = 0 => /\ ~reported
                       /\ \A i \in 1..(l + 1) : records'[i].status # "lost"
                       /\ \A k \in 0..Len(file) :
                             (\A i \in 1..(l + 1) : records'[i].status = "failed" => k < records'[i].end)
                                => Clean(file, k)
    <3>. SUFFICES ASSUME crashes = 0
         PROVE  /\ ~reported
                /\ \A i \in 1..(l + 1) : records'[i].status # "lost"
                /\ \A k \in 0..Len(file) :
                      (\A i \in 1..(l + 1) : records'[i].status = "failed" => k < records'[i].end)
                         => Clean(file, k)
      OBVIOUS
    <3>1. /\ ~reported /\ \A i \in 1..l : records[i].status # "lost"
          /\ \A k \in 0..Len(file) :
                (\A i \in 1..l : records[i].status = "failed" => k < records[i].end)
                    => Clean(file, k)
      BY DEF CrashInv
    <3>2. \A i \in 1..l : i \in 1..(l + 1)
      BY <1>0
    <3>. QED BY <3>1, <3>2, <1>1, <1>2, <1>4
  <2>. QED BY <2>1, <1>0, <1>1 DEF CrashInv, Writing
<1>. QED BY <1>6, <1>7, <1>8

(* Steps that neither write nor add. *)
LEMMA FileSame ==
    ASSUME GoodInv, SoundInv, CrashInv, UNCHANGED <<file, records, crashes>>, pc # "add", pc' # "add",
           crashes = 0 => Writing' /\ UNCHANGED reported,
           pc' = "read" => pc = "read",
           Writing' => \/ \E a \in 0..Len(file) : Aligned(a) /\ Len(file) = a + block_offset'
                       \/ Writing /\ UNCHANGED block_offset
    PROVE  GoodInv' /\ SoundInv' /\ CrashInv'
<1>1. GoodInv'
  BY DEF GoodInv, Good
<1>2. SoundInv'
  <2>1. \A i \in 1..Len(records) : records[i].status # "pending"
    BY DEF SoundInv
  <2>2. Sound => /\ Clean(file, Len(file))
                 /\ file # <<>> => Ends(Last(file))
                 /\ ~Dangling(file, Len(file))
                 /\ Writing => \E a \in 0..Len(file) : Aligned(a) /\ Len(file) = a + block_offset
                 /\ Len(file) = IF records = <<>> THEN 0 ELSE Last(records).end
    BY DEF SoundInv
  <2>3. Sound /\ Writing' => \E a \in 0..Len(file) : Aligned(a) /\ Len(file) = a + block_offset'
    BY <2>2
  <2>. QED BY <2>1, <2>2, <2>3 DEF SoundInv, Sound
<1>3. CrashInv'
  BY DEF CrashInv, NoFailure
<1>. QED BY <1>1, <1>2, <1>3

LEMMA CrashGood ==
    ASSUME PhantomInv, GoodInv, SoundInv, CrashInv, Crash
    PROVE  GoodInv' /\ SoundInv' /\ CrashInv'
<1>. PICK l : l = Len(records)
  OBVIOUS
<1>0. /\ pc' = "read" /\ reported' = FALSE /\ crashes' = crashes + 1 /\ pc \in {"idle", "add", "added"}
      /\ records \in Seq(Record) /\ records' \in Seq(Record) /\ Len(records') = l /\ l \in Nat
      /\ file \in Seq(Byte) /\ Len(file) \in Nat
  <2>1. SameSizes /\ Len(records') = Len(records)
    BY CrashFile
  <2>2. records \in Seq(Record) /\ file \in Seq(Byte)
    BY DEF PhantomInv, FileInv
  <2>. QED BY <2>1, <2>2 DEF Crash, SameSizes
<1>1. PICK n \in synced..Len(file) :
         /\ n \in 0..Len(file) /\ file' \in Seq(Byte) /\ Len(file') = n /\ \A q \in 1..n : file'[q] = file[q]
         /\ \A i \in 1..l :
               records'[i] = IF records[i].status = "pending" \/ records[i].end > n
                             THEN [records[i] EXCEPT !.status = "lost"]
                             ELSE records[i]
  BY CrashFile
<1>2. ASSUME NEW i \in 1..l
      PROVE  /\ records'[i].status # "pending" /\ records[i].end \in Nat /\ records[i].status \in Status
             /\ records'[i].status # "lost" => records'[i] = records[i] /\ records[i].end <= n
             /\ records[i].status = "failed" /\ records[i].end <= n => records'[i].status = "failed"
  <2>1. records[i] \in Record
    BY <1>0
  <2>2. [records[i] EXCEPT !.status = "lost"].status = "lost" /\ records[i].end \in Nat /\ records[i].status \in Status
    BY <2>1 DEF Record
  <2>3. CASE records[i].status = "pending" \/ records[i].end > n
    <3>1. records'[i].status = "lost"
      BY <1>1, <2>2, <2>3
    <3>. QED BY <3>1, <2>2, <2>3, <1>1
  <2>4. CASE ~(records[i].status = "pending" \/ records[i].end > n)
    <3>1. records'[i] = records[i] /\ records[i].end <= n
      <4>1. records[i].end <= n
        BY <1>0, <1>1, <2>2, <2>4
      <4>. QED BY <4>1, <1>1, <2>4
    <3>. QED BY <3>1, <2>2, <2>4
  <2>. QED BY <2>3, <2>4
<1>3. GoodInv'
  <2>. SUFFICES ASSUME NEW i \in 1..l
       PROVE  /\ records'[i].status \in {"ok", "failed"} => records'[i].end <= n
              /\ Good(i)' => /\ records'[i].end \in 1..Len(file') /\ Clean(file', records'[i].end)
                             /\ Ends(file'[records'[i].end]) /\ Completes(file'[records'[i].end])
                             /\ file'[records'[i].end].id = i
    BY <1>0, <1>1 DEF GoodInv
  <2>1. records'[i].status \in {"ok", "failed"} => records'[i].end <= n
    BY <1>2
  <2>2. ASSUME Good(i)'
        PROVE  /\ records'[i].end \in 1..Len(file') /\ Clean(file', records'[i].end)
               /\ Ends(file'[records'[i].end]) /\ Completes(file'[records'[i].end])
               /\ file'[records'[i].end].id = i
    <3>1. \A j \in 1..i : j \in 1..l /\ records'[j].status = "ok"
      BY <2>2, <1>0 DEF Good
    <3>2. \A j \in 1..i : records'[j] = records[j] /\ records[j].end <= n
      BY <3>1, <1>2
    <3>3. Good(i)
      BY <3>1, <3>2 DEF Good
    <3>4. records'[i] = records[i] /\ records[i].end <= n
      BY <3>2
    <3>5. n \in Nat /\ n <= Len(file) /\ n <= Len(file')
      BY <1>0, <1>1
    <3>. QED BY <3>3, <3>4, <3>5, <1>1, GoodKept
  <2>. QED BY <2>1, <2>2
<1>4. ASSUME Sound' PROVE n = Len(file) /\ Sound /\ pc # "add"
  <2>1. \A i \in 1..l : records'[i].status = "ok"
    BY <1>0, <1>2, <1>4 DEF Sound
  <2>2. \A i \in 1..l : records[i].status = "ok" /\ records[i].end <= n
    BY <2>1, <1>2
  <2>3. Sound
    BY <2>2 DEF Sound
  <2>4. pc # "add"
    <3>. SUFFICES ASSUME pc = "add" PROVE FALSE
      OBVIOUS
    <3>1. records # <<>> /\ Last(records).status = "pending"
      BY DEF PhantomInv, AddInv, SoundInv
    <3>2. l \in 1..l /\ Last(records) = records[l]
      BY <3>1, <1>0 DEF Last
    <3>. QED BY <3>1, <3>2, <2>2
  <2>5. Len(file) = IF records = <<>> THEN 0 ELSE Last(records).end
    BY <2>3, <2>4 DEF SoundInv
  <2>6. Len(file) <= n
    <3>1. CASE records = <<>>
      BY <3>1, <2>5, <1>1
    <3>2. CASE records # <<>>
      <4>1. l \in 1..l /\ Last(records) = records[l]
        BY <3>2, <1>0 DEF Last
      <4>. QED BY <4>1, <3>2, <2>2, <2>5
    <3>. QED BY <3>1, <3>2
  <2>. QED BY <2>3, <2>4, <2>6, <1>0, <1>1
<1>5. SoundInv'
  <2>1. \A i \in 1..l : records'[i].status # "pending"
    BY <1>2
  <2>2. ASSUME Sound'
        PROVE  /\ Clean(file', Len(file'))
               /\ file' # <<>> => Ends(Last(file'))
               /\ ~Dangling(file', Len(file'))
               /\ Len(file') = IF records' = <<>> THEN 0 ELSE Last(records').end
    <3>1. n = Len(file) /\ Sound /\ pc # "add"
      BY <1>4, <2>2
    <3>2. file' = file
      BY <3>1, <1>0, <1>1
    <3>3. records' = records
      <4>1. \A i \in 1..l : records'[i] = records[i]
        BY <1>0, <1>2, <2>2 DEF Sound
      <4>. QED BY <4>1, <1>0
    <3>. QED BY <3>1, <3>2, <3>3 DEF SoundInv
  <2>3. pc' # "add" /\ ~Writing'
    BY <1>0 DEF Writing
  <2>. QED BY <2>1, <2>2, <2>3, <1>0 DEF SoundInv
<1>6. CrashInv'
  <2>1. crashes \in Nat /\ crashes' \in Nat /\ crashes' # 0 /\ (crashes' = 1 => crashes = 0)
    BY <1>0 DEF CrashInv
  <2>2. ASSUME crashes' = 1, NoFailure' PROVE Clean(file', Len(file'))
    <3>1. \A k \in 0..Len(file) :
             (\A i \in 1..l : records[i].status = "failed" => k < records[i].end) => Clean(file, k)
      BY <2>1, <2>2 DEF CrashInv
    <3>2. \A i \in 1..l : records'[i].status # "failed"
      BY <2>2, <1>0 DEF NoFailure
    <3>3. \A i \in 1..l : records[i].status = "failed" => n < records[i].end
      <4>. SUFFICES ASSUME NEW i \in 1..l, records[i].status = "failed" PROVE n < records[i].end
        OBVIOUS
      <4>1. ~(records[i].end <= n) /\ records[i].end \in Nat
        BY <3>2, <1>2
      <4>. QED BY <4>1, <1>1
    <3>4. Clean(file, n)
      BY <3>1, <3>3, <1>1
    <3>5. n \in 0..Len(file) /\ n \in 0..n /\ n <= Len(file') /\ \A p \in 1..n : file[p] = file'[p]
      BY <1>0, <1>1
    <3>6. Clean(file', n)
      BY ONLY <3>4, <3>5, <1>0, <1>1, CleanPrefix
    <3>. QED BY <3>6, <1>1
  <2>. QED BY <2>1, <2>2 DEF CrashInv
<1>. QED BY <1>3, <1>5, <1>6

-----------------------------------------------------------------------------
(***************************************************************************)
(* A file without failures: the reader                                     *)
(***************************************************************************)
(* buffer_ and what follows it, when the file is clean up to c. *)
LEMMA Window ==
    ASSUME PhantomInv, WindowInv, ProgressInv, pc = "read",
           NEW c \in 1..Len(file), Clean(file, c), rd.pos < c
    PROVE  /\ file \in Seq(Byte) /\ Len(file) \in Nat /\ rd \in Reader /\ rd.pos \in Nat /\ rd.end \in Nat
           /\ rd.pos <= rd.end /\ rd.end <= Len(file) /\ rd.eof \in BOOLEAN
           /\ Header \in Byte /\ Header = file[rd.pos + 1] /\ rd.pos + 1 \in 1..c
           /\ Size(Header) \in Nat /\ Size(Header) >= HeaderSize /\ HeaderSize > 0 /\ HeaderSize \in Nat
           /\ Size(Header) = HeaderSize + Header.len
           \* zeros fill the rest of the block
           /\ ~IsData(Header) => /\ rd.end < rd.pos + HeaderSize
                                 /\ \A p \in (rd.pos + 1)..c : p <= rd.end => ~IsData(file[p])
           \* a fragment ends in its block
           /\ IsData(Header) =>
                 /\ Header.at = 1
                 /\ rd.pos < rd.end => rd.pos + Size(Header) <= rd.end \/ (rd.eof /\ rd.end = Len(file))
                 /\ \A i \in 1..Size(Header) : rd.pos + i <= c => file[rd.pos + i] = [Header EXCEPT !.at = i]
                 /\ \A p \in (rd.pos + 1)..c : p < rd.pos + Size(Header) => ~Ends(file[p])
                 /\ Header.type \in {"full", "first"} => ~rd.inFragment
                 /\ Header.type \in {"middle", "last"} => rd.inFragment
<1>. PICK q : q = rd.pos + 1
  OBVIOUS
<1>0. /\ file \in Seq(Byte) /\ Len(file) \in Nat /\ rd \in Reader /\ rd.pos \in Nat /\ rd.end \in Nat
      /\ rd.pos <= rd.end /\ rd.end <= Len(file) /\ rd.eof \in BOOLEAN
      /\ q \in 1..c /\ q \in 1..Len(file) /\ c \in Nat /\ q - 1 = rd.pos /\ BlockSize \in Nat
  <2>1. file \in Seq(Byte) /\ Len(file) \in Nat /\ rd \in Reader /\ rd.pos \in 0..rd.end /\ rd.end \in 0..Len(file)
    BY DEF PhantomInv, FileInv, ReadInv
  <2>2. rd.eof \in BOOLEAN /\ BlockSize \in Nat
    BY <2>1, Sizes1 DEF Reader
  <2>3. rd.end \in Nat /\ rd.end <= Len(file)
    BY <2>1
  <2>4. rd.pos \in Nat /\ rd.pos <= rd.end
    BY <2>1, <2>3
  <2>5. c \in Nat /\ c <= Len(file) /\ c \in 1..Len(file)
    BY <2>1
  <2>6. q \in 1..c /\ q \in 1..Len(file) /\ q - 1 = rd.pos
    BY ONLY <2>4, <2>5, <2>1, rd.pos < c, q = rd.pos + 1
  <2>. QED BY <2>1, <2>2, <2>3, <2>4, <2>5, <2>6
<1>1. /\ Header \in Byte /\ Header = file[q]
      /\ Size(Header) \in Nat /\ Size(Header) >= HeaderSize /\ HeaderSize > 0 /\ HeaderSize \in Nat
      /\ Size(Header) = HeaderSize + Header.len
  <2>1. Header \in Byte /\ Header = file[q]
    BY <1>0 DEF Header
  <2>. QED BY <2>1, Sizes1 DEF Size
<1>2. Boundary(file, rd.pos) /\ (rd.inFragment <=> Dangling(file, rd.pos))
  BY <1>0 DEF ProgressInv, ReadUpTo
<1>3. PICK a \in 0..rd.pos : /\ Aligned(a) /\ rd.end <= a + BlockSize
                             /\ rd.end = a + BlockSize \/ rd.eof \/ rd.pos = rd.end
  BY DEF WindowInv
<1>4. ASSUME ~IsData(Header)
      PROVE  /\ rd.end < rd.pos + HeaderSize
             /\ \A p \in (rd.pos + 1)..c : p <= rd.end => ~IsData(file[p])
  <2>1. CleanZero(file, c, q)
    BY <1>0, <1>1, <1>4 DEF Clean
  <2>2. PICK b \in q..(q + HeaderSize - 2) : Aligned(b) /\ \A p \in q..b : p <= c => ~IsData(file[p])
    BY <2>1 DEF CleanZero
  <2>3. a \in Nat /\ b \in Nat /\ a < b
    BY <1>0, <1>1
  <2>4. a + BlockSize <= b
    BY <2>2, <2>3, <1>3, AlignedGap
  <2>5. rd.end <= b /\ b < rd.pos + HeaderSize
    <3>1. b \in q..(q + HeaderSize - 2) /\ q = rd.pos + 1 /\ rd.pos \in Nat /\ HeaderSize \in Nat
          /\ rd.end \in Nat /\ rd.end <= a + BlockSize /\ BlockSize \in Nat
      BY <1>0, <1>1, <1>3
    <3>2. b < rd.pos + HeaderSize
      BY ONLY <3>1
    <3>. QED BY ONLY <3>1, <3>2, <2>3, <2>4
  <2>6. ASSUME NEW p \in (rd.pos + 1)..c, p <= rd.end PROVE ~IsData(file[p])
    <3>1. p \in q..b /\ p <= c
      BY ONLY <2>3, <2>5, <1>0, p \in (rd.pos + 1)..c, p <= rd.end, q = rd.pos + 1
    <3>. QED BY <3>1, <2>2
  <2>7. rd.end < rd.pos + HeaderSize
    <3>1. rd.end \in Nat /\ rd.pos \in Nat /\ HeaderSize \in Nat /\ b \in Nat
      BY <2>3, <1>0, <1>1
    <3>. QED BY ONLY <3>1, <2>5
  <2>. QED BY <2>6, <2>7
<1>5. ASSUME IsData(Header)
      PROVE  /\ Header.at = 1
             /\ rd.pos < rd.end => rd.pos + Size(Header) <= rd.end \/ (rd.eof /\ rd.end = Len(file))
             /\ \A i \in 1..Size(Header) : rd.pos + i <= c => file[rd.pos + i] = [Header EXCEPT !.at = i]
             /\ \A p \in (rd.pos + 1)..c : p < rd.pos + Size(Header) => ~Ends(file[p])
             /\ Header.type \in {"full", "first"} => ~rd.inFragment
             /\ Header.type \in {"middle", "last"} => rd.inFragment
  <2>1. /\ Begins(file, q)
        /\ Header.type \in {"middle", "last"} => ContinuesRecord(file, q)
    BY <1>0, <1>1, <1>5 DEF PhantomInv, FileInv, Chained
  <2>2. Header.at = 1
    <3>. SUFFICES ASSUME Header.at # 1 PROVE FALSE
      OBVIOUS
    <3>1. Header.at \in 1..Size(Header) /\ Header.at <= q /\ Header.at > 1 /\ Header.at \in Nat
      BY <2>1, <1>1 DEF Begins
    <3>2. file[q - 1] = [Header EXCEPT !.at = @ - 1]
      <4>1. 1 \in 0..(file[q].at - 1)
        BY <3>1, <1>1
      <4>. QED BY <4>1, <2>1, <1>1 DEF Begins
    <3>3. /\ file[q - 1].at = Header.at - 1 /\ Size(file[q - 1]) = Size(Header)
          /\ file[q - 1].type = Header.type
      BY <3>2, <1>1 DEF Byte, Size
    <3>4. q - 1 # 0
      BY ONLY <3>1, <1>0
    <3>5. Ends(file[q - 1])
      BY <3>3, <3>4, <1>0, <1>2, <1>5 DEF Boundary, IsData
    <3>6. Header.at - 1 = Size(Header)
      BY <3>3, <3>5 DEF Ends
    <3>. QED BY <3>1, <3>6, <1>1
  <2>3. CleanHead(file, c, q)
    BY <2>2, <1>0, <1>1, <1>5 DEF Clean
  <2>4. ASSUME rd.pos < rd.end PROVE rd.pos + Size(Header) <= rd.end \/ (rd.eof /\ rd.end = Len(file))
    <3>1. PICK b \in 0..rd.pos : Aligned(b) /\ rd.pos + Size(Header) <= b + BlockSize
      BY <2>3, <1>0, <1>1 DEF CleanHead
    <3>2. b <= a
      <4>. SUFFICES ASSUME a < b PROVE FALSE
        BY <1>0
      <4>1. a + BlockSize <= b
        BY <1>0, <1>3, <3>1, AlignedGap
      <4>. QED BY <4>1, <2>4, <1>0, <1>3
    <3>3. rd.eof => rd.end = Len(file)
      BY DEF WindowInv
    <3>4. CASE rd.end = a + BlockSize
      <4>1. a \in Nat /\ b \in Nat
        BY <1>0
      <4>. QED BY ONLY <4>1, <3>1, <3>2, <3>4, <1>0, <1>1
    <3>. QED BY <3>3, <3>4, <2>4, <1>0, <1>3
  <2>5. ASSUME NEW i \in 1..Size(Header), rd.pos + i <= c
        PROVE  file[rd.pos + i] = [Header EXCEPT !.at = i]
    <3>1. q + i - 1 = rd.pos + i
      BY <1>0, <1>1
    <3>. QED BY <3>1, <2>3, <2>5, <1>1 DEF CleanHead
  <2>6. ASSUME NEW p \in (rd.pos + 1)..c, p < rd.pos + Size(Header) PROVE ~Ends(file[p])
    <3>. PICK i : i = p - rd.pos
      OBVIOUS
    <3>1. i \in 1..Size(Header) /\ rd.pos + i = p /\ rd.pos + i <= c /\ i # Size(Header)
      <4>1. p \in Nat /\ p > rd.pos /\ p <= c
        BY <1>0
      <4>0. rd.pos \in Nat /\ Size(Header) \in Nat
        BY <1>0, <1>1
      <4>2. i \in Nat /\ i >= 1 /\ rd.pos + i = p
        BY ONLY <4>0, <4>1, i = p - rd.pos
      <4>3. i < Size(Header)
        BY ONLY <4>0, <4>2, p < rd.pos + Size(Header)
      <4>. QED BY ONLY <4>0, <4>1, <4>2, <4>3
    <3>2. file[p] = [Header EXCEPT !.at = i]
      BY <3>1, <2>5
    <3>3. file[p].at = i /\ Size(file[p]) = Size(Header)
      BY <3>2, <1>1 DEF Byte, Size
    <3>. QED BY <3>1, <3>3 DEF Ends
  <2>7. Header.type \in {"full", "first"} => ~rd.inFragment
    BY <2>3, <1>0, <1>1, <1>2 DEF CleanHead
  <2>8. Header.type \in {"middle", "last"} => rd.inFragment
    <3>. SUFFICES ASSUME Header.type \in {"middle", "last"} PROVE rd.inFragment
      OBVIOUS
    <3>1. q - file[q].at = rd.pos
      BY <2>2, <1>0, <1>1
    <3>2. \E p \in 1..rd.pos : Continues(file[p], file[q]) /\ Zeros(file, p + 1, rd.pos)
      BY <2>1, <3>1 DEF ContinuesRecord
    <3>. QED BY <3>2, <1>2 DEF Dangling, Continues
  <2>. QED BY <2>2, <2>4, <2>5, <2>6, <2>7, <2>8
<1>. QED BY <1>0, <1>1, <1>4, <1>5

(* A fragment that lies before c is accepted. *)
LEMMA HeadAccepted ==
    ASSUME PhantomInv, WindowInv, ProgressInv, pc = "read", BufferSize >= HeaderSize,
           NEW c \in 1..Len(file), Clean(file, c), rd.pos < c
    PROVE  /\ IsData(Header)
           /\ rd.pos + Size(Header) <= c => Accepts /\ PhysicalRecords = {<<Header.type, FALSE>>}
           /\ \A p \in PhysicalRecords : p[1] = "bad" => rd.end > c /\ rd.pos + Size(Header) > c
<1>0. /\ file \in Seq(Byte) /\ Len(file) \in Nat /\ rd \in Reader /\ rd.pos \in Nat /\ rd.end \in Nat
      /\ rd.pos <= rd.end /\ rd.end <= Len(file) /\ rd.eof \in BOOLEAN /\ c \in Nat
      /\ Header \in Byte
      /\ Size(Header) \in Nat /\ Size(Header) >= HeaderSize /\ HeaderSize > 0 /\ HeaderSize \in Nat
      /\ Size(Header) = HeaderSize + Header.len
      /\ ~IsData(Header) => rd.end < rd.pos + HeaderSize
      /\ IsData(Header) =>
            /\ rd.pos < rd.end => rd.pos + Size(Header) <= rd.end \/ (rd.eof /\ rd.end = Len(file))
            /\ \A i \in 1..Size(Header) : rd.pos + i <= c => file[rd.pos + i] = [Header EXCEPT !.at = i]
  BY Window
<1>1. BufferSize \in Nat /\ BufferSize = rd.end - rd.pos /\ rd.pos + HeaderSize <= rd.end
  BY <1>0 DEF BufferSize
<1>2. IsData(Header)
  BY <1>0, <1>1
<1>3. rd.pos + Size(Header) <= rd.end \/ (rd.eof /\ rd.end = Len(file))
  BY <1>0, <1>1, <1>2
<1>4. rd.pos + HeaderSize <= c => IntactHeader
  <2>. SUFFICES ASSUME rd.pos + HeaderSize <= c PROVE IntactHeader
    OBVIOUS
  <2>1. \A i \in 1..HeaderSize : i \in 1..Size(Header) /\ rd.pos + i <= c
    BY <1>0
  <2>. QED BY <2>1, <1>0, <1>2 DEF IntactHeader, IsData
<1>5. ASSUME rd.pos + Size(Header) <= c
      PROVE  Accepts /\ PhysicalRecords = {<<Header.type, FALSE>>}
  <2>1. IntactHeader
    BY <1>0, <1>4, <1>5
  <2>2. HeaderSize + Header.len <= BufferSize
    BY <1>0, <1>1, <1>3, <1>5
  <2>3. \A i \in 1..(HeaderSize + Header.len) : file[rd.pos + i] = [Header EXCEPT !.at = i]
    <3>1. \A i \in 1..Size(Header) : rd.pos + i <= c
      BY <1>0, <1>5
    <3>. QED BY <3>1, <1>0, <1>2
  <2>4. Accepts
    BY <2>1, <2>2, <2>3 DEF Accepts
  <2>5. ~(HeaderSize + Header.len > BufferSize)
    BY <2>2, <1>0, <1>1
  <2>. QED BY <2>1, <2>3, <2>4, <2>5 DEF PhysicalRecords
<1>6. Header.type # "bad"
  BY <1>0 DEF Byte
<1>7. ASSUME NEW p \in PhysicalRecords, p[1] = "bad"
      PROVE  rd.end > c /\ rd.pos + Size(Header) > c
  <2>1. rd.pos + Size(Header) > c
    <3>. SUFFICES ASSUME rd.pos + Size(Header) <= c PROVE FALSE
      BY <1>0
    <3>1. p = <<Header.type, FALSE>>
      BY <1>5
    <3>2. p[1] = Header.type
      BY <3>1
    <3>. QED BY <3>2, <1>6, <1>7
  <2>2. rd.end > c
    <3>. SUFFICES ASSUME ~(rd.end > c) PROVE FALSE
      OBVIOUS
    <3>1. rd.eof /\ rd.end = c
      BY <1>0, <1>3, <2>1
    <3>2. IntactHeader /\ HeaderSize + Header.len > BufferSize
      BY <3>1, <2>1, <1>0, <1>1, <1>4
    <3>3. PhysicalRecords = {<<"eof", FALSE>>}
      BY <3>1, <3>2 DEF PhysicalRecords, AtEof
    <3>4. p = <<"eof", FALSE>>
      BY <3>3
    <3>5. p[1] = "eof"
      BY <3>4
    <3>. QED BY <3>5, <1>7
  <2>. QED BY <2>1, <2>2
<1>. QED BY <1>2, <1>5, <1>7

(* What a turn of ReadRecord's loop does. *)
LEMMA ReadStep ==
    ASSUME PhantomInv, pc = "read", BufferSize >= HeaderSize, NEW t,
           t = "bad" \/ (t = Header.type /\ Accepts), Assemble(t)
    PROVE  /\ Read \subseteq Read' /\ rd'.end = rd.end /\ rd'.eof = rd.eof
           /\ t = "bad" => rd'.pos = rd.end /\ rd'.inFragment = FALSE
           /\ t # "bad" =>
                 /\ rd'.pos = rd.pos + Size(Header)
                 /\ rd'.inFragment = (t = "first" \/ (t = "middle" /\ rd.inFragment))
                 /\ t = "full" \/ (t = "last" /\ rd.inFragment) => Header.id \in Read'
<1>0. /\ rd \in Reader /\ rd.pos \in Nat /\ Header \in Byte /\ Fragment = FragmentOf(Header)
      /\ Header.len \in Nat /\ HeaderSize \in Nat /\ Size(Header) = HeaderSize + Header.len
      /\ out \in Seq(Seq(Fragments)) /\ Len(out) \in Nat
  <2>1. out \in Seq(Seq(Fragments)) /\ Len(out) \in Nat
    BY DEF PhantomInv, OutInv
  <2>2. rd \in Reader /\ rd.pos \in Nat /\ Header \in Byte /\ Fragment = FragmentOf(Header)
        /\ Size(Header) = HeaderSize + Header.len
    BY ReadTypes
  <2>. QED BY <2>1, <2>2, Sizes1
<1>1. /\ t = "bad" => /\ rd' = [rd EXCEPT !.pos = rd.end, !.scratch = <<>>, !.inFragment = FALSE]
                      /\ out' = out
      /\ t = "full" => /\ rd' = [rd EXCEPT !.pos = @ + HeaderSize + Header.len, !.scratch = <<>>, !.inFragment = FALSE]
                       /\ out' = Append(out, <<Fragment>>)
      /\ t = "first" => /\ rd' = [rd EXCEPT !.pos = @ + HeaderSize + Header.len, !.scratch = <<Fragment>>, !.inFragment = TRUE]
                        /\ out' = out
      /\ t = "middle" => /\ rd' = IF rd.inFragment
                                  THEN [rd EXCEPT !.pos = @ + HeaderSize + Header.len, !.scratch = Append(@, Fragment)]
                                  ELSE [rd EXCEPT !.pos = @ + HeaderSize + Header.len]
                         /\ out' = out
      /\ t = "last" => /\ rd' = [rd EXCEPT !.pos = @ + HeaderSize + Header.len, !.scratch = <<>>, !.inFragment = FALSE]
                       /\ out' = IF rd.inFragment THEN Append(out, Append(rd.scratch, Fragment)) ELSE out
  BY DEF Assemble, StartScratch, DropBuffer
<1>2. t \in {"bad", "full", "first", "middle", "last"}
  <2>1. ASSUME t = Header.type, Accepts PROVE t # "zero"
    BY <2>1 DEF Accepts, IntactHeader
  <2>. QED BY <2>1, <1>0 DEF Byte
<1>3. rd'.end = rd.end /\ rd'.eof = rd.eof
  BY <1>0, <1>1, <1>2 DEF Reader
<1>4. t = "bad" => rd'.pos = rd.end /\ rd'.inFragment = FALSE
  BY <1>0, <1>1 DEF Reader
<1>5. t # "bad" => /\ rd'.pos = rd.pos + Size(Header)
                   /\ rd'.inFragment = (t = "first" \/ (t = "middle" /\ rd.inFragment))
  <2>1. rd.pos + HeaderSize + Header.len = rd.pos + Size(Header)
    BY <1>0
  <2>2. t # "bad" => rd'.pos = rd.pos + Size(Header)
    BY <2>1, <1>0, <1>1, <1>2 DEF Reader
  <2>3. rd.inFragment \in BOOLEAN
    BY <1>0 DEF Reader
  <2>4. CASE t \in {"full", "last"}
    BY <2>4, <2>2, <1>0, <1>1 DEF Reader
  <2>5. CASE t = "first"
    BY <2>5, <2>2, <1>0, <1>1 DEF Reader
  <2>6. CASE t = "middle"
    <3>1. rd'.inFragment = rd.inFragment
      BY <2>6, <1>0, <1>1 DEF Reader
    <3>. QED BY <3>1, <2>2, <2>3, <2>6
  <2>. QED BY <2>4, <2>5, <2>6, <1>2
<1>6. ASSUME NEW r, r \in Seq(Fragments), out' = Append(out, r)
      PROVE  Read \subseteq Read' /\ r[1].id \in Read'
  <2>1. /\ Len(out') = Len(out) + 1 /\ out'[Len(out) + 1] = r
        /\ \A i \in 1..Len(out) : out'[i] = out[i]
    BY <1>0, <1>6
  <2>2. Len(out) + 1 \in 1..Len(out') /\ \A i \in 1..Len(out) : i \in 1..Len(out')
    BY <2>1, <1>0
  <2>. QED BY <2>1, <2>2 DEF Read
<1>7. out' = out => Read' = Read
  BY DEF Read
<1>8. Fragment \in Fragments /\ <<Fragment>> \in Seq(Fragments) /\ <<Fragment>>[1] = Fragment /\ Fragment.id = Header.id
  BY <1>0 DEF FragmentOf, Fragments, Byte
<1>9. CASE t = "full"
  BY <1>1, <1>3, <1>5, <1>6, <1>8, <1>9
<1>10. CASE t = "last" /\ rd.inFragment
  <2>1. /\ Append(rd.scratch, Fragment) \in Seq(Fragments)
        /\ Append(rd.scratch, Fragment)[1].id = Fragment.id
    BY <1>10, Continued
  <2>2. out' = Append(out, Append(rd.scratch, Fragment))
    BY <1>1, <1>10
  <2>3. Read \subseteq Read' /\ Append(rd.scratch, Fragment)[1].id \in Read'
    BY <1>6, <2>1, <2>2
  <2>. QED BY <2>1, <2>3, <1>3, <1>5, <1>8, <1>10
<1>11. CASE t \in {"bad", "first", "middle"} \/ (t = "last" /\ ~rd.inFragment)
  BY <1>1, <1>3, <1>4, <1>5, <1>7, <1>11
<1>. QED BY <1>2, <1>9, <1>10, <1>11

LEMMA ReadProgress ==
    ASSUME PhantomInv, WindowInv, ProgressInv, pc = "read", BufferSize >= HeaderSize,
           NEW p \in PhysicalRecords, p[1] # "eof", Assemble(p[1]), UNCHANGED file,
           NEW c \in 1..Len(file), Clean(file, c)
    PROVE  ReadUpTo(c)'
<1>. PICK t : t = p[1]
  OBVIOUS
<1>0. /\ rd.pos \in Nat /\ rd.end \in Nat /\ rd.pos + HeaderSize <= rd.end /\ HeaderSize \in Nat /\ HeaderSize > 0
      /\ Size(Header) \in Nat /\ Size(Header) >= HeaderSize /\ c \in Nat /\ Header \in Byte
      /\ file \in Seq(Byte) /\ Len(file) \in Nat /\ rd.end <= Len(file)
  BY ReadTypes, Sizes1
<1>1. t = "bad" \/ (t = Header.type /\ Accepts)
  <2>1. p = <<Header.type, FALSE>> => p[1] = Header.type
    OBVIOUS
  <2>. QED BY <2>1, PhysicalCases
<1>2. /\ Read \subseteq Read'
      /\ t = "bad" => rd'.pos = rd.end /\ rd'.inFragment = FALSE
      /\ t # "bad" =>
            /\ rd'.pos = rd.pos + Size(Header)
            /\ rd'.inFragment = (t = "first" \/ (t = "middle" /\ rd.inFragment))
            /\ t = "full" \/ (t = "last" /\ rd.inFragment) => Header.id \in Read'
  BY <1>1, ReadStep
<1>3. \A k \in 1..c : k <= rd.pos /\ Ends(file[k]) /\ Completes(file[k]) => file[k].id \in Read
  BY DEF ProgressInv, ReadUpTo
<1>4. CASE rd.pos >= c
  <2>1. rd'.pos > c
    BY <1>0, <1>1, <1>2, <1>4
  <2>2. \A k \in 1..c : k <= rd.pos
    BY <1>0, <1>4
  <2>. QED BY <2>1, <2>2, <1>0, <1>2, <1>3 DEF ReadUpTo
<1>5. CASE rd.pos < c
  <2>1. /\ IsData(Header)
        /\ rd.pos + Size(Header) <= c => Accepts /\ PhysicalRecords = {<<Header.type, FALSE>>}
        /\ p[1] = "bad" => rd.end > c /\ rd.pos + Size(Header) > c
    BY <1>5, HeadAccepted
  <2>2. /\ \A i \in 1..Size(Header) : rd.pos + i <= c => file[rd.pos + i] = [Header EXCEPT !.at = i]
        /\ \A k \in (rd.pos + 1)..c : k < rd.pos + Size(Header) => ~Ends(file[k])
        /\ Header.type \in {"full", "first"} => ~rd.inFragment
        /\ Header.type \in {"middle", "last"} => rd.inFragment
    BY <1>5, <2>1, Window
  <2>3. CASE rd.pos + Size(Header) > c
    <3>1. rd'.pos > c
      BY <1>0, <1>1, <1>2, <2>1, <2>3
    <3>2. ASSUME NEW k \in 1..c, Ends(file[k]), Completes(file[k]) PROVE file[k].id \in Read'
      <4>1. ~(k \in (rd.pos + 1)..c)
        <5>1. k \in Nat /\ k < rd.pos + Size(Header)
          BY <1>0, <2>3
        <5>. QED BY <5>1, <2>2, <3>2
      <4>2. k <= rd.pos
        BY <4>1, <1>0
      <4>. QED BY <4>2, <3>2, <1>2, <1>3
    <3>3. ~(rd'.pos <= c)
      BY <3>1, <1>0, <1>1, <1>2
    <3>. QED BY <3>2, <3>3 DEF ReadUpTo
  <2>4. CASE rd.pos + Size(Header) <= c
    <3>. PICK z : z = rd.pos + Size(Header)
      OBVIOUS
    <3>1. t = Header.type /\ t # "bad" /\ t \in {"full", "first", "middle", "last"}
      <4>1. p = <<Header.type, FALSE>>
        BY <2>1, <2>4
      <4>2. t = Header.type
        BY <4>1
      <4>. QED BY <4>2, <1>0, <2>1 DEF Byte, IsData
    <3>2. z \in Nat /\ z > rd.pos /\ z >= 1 /\ z <= c /\ rd'.pos = z /\ Size(Header) \in 1..Size(Header)
      BY <3>1, <1>0, <1>2, <2>4
    <3>3. file[z] = [Header EXCEPT !.at = Size(Header)]
      BY <3>2, <2>2
    <3>4. /\ file[z].at = Size(Header) /\ Size(file[z]) = Size(Header) /\ file[z].type = Header.type
          /\ file[z].id = Header.id
      BY <3>3, <1>0 DEF Byte, Size
    <3>5. IsData(file[z]) /\ Ends(file[z])
      BY <3>4, <2>1 DEF IsData, Ends
    <3>6. Boundary(file, z)
      BY <3>5 DEF Boundary
    <3>7. Dangling(file, z) <=> GoesOn(file[z])
      BY <3>2, <3>5, DataDangles
    <3>8. rd'.inFragment <=> GoesOn(file[z])
      BY <3>1, <3>4, <1>2, <2>2 DEF GoesOn
    <3>9. ASSUME NEW k \in 1..c, k <= z, Ends(file[k]), Completes(file[k]) PROVE file[k].id \in Read'
      <4>1. CASE k <= rd.pos
        BY <4>1, <3>9, <1>2, <1>3
      <4>2. CASE k = z
        <5>1. Header.type \in {"full", "last"}
          BY <4>2, <3>4, <3>9 DEF Completes
        <5>2. Header.id \in Read'
          BY <5>1, <3>1, <1>2, <2>2
        <5>. QED BY <5>2, <4>2, <3>4
      <4>3. CASE k > rd.pos /\ k < z
        <5>1. k \in (rd.pos + 1)..c /\ k < rd.pos + Size(Header)
          BY <4>3, <1>0
        <5>. QED BY <5>1, <2>2, <3>9
      <4>. QED BY <4>1, <4>2, <4>3, <3>2, <3>9, <1>0
    <3>. QED BY <3>2, <3>6, <3>7, <3>8, <3>9 DEF ReadUpTo
  <2>. QED BY <2>3, <2>4, <1>0
<1>. QED BY <1>4, <1>5, <1>0

LEMMA ReadQuiet ==
    ASSUME PhantomInv, WindowInv, ProgressInv, pc = "read", BufferSize >= HeaderSize,
           NEW p \in PhysicalRecords, p[1] # "eof", Clean(file, Len(file))
    PROVE  ~p[2] /\ ~AssemblyReports(p[1])
<1>. PICK c : c = Len(file)
  OBVIOUS
<1>0. /\ rd.pos \in Nat /\ rd.end \in Nat /\ rd.pos + HeaderSize <= rd.end /\ HeaderSize \in Nat /\ HeaderSize > 0
      /\ Len(file) \in Nat /\ rd.end <= Len(file) /\ Header \in Byte
  BY ReadTypes, Sizes1
<1>1. c \in 1..Len(file) /\ rd.pos < c /\ Clean(file, c)
  BY <1>0
<1>2. p[1] # "bad"
  <2>1. p[1] = "bad" => rd.end > c
    BY <1>1, HeadAccepted
  <2>2. ~(rd.end > c)
    BY <1>0
  <2>. QED BY <2>1, <2>2
<1>3. p = <<Header.type, FALSE>> /\ IsData(Header)
  BY <1>1, <1>2, PhysicalCases, HeadAccepted
<1>4. p[1] = Header.type /\ p[2] = FALSE
  BY <1>3
<1>5. /\ Header.type \in {"full", "first"} => ~rd.inFragment
      /\ Header.type \in {"middle", "last"} => rd.inFragment
  BY <1>1, <1>3, Window
<1>. QED BY <1>2, <1>4, <1>5 DEF AssemblyReports

(* The reader's next block. *)
LEMMA BlockProgress ==
    ASSUME PhantomInv, WindowInv, ProgressInv, ReadBlock
    PROVE  WindowInv' /\ ProgressInv'
<1>. PICK n : n = IF Len(file) - rd.end < BlockSize THEN Len(file) - rd.end ELSE BlockSize
  OBVIOUS
<1>0. /\ pc = "read" /\ UNCHANGED <<pc, file, out>> /\ ~rd.eof
      /\ rd' = [rd EXCEPT !.pos = rd.end, !.end = rd.end + n, !.eof = n < BlockSize]
      /\ BufferSize < HeaderSize
  BY DEF ReadBlock, writerVars
<1>1. /\ rd \in Reader /\ rd.pos \in 0..rd.end /\ rd.end \in 0..Len(file) /\ Len(file) \in Nat
      /\ BlockSize \in Nat /\ BlockSize > 0 /\ HeaderSize \in Nat /\ HeaderSize < BlockSize
  BY <1>0, Sizes1 DEF PhantomInv, FileInv, ReadInv
<1>2. /\ n \in Nat /\ rd.end + n <= Len(file) /\ n <= BlockSize
      /\ (n < BlockSize => rd.end + n = Len(file)) /\ (~(n < BlockSize) => n = BlockSize)
  BY ONLY <1>1, n = IF Len(file) - rd.end < BlockSize THEN Len(file) - rd.end ELSE BlockSize
<1>3. /\ rd'.pos = rd.end /\ rd'.end = rd.end + n /\ rd'.eof = (n < BlockSize)
      /\ rd'.inFragment = rd.inFragment
  BY <1>0, <1>1 DEF Reader
<1>4. Aligned(rd.end)
  BY <1>0 DEF WindowInv
<1>5. WindowInv'
  <2>1. rd'.eof \in BOOLEAN
    BY <1>3
  <2>2. ~rd'.eof => Aligned(rd'.end)
    <3>. SUFFICES ASSUME ~(n < BlockSize) PROVE Aligned(rd.end + n)
      BY <1>3
    <3>1. n = BlockSize /\ rd.end \in Nat
      BY <1>1, <1>2
    <3>. QED BY <3>1, <1>4, AlignedNext
  <2>3. rd'.eof => rd'.end = Len(file')
    BY <1>0, <1>2, <1>3
  <2>4. rd.end \in 0..rd'.pos /\ rd'.end <= rd.end + BlockSize /\ (rd'.end = rd.end + BlockSize \/ rd'.eof)
    <3>1. rd.end \in Nat /\ rd.end \in 0..rd.end /\ rd.end + n <= rd.end + BlockSize
      BY ONLY <1>1, <1>2
    <3>2. CASE n < BlockSize
      BY <3>1, <3>2, <1>3
    <3>3. CASE ~(n < BlockSize)
      BY <3>1, <3>3, <1>2, <1>3
    <3>. QED BY <3>2, <3>3
  <2>. QED BY <2>1, <2>2, <2>3, <2>4, <1>4 DEF WindowInv
<1>6. ASSUME NEW c \in 1..Len(file), Clean(file, c) PROVE ReadUpTo(c)'
  <2>0. /\ rd.pos <= c => Boundary(file, rd.pos) /\ (rd.inFragment <=> Dangling(file, rd.pos))
        /\ \A k \in 1..c : k <= rd.pos /\ Ends(file[k]) /\ Completes(file[k]) => file[k].id \in Read
    BY <1>0, <1>6 DEF ProgressInv, ReadUpTo
  <2>1. Read' = Read
    BY <1>0 DEF Read
  <2>2. rd.pos \in Nat /\ rd.end \in Nat /\ rd.pos <= rd.end /\ c \in Nat
    BY <1>1
  <2>3. CASE rd.pos = rd.end \/ rd.pos >= c
    <3>1. rd.end <= c => rd.pos = rd.end
      BY <2>2, <2>3
    <3>2. \A k \in 1..c : k <= rd.end => k <= rd.pos
      BY <2>2, <2>3
    <3>. QED BY <3>1, <3>2, <2>0, <2>1, <1>0, <1>3 DEF ReadUpTo
  <2>4. CASE rd.pos < rd.end /\ rd.pos < c
    <3>1. /\ Size(Header) \in Nat /\ Size(Header) >= HeaderSize
          /\ ~IsData(Header) => \A k \in (rd.pos + 1)..c : k <= rd.end => ~IsData(file[k])
          /\ IsData(Header) /\ rd.pos < rd.end => rd.pos + Size(Header) <= rd.end \/ (rd.eof /\ rd.end = Len(file))
      BY <1>0, <1>6, <2>4, Window
    <3>2. ~IsData(Header)
      <4>. SUFFICES ASSUME rd.pos + Size(Header) <= rd.end PROVE FALSE
        BY <3>1, <2>4, <1>0
      <4>1. rd.end - rd.pos < HeaderSize
        BY <1>0 DEF BufferSize
      <4>. QED BY <4>1, <3>1, <2>2, <1>1
    <3>3. \A k \in (rd.pos + 1)..c : k <= rd.end => ~IsData(file[k])
      BY <3>1, <3>2
    <3>4. rd.end <= c => Boundary(file, rd.end) /\ (rd.inFragment <=> Dangling(file, rd.end))
      <4>. SUFFICES ASSUME rd.end <= c PROVE Boundary(file, rd.end) /\ (rd.inFragment <=> Dangling(file, rd.end))
        OBVIOUS
      <4>1. rd.end \in (rd.pos + 1)..c /\ rd.end <= rd.end
        BY <2>2, <2>4
      <4>2. Boundary(file, rd.end)
        BY <4>1, <3>3 DEF Boundary
      <4>3. \A k \in (rd.pos + 1)..rd.end : k \in (rd.pos + 1)..c /\ k <= rd.end
        BY <2>2
      <4>4. \A k \in (rd.pos + 1)..rd.end : ~IsData(file[k])
        BY <4>3, <3>3
      <4>5. Dangling(file, rd.end) <=> Dangling(file, rd.pos)
        BY ONLY <4>4, <2>2, ZerosDangle
      <4>6. rd.pos <= c
        BY <2>2, <2>4
      <4>. QED BY <4>2, <4>5, <4>6, <2>0
    <3>5. ASSUME NEW k \in 1..c, k <= rd.end, Ends(file[k]), Completes(file[k]) PROVE file[k].id \in Read
      <4>1. ~(k \in (rd.pos + 1)..c)
        BY <3>3, <3>5 DEF Ends
      <4>2. k <= rd.pos
        BY <4>1, <2>2
      <4>. QED BY <4>2, <3>5, <2>0
    <3>. QED BY <3>4, <3>5, <2>1, <1>0, <1>3 DEF ReadUpTo
  <2>. QED BY <2>2, <2>3, <2>4
<1>7. ProgressInv'
  <2>1. rd'.inFragment \in BOOLEAN
    BY <1>1, <1>3 DEF Reader
  <2>. QED BY <2>1, <1>0, <1>6 DEF ProgressInv
<1>. QED BY <1>5, <1>7

LEMMA RecordProgress ==
    ASSUME PhantomInv, WindowInv, ProgressInv, CrashInv, NoFalseAlarm, ReadRecord
    PROVE  WindowInv' /\ ProgressInv' /\ NoFalseAlarm'
<1>0. pc = "read" /\ BufferSize >= HeaderSize /\ UNCHANGED <<pc, file, records, crashes>>
  BY DEF ReadRecord, writerVars
<1>1. PICK p \in PhysicalRecords :
         /\ p[1] # "eof" /\ Assemble(p[1])
         /\ reported' = (reported \/ p[2] \/ AssemblyReports(p[1]))
  BY DEF ReadRecord
<1>2. p[1] = "bad" \/ (p[1] = Header.type /\ Accepts)
  <2>1. p = <<Header.type, FALSE>> => p[1] = Header.type
    OBVIOUS
  <2>. QED BY <2>1, <1>0, <1>1, PhysicalCases
<1>3. /\ rd'.end = rd.end /\ rd'.eof = rd.eof
      /\ rd'.pos = rd.end \/ (Accepts /\ rd'.pos = rd.pos + Size(Header))
  BY <1>0, <1>1, <1>2, ReadStep
<1>4. /\ rd.pos \in Nat /\ rd.end \in Nat /\ rd.pos <= rd.end /\ Size(Header) \in Nat
      /\ rd.pos + HeaderSize <= rd.end /\ HeaderSize \in Nat /\ HeaderSize > 0
      /\ rd.pos \in 0..rd.end
  <2>1. rd.pos \in 0..rd.end
    BY <1>0 DEF PhantomInv, ReadInv
  <2>. QED BY <2>1, <1>0, ReadTypes, Sizes1
<1>5. WindowInv'
  <2>1. /\ rd.eof \in BOOLEAN /\ (~rd.eof => Aligned(rd.end)) /\ (rd.eof => rd.end = Len(file))
    BY <1>0 DEF WindowInv
  <2>2. PICK a \in 0..rd.pos : /\ Aligned(a) /\ rd.end <= a + BlockSize
                               /\ rd.end = a + BlockSize \/ rd.eof \/ rd.pos = rd.end
    BY <1>0 DEF WindowInv
  <2>3. rd.pos <= rd'.pos /\ rd'.pos \in Nat
    BY <1>3, <1>4
  <2>4. a \in 0..rd'.pos
    BY <2>3, <1>4
  <2>5. rd.pos # rd.end
    BY <1>4
  <2>. QED BY <2>1, <2>2, <2>4, <2>5, <1>0, <1>3 DEF WindowInv
<1>6. \A c \in 1..Len(file) : Clean(file, c) => ReadUpTo(c)'
  BY <1>0, <1>1, ReadProgress
<1>7. ProgressInv'
  <2>1. rd'.inFragment \in BOOLEAN
    <3>1. PhantomInv'
      BY ReadPhantom
    <3>. QED BY <3>1 DEF PhantomInv, ReadInv, Reader
  <2>. QED BY <2>1, <1>0, <1>6 DEF ProgressInv
<1>8. NoFalseAlarm'
  <2>. SUFFICES ASSUME crashes = 1, NoFailure PROVE ~reported'
    BY <1>0 DEF NoFalseAlarm, NoFailure
  <2>1. ~reported
    BY DEF NoFalseAlarm, NoFailure
  <2>2. Clean(file, Len(file))
    BY <1>0 DEF CrashInv
  <2>3. ~p[2] /\ ~AssemblyReports(p[1])
    BY <1>0, <1>1, <2>2, ReadQuiet
  <2>. QED BY <2>1, <2>3, <1>1
<1>. QED BY <1>5, <1>7, <1>8

(* The reader comes to the end only past every record it has to return. *)
LEMMA EofReadBack ==
    ASSUME PhantomInv, GoodInv, WindowInv, ProgressInv, ReadEof
    PROVE  ReadBack'
<1>0. pc = "read" /\ UNCHANGED <<records, out>>
  BY DEF ReadEof, writerVars
<1>. SUFFICES ASSUME NEW i \in 1..Len(records), Good(i) PROVE i \in Read
  BY <1>0 DEF ReadBack, Good, Read
<1>. PICK c : c = records[i].end
  OBVIOUS
<1>1. c \in 1..Len(file) /\ Clean(file, c) /\ Ends(file[c]) /\ Completes(file[c]) /\ file[c].id = i
  BY DEF GoodInv
<1>2. \A k \in 1..c : k <= rd.pos /\ Ends(file[k]) /\ Completes(file[k]) => file[k].id \in Read
  BY <1>0, <1>1 DEF ProgressInv, ReadUpTo
<1>3. c \in Nat /\ c \in 1..c /\ rd.pos \in Nat /\ Len(file) \in Nat /\ c <= Len(file)
  <2>1. Len(file) \in Nat /\ rd.pos \in 0..rd.end /\ rd.end \in 0..Len(file)
    BY <1>0 DEF PhantomInv, FileInv, ReadInv
  <2>. QED BY <2>1, <1>1
<1>4. CASE c <= rd.pos
  BY <1>1, <1>2, <1>3, <1>4
<1>5. CASE rd.pos < c
  <2>0. /\ rd.end \in Nat /\ Header \in Byte /\ HeaderSize \in Nat
        /\ Size(Header) \in Nat /\ Size(Header) >= HeaderSize
        /\ ~IsData(Header) => /\ rd.end < rd.pos + HeaderSize
                              /\ \A p \in (rd.pos + 1)..c : p <= rd.end => ~IsData(file[p])
        /\ IsData(Header) => \A p \in (rd.pos + 1)..c : p < rd.pos + Size(Header) => ~Ends(file[p])
    BY <1>0, <1>1, <1>5, Window
  <2>1. c \in (rd.pos + 1)..c
    BY <1>3, <1>5
  <2>2. IsData(Header) => ~(c < rd.pos + Size(Header))
    BY <2>0, <2>1, <1>1
  <2>3. CASE BufferSize < HeaderSize /\ rd.eof
    <3>1. rd.end = Len(file)
      BY <1>0, <2>3 DEF WindowInv
    <3>2. c <= rd.end /\ rd.end < rd.pos + HeaderSize
      <4>1. rd.end - rd.pos < HeaderSize
        BY <2>3 DEF BufferSize
      <4>. QED BY ONLY <4>1, <3>1, <2>0, <1>3
    <3>3. ~IsData(Header) => ~IsData(file[c])
      BY <2>0, <2>1, <3>2
    <3>4. c < rd.pos + Size(Header)
      BY ONLY <3>2, <2>0, <1>3
    <3>. QED BY <2>2, <3>3, <3>4, <1>1 DEF Ends
  <2>4. CASE BufferSize >= HeaderSize /\ \E p \in PhysicalRecords : p[1] = "eof"
    <3>1. /\ IsData(Header)
          /\ rd.pos + Size(Header) <= c => PhysicalRecords = {<<Header.type, FALSE>>}
      BY <2>4, <1>0, <1>1, <1>5, HeadAccepted
    <3>2. PhysicalRecords = {<<Header.type, FALSE>>}
      <4>1. ~(c < rd.pos + Size(Header))
        BY <3>1, <2>2
      <4>2. rd.pos + Size(Header) <= c
        BY ONLY <4>1, <2>0, <1>3
      <4>. QED BY <4>2, <3>1
    <3>3. PICK p \in PhysicalRecords : p[1] = "eof"
      BY <2>4
    <3>4. p = <<Header.type, FALSE>>
      BY <3>2
    <3>5. p[1] = Header.type
      BY <3>4
    <3>. QED BY <3>3, <3>5, <2>0 DEF Byte
  <2>. QED BY <2>3, <2>4 DEF ReadEof
<1>. QED BY <1>3, <1>4, <1>5

-----------------------------------------------------------------------------
(***************************************************************************)
(* The theorems                                                            *)
(***************************************************************************)
LEMMA WalInit == Init => WalInv
<1>. SUFFICES ASSUME Init PROVE WalInv
  OBVIOUS
<1>0. /\ pc = "idle" /\ file = <<>> /\ block_offset = 0 /\ records = <<>>
      /\ reported = FALSE /\ crashes = 0 /\ Len(file) = 0 /\ Len(records) = 0
  BY DEF Init
<1>1. PhantomInv
  BY PhantomInit
<1>2. GoodInv
  BY <1>0 DEF GoodInv
<1>3. \A n \in 0..Len(file) : Clean(file, n)
  BY <1>0 DEF Clean
<1>4. SoundInv
  <2>1. Clean(file, Len(file)) /\ ~Dangling(file, Len(file))
    BY <1>0, <1>3 DEF Dangling
  <2>2. 0 \in 0..Len(file) /\ Aligned(0) /\ Len(file) = 0 + block_offset
    BY <1>0, AlignedZero
  <2>. QED BY <1>0, <2>1, <2>2 DEF SoundInv
<1>5. CrashInv
  BY <1>0, <1>3 DEF CrashInv, Writing
<1>6. WindowInv /\ ProgressInv /\ NoFalseAlarm /\ ReadBack
  BY <1>0 DEF WindowInv, ProgressInv, NoFalseAlarm, ReadBack
<1>. QED BY <1>1, <1>2, <1>4, <1>5, <1>6 DEF WalInv

LEMMA WalNext == WalInv /\ [Next]_vars => WalInv'
<1>. SUFFICES ASSUME WalInv, [Next]_vars PROVE WalInv'
  OBVIOUS
<1>0. PhantomInv /\ GoodInv /\ SoundInv /\ CrashInv /\ WindowInv /\ ProgressInv /\ NoFalseAlarm /\ ReadBack
  BY DEF WalInv
<1>1. PhantomInv'
  BY <1>0, PhantomNext
\* a step of the writer reports nothing
<1>2. ASSUME UNCHANGED <<reported, crashes>>, NoFailure' => NoFailure PROVE NoFalseAlarm'
  BY <1>0, <1>2 DEF NoFalseAlarm, NoFailure
<1>3. ASSUME pc' # "read", pc' # "recovered" PROVE WindowInv' /\ ProgressInv' /\ ReadBack'
  BY <1>3 DEF WindowInv, ProgressInv, ReadBack
<1>4. ASSUME NEW n \in Sizes, AddRecord(n) PROVE WalInv'
  <2>1. GoodInv' /\ SoundInv' /\ CrashInv'
    BY <1>0, <1>4, AddGood
  <2>2. NoFailure' => NoFailure
    <3>1. records \in Seq(Record)
      BY <1>0 DEF PhantomInv, FileInv
    <3>2. /\ Len(records') = Len(records) + 1 /\ Len(records) \in Nat
          /\ \A i \in 1..Len(records) : records'[i] = records[i]
      BY <1>4, <3>1 DEF AddRecord
    <3>3. \A i \in 1..Len(records) : i \in 1..Len(records')
      BY <3>2
    <3>. QED BY <3>2, <3>3 DEF NoFailure
  <2>3. pc' = "add" /\ UNCHANGED <<reported, crashes>>
    BY <1>4 DEF AddRecord, readerVars
  <2>. QED BY <1>1, <1>2, <1>3, <2>1, <2>2, <2>3 DEF WalInv
<1>5. CASE EmitPhysicalRecord
  <2>1. GoodInv' /\ SoundInv' /\ CrashInv'
    BY <1>0, <1>5, EmitGood
  <2>2. /\ Len(records) \in Nat /\ Len(records) >= 1 /\ Len(records') = Len(records)
        /\ \A i \in 1..Len(records) : i # Len(records) => records'[i] = records[i]
        /\ pc' \in {"add", "added", "idle"} /\ pc = "add"
    BY <1>0, <1>5, EmitRecords DEF EmitPhysicalRecord
  <2>3. records[Len(records)].status = "pending"
    BY <1>0, <2>2 DEF SoundInv, Last
  <2>4. NoFailure' => NoFailure
    BY <2>2, <2>3 DEF NoFailure
  <2>5. UNCHANGED <<reported, crashes>>
    BY <1>5 DEF EmitPhysicalRecord, readerVars
  <2>. QED BY <1>1, <1>2, <1>3, <2>1, <2>2, <2>4, <2>5 DEF WalInv
<1>6. CASE Sync
  <2>1. /\ pc = "added" /\ pc' = "idle" /\ UNCHANGED <<file, block_offset, records, reported, crashes>>
    BY <1>6 DEF Sync, readerVars
  <2>2. GoodInv' /\ SoundInv' /\ CrashInv'
    BY <1>0, <2>1, FileSame DEF Writing
  <2>3. NoFailure' => NoFailure
    BY <2>1 DEF NoFailure
  <2>. QED BY <1>1, <1>2, <1>3, <2>1, <2>2, <2>3 DEF WalInv
<1>7. CASE Crash
  <2>1. GoodInv' /\ SoundInv' /\ CrashInv'
    BY <1>0, <1>7, CrashGood
  <2>2. pc' = "read" /\ rd' = NewReader /\ out' = <<>> /\ reported' = FALSE
    BY <1>7 DEF Crash
  <2>3. rd'.pos = 0 /\ rd'.end = 0 /\ rd'.eof = FALSE /\ rd'.inFragment = FALSE
    BY <2>2 DEF NewReader
  <2>4. BlockSize \in Nat /\ Len(file') \in Nat
    BY <1>1, Sizes1 DEF PhantomInv, FileInv
  <2>5. WindowInv'
    <3>1. 0 \in 0..rd'.pos /\ rd'.end <= 0 + BlockSize /\ Aligned(rd'.end) /\ Aligned(0)
      BY <2>3, <2>4, AlignedZero
    <3>. QED BY <2>3, <3>1 DEF WindowInv
  <2>6. ProgressInv'
    <3>1. ASSUME NEW c \in 1..Len(file') PROVE ReadUpTo(c)'
      <4>1. Boundary(file', 0) /\ ~Dangling(file', 0)
        BY DEF Boundary, Dangling
      <4>2. \A p \in 1..c : ~(p <= 0)
        BY <2>4
      <4>. QED BY <2>3, <4>1, <4>2 DEF ReadUpTo
    <3>. QED BY <2>3, <3>1 DEF ProgressInv
  <2>7. NoFalseAlarm' /\ ReadBack'
    BY <2>2 DEF NoFalseAlarm, ReadBack
  <2>. QED BY <1>1, <2>1, <2>5, <2>6, <2>7 DEF WalInv
<1>8. CASE ReadBlock \/ ReadRecord
  <2>1. pc = "read" /\ pc' = "read" /\ UNCHANGED <<file, records, crashes, block_offset>>
    BY <1>8 DEF ReadBlock, ReadRecord, writerVars
  <2>2. crashes # 0
    BY <1>0, <2>1 DEF CrashInv, Writing
  <2>3. GoodInv' /\ SoundInv' /\ CrashInv'
    BY <1>0, <2>1, <2>2, FileSame DEF Writing
  <2>4. ReadBack'
    BY <2>1 DEF ReadBack
  <2>5. CASE ReadBlock
    <3>1. WindowInv' /\ ProgressInv'
      BY <1>0, <2>5, BlockProgress
    <3>2. UNCHANGED reported /\ (NoFailure' => NoFailure)
      BY <2>1, <2>5 DEF ReadBlock, NoFailure
    <3>. QED BY <1>1, <1>2, <2>1, <2>3, <2>4, <3>1, <3>2 DEF WalInv
  <2>6. CASE ReadRecord
    BY <1>0, <1>1, <2>3, <2>4, <2>6, RecordProgress DEF WalInv
  <2>. QED BY <1>8, <2>5, <2>6
<1>9. CASE ReadEof
  <2>1. pc = "read" /\ pc' = "recovered" /\ UNCHANGED <<file, records, crashes, block_offset, reported>>
    BY <1>9 DEF ReadEof, writerVars
  <2>2. crashes # 0
    BY <1>0, <2>1 DEF CrashInv, Writing
  <2>3. GoodInv' /\ SoundInv' /\ CrashInv'
    BY <1>0, <2>1, <2>2, FileSame DEF Writing
  <2>4. ReadBack'
    BY <1>0, <1>9, EofReadBack
  <2>5. WindowInv' /\ ProgressInv'
    BY <2>1 DEF WindowInv, ProgressInv
  <2>6. NoFailure' => NoFailure
    BY <2>1 DEF NoFailure
  <2>. QED BY <1>1, <1>2, <2>1, <2>3, <2>4, <2>5, <2>6 DEF WalInv
<1>10. CASE ReuseLog
  <2>1. /\ pc = "recovered" /\ pc' = "idle" /\ UNCHANGED <<file, records, crashes, reported>>
        /\ block_offset' = Len(file) % BlockSize
    BY <1>10 DEF ReuseLog, readerVars
  <2>2. crashes # 0
    BY <1>0, <2>1 DEF CrashInv, Writing
  <2>3. \E a \in 0..Len(file) : Aligned(a) /\ Len(file) = a + block_offset'
    <3>1. Len(file) \in Nat
      BY <1>0 DEF PhantomInv, FileInv
    <3>. QED BY <2>1, <3>1, AlignedPart
  <2>4. GoodInv' /\ SoundInv' /\ CrashInv'
    <3>1. /\ UNCHANGED <<file, records, crashes>> /\ pc # "add" /\ pc' # "add" /\ ~(pc' = "read")
          /\ crashes # 0
      BY <2>1, <2>2
    <3>2. crashes = 0 => Writing' /\ UNCHANGED reported
      BY <3>1
    <3>3. pc' = "read" => pc = "read"
      BY <3>1
    <3>4. Writing' => \/ \E a \in 0..Len(file) : Aligned(a) /\ Len(file) = a + block_offset'
                      \/ Writing /\ UNCHANGED block_offset
      BY <2>3
    <3>5. GoodInv /\ SoundInv /\ CrashInv
      BY <1>0
    <3>. QED BY ONLY <3>1, <3>2, <3>3, <3>4, <3>5, FileSame
  <2>5. NoFailure' => NoFailure
    BY <2>1 DEF NoFailure
  <2>. QED BY <1>1, <1>2, <1>3, <2>1, <2>4, <2>5 DEF WalInv
<1>11. CASE UNCHANGED vars
  <2>1. UNCHANGED <<pc, file, block_offset, add, records, rd, out, reported, crashes>>
    BY <1>11 DEF vars
  <2>2. GoodInv'
    BY <1>0, <2>1 DEF GoodInv, Good
  <2>3. SoundInv'
    BY <1>0, <2>1 DEF SoundInv, Sound, Writing
  <2>4. CrashInv'
    BY <1>0, <2>1 DEF CrashInv, Writing, NoFailure
  <2>5. WindowInv'
    BY <1>0, <2>1 DEF WindowInv
  <2>6. ProgressInv'
    BY <1>0, <2>1 DEF ProgressInv, ReadUpTo, Read
  <2>7. NoFalseAlarm' /\ ReadBack'
    BY <1>0, <2>1 DEF NoFalseAlarm, ReadBack, Read
  <2>. QED BY <1>1, <2>2, <2>3, <2>4, <2>5, <2>6, <2>7 DEF WalInv
<1>. QED BY <1>4, <1>5, <1>6, <1>7, <1>8, <1>9, <1>10, <1>11 DEF Next

(* A record that AddRecord returned OK for, and that no crash cut off, is   *)
(* in what RecoverWalFile replays, as long as nothing before it failed or   *)
(* was cut off: the reader finds every fragment where the writer put it,    *)
(* and gives up on nothing before it.                                       *)
THEOREM AcknowledgedReadBack == Spec => []ReadBack
<1>1. WalInv => ReadBack
  BY DEF WalInv
<1>. QED BY <1>1, WalInit, WalNext, PTL DEF Spec

(* Without a failed append, the first recovery after a crash never calls    *)
(* Reporter::Corruption, wherever the crash cut the file off, so that       *)
(* paranoid_checks does not keep the database from opening.                 *)
THEOREM CrashNotReported == Spec => []NoFalseAlarm
<1>1. WalInv => NoFalseAlarm
  BY DEF WalInv
<1>. QED BY <1>1, WalInit, WalNext, PTL DEF Spec
=============================================================================
