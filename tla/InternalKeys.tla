--------------------------- MODULE InternalKeys -----------------------------
(***************************************************************************)
(* Keys and their orders (src/src/utils/comparator.cc, dbformat.cc).  A key *)
(* is a sequence of bytes.  An internal key is a user key followed by a tag *)
(* of TagSize bytes (8 in the code) that holds the sequence number and the  *)
(* type, least significant byte first.                                      *)
(***************************************************************************)
EXTENDS Integers, Sequences

CONSTANTS
    MaxByte,    \* 0xff
    TagSize     \* the length of the tag

ASSUME KeysAssumption == MaxByte \in Nat \ {0} /\ TagSize \in Nat \ {0}

Bytes == 0..MaxByte

-----------------------------------------------------------------------------
(***************************************************************************)
(* BytewiseComparator                                                      *)
(***************************************************************************)

(* a and b agree on their first n bytes. *)
Agree(a, b, n) ==
    n <= Len(a) /\ n <= Len(b) /\ \A i \in 1..n : a[i] = b[i]

(* a and b agree on n bytes and differ in the next one. *)
DifferAfter(a, b, n) ==
    Agree(a, b, n) /\ n < Len(a) /\ n < Len(b) /\ a[n + 1] # b[n + 1]

(* Compare(a, b) < 0 *)
Less(a, b) ==
    \E n \in 0..Len(a) :
        /\ Agree(a, b, n) /\ n < Len(b)
        /\ n < Len(a) => a[n + 1] < b[n + 1]

(* The first n bytes of a, the last of them increased. *)
Bump(a, n) == [i \in 1..n |-> IF i = n THEN a[i] + 1 ELSE a[i]]

(* FindShortestSeparator(start, limit) shortens start after n bytes. *)
CanShorten(start, limit, n) ==
    /\ DifferAfter(start, limit, n)
    /\ start[n + 1] < MaxByte /\ start[n + 1] + 1 < limit[n + 1]

FindShortestSeparator(start, limit) ==
    IF \E n \in 0..Len(start) : CanShorten(start, limit, n)
    THEN Bump(start, 1 + CHOOSE n \in 0..Len(start) : CanShorten(start, limit, n))
    ELSE start

(* The first byte that FindShortSuccessor can increase. *)
FirstIncreasable(key, n) ==
    /\ n \in 1..Len(key) /\ key[n] # MaxByte
    /\ \A i \in 1..(n - 1) : key[i] = MaxByte

FindShortSuccessor(key) ==
    IF \E n \in 1..Len(key) : FirstIncreasable(key, n)
    THEN Bump(key, CHOOSE n \in 1..Len(key) : FirstIncreasable(key, n))
    ELSE key

-----------------------------------------------------------------------------
(***************************************************************************)
(* InternalKeyComparator                                                   *)
(***************************************************************************)

ExtractUserKey(key) == SubSeq(key, 1, Len(key) - TagSize)
Tag(key) == SubSeq(key, Len(key) - TagSize + 1, Len(key))

(* DecodeFixed64 of the one is more than that of the other. *)
TagGreater(s, t) ==
    \E i \in 1..TagSize : s[i] > t[i] /\ \A j \in (i + 1)..TagSize : s[j] = t[j]

(* Compare(a, b) < 0 for internal keys: by user key, the newest first. *)
InternalLess(a, b) ==
    \/ Less(ExtractUserKey(a), ExtractUserKey(b))
    \/ ExtractUserKey(a) = ExtractUserKey(b) /\ TagGreater(Tag(a), Tag(b))

(* PackSequenceAndType(kMaxSequenceNumber, kValueTypeForSeek) *)
MaxTag == [i \in 1..TagSize |-> IF i = 1 THEN 1 ELSE MaxByte]

(* InternalKeyComparator::FindShortestSeparator *)
InternalSeparator(start, limit) ==
    LET user == ExtractUserKey(start)
        tmp == FindShortestSeparator(user, ExtractUserKey(limit))
    IN  IF Len(tmp) < Len(user) /\ Less(user, tmp) THEN tmp \o MaxTag ELSE start

(* key separates start from limit in the order of InternalKeyComparator. *)
Separates(key, start, limit) ==
    /\ key = start \/ InternalLess(start, key)
    /\ InternalLess(key, limit)

(* Compare(a, b) < 0 where a is a string out of a block and b an internal  *)
(* key.  If a is shorter than a tag, the length of its user key wraps      *)
(* around, and the comparison reads on behind a: its result is stray       *)
(* unless the bytes of a decide.                                           *)
ComparesLess(a, b, stray) ==
    IF Len(a) >= TagSize THEN InternalLess(a, b)
    ELSE IF \E n \in 0..Len(a) : DifferAfter(a, ExtractUserKey(b), n)
         THEN Less(a, ExtractUserKey(b))
         ELSE stray
=============================================================================
