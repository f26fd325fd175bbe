-------------------------------- MODULE Blob --------------------------------
(***************************************************************************)
(* LVBlob (blob.cpp) and the stream functions over it (stream.cpp): a      *)
(* buffer, the bytes of it in use, and a position.  A write past the end   *)
(* makes the blob longer, by at least as much again when the buffer has to *)
(* grow; resize changes the buffer, and the length only when it cuts it.   *)
(*                                                                         *)
(* Bytes are small numbers, and readn and writen move as many bytes as     *)
(* their format has (the conversion of numbers is left out).  Writing a    *)
(* blob to itself, negative sizes and files are not modelled.              *)
(***************************************************************************)
EXTENDS Integers, Sequences

CONSTANTS
    Byte,     \* the values of a byte, 0 among them
    Widths,   \* the sizes of the formats of readn and writen, and of the blobs written
    Requests, \* the sizes resize is called with
    MaxSize   \* bound on the bytes of a blob

BlobAssumption ==
    /\ 0 \in Byte
    /\ Widths \subseteq Nat \ {0} /\ Requests \subseteq Nat
    /\ \E widest \in Widths : \A n \in Widths : n <= widest
    /\ MaxSize \in Nat

VARIABLES
    buf,   \* _buf, as long as _allocated
    size,  \* _size
    ptr,   \* _ptr
    got    \* the bytes the last read returned

vars == <<buf, size, ptr, got>>

Allocated == Len(buf)
Zeros(n) == [i \in 1 .. n |-> 0]

\* Seeded bug: the position is moved back only for a blob that had a longer
\* buffer than its contents.
Moved_Late(n) == IF size > n THEN ptr ELSE IF ptr > n THEN n ELSE ptr

\* Resize moves the position back into the buffer ...
Moved(n) == IF ptr > n THEN n ELSE ptr

\* Seeded bug: the bytes kept are those before the position.
Resized_ToPtr(n) == [i \in 1 .. n |-> IF i <= ptr THEN buf[i] ELSE 0]

\* ... and keeps the bytes in use that fit; the rest of the buffer is zero.
Resized(n) == [i \in 1 .. n |-> IF i <= size THEN buf[i] ELSE 0]

\* LVBlob::Resize, by blob.resize
Resize(n) ==
    /\ IF n = Allocated THEN UNCHANGED <<buf, size, ptr>>
       ELSE /\ buf' = Resized(n)
            /\ size' = IF size > n THEN n ELSE size
            /\ ptr' = Moved(n)
    /\ UNCHANGED got

CanAdvance(n) == ptr + n <= size

\* GrowBufOf: room for n bytes more than are in use
Grown(n) ==
    IF size + n <= Allocated THEN buf
    ELSE IF size + n > 2 * size THEN Resized(size + n) ELSE Resized(2 * size)

\* LVBlob::Write, by writeblob and writen
Write(data) ==
    LET n    == Len(data)
        more == ptr + n - size
        room == IF CanAdvance(n) THEN buf ELSE Grown(more)
    IN  /\ IF CanAdvance(n) THEN UNCHANGED size ELSE size' = size + more /\ size' <= MaxSize
        /\ buf' = [i \in 1 .. Len(room) |->
                     IF i \in ptr + 1 .. ptr + n THEN data[i - ptr] ELSE room[i]]
        /\ ptr' = ptr + n
        /\ UNCHANGED got

\* LVBlob::Read returns what there is; readn then fails (SAFE_READN) and has
\* moved the position all the same.
Read(n) ==
    LET m == IF CanAdvance(n) THEN n ELSE size - ptr
    IN  /\ got' = SubSeq(buf, ptr + 1, ptr + m)
        /\ ptr' = ptr + m
        /\ UNCHANGED <<buf, size>>

\* readblob asks for no more than the whole length.
ReadBlob(n) == Read(IF n > size THEN size ELSE n)

\* LVBlob::Seek: from the start, from the position, from the end
Seek(offset, origin) ==
    LET to == CASE origin = "b" -> offset
                [] origin = "c" -> ptr + offset
                [] origin = "e" -> size + offset
    IN  /\ to \in 0 .. size
        /\ ptr' = to
        /\ UNCHANGED <<buf, size, got>>

\* _blob__set
SetByte(i, b) ==
    /\ i \in 0 .. size - 1
    /\ buf' = [buf EXCEPT ![i + 1] = b]
    /\ UNCHANGED <<size, ptr, got>>

\* _blob_swap2 and _blob_swap4: the whole words in use are turned round.
SwapWords(w) ==
    LET num == size \div w
    IN  /\ buf' = [i \in 1 .. Allocated |->
                     LET k == (i - 1) \div w
                     IN  IF k < num THEN buf[k * w + w - ((i - 1) % w)] ELSE buf[i]]
        /\ UNCHANGED <<size, ptr, got>>

\* The constructor, and _cloned without the bytes
Init ==
    /\ size \in Requests
    /\ buf = Zeros(size)
    /\ ptr = 0 /\ got = <<>>

Next ==
    \/ \E n \in Requests : Resize(n)
    \/ \E n \in Widths : Read(n) \/ ReadBlob(n) \/ \E data \in [1 .. n -> Byte] : Write(data)
    \/ \E offset \in -MaxSize .. MaxSize, origin \in {"b", "c", "e"} : Seek(offset, origin)
    \/ \E i \in 0 .. size - 1, b \in Byte : SetByte(i, b)
    \/ \E w \in {2, 4} : SwapWords(w)

Spec == Init /\ [][Next]_vars

-----------------------------------------------------------------------------
\* Properties

\* The types of the variables.
TypeOK ==
    /\ buf \in Seq(Byte) /\ got \in Seq(Byte)
    /\ size \in Nat /\ ptr \in Nat

\* Through growing, shrinking and seeking the position stays inside the
\* contents and the contents inside the buffer: Read and Write copy without a
\* check of their own (blob.cpp:22, 34).
BlobFits == ptr <= size /\ size <= Allocated

MaxWidth == CHOOSE n \in Widths : \A k \in Widths : k <= n

File == INSTANCE ByteFile WITH bytes <- SubSeq(buf, 1, size), pos <- ptr, MaxData <- MaxWidth

\* Whatever the capacity does, the blob is a sequence of bytes with a position.
IsByteFile == File!Spec
=============================================================================
