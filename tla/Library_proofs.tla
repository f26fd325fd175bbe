--------------------------- MODULE Library_proofs ---------------------------
(***************************************************************************)
(* Proofs about the parts of the runtime that keep no state of each other. *)
(* Blob, for every set of bytes, formats and sizes: the position stays     *)
(* inside the contents and the contents inside the buffer, and whatever    *)
(* the buffer does, the blob is a ByteFile.  Values, for every width of    *)
(* integers and floats: comparison is an order, and division has its       *)
(* remainder.  Arrays, for every length: array_sort stays inside the       *)
(* array, loses no element and sorts.                                      *)
(*                                                                         *)
(* LineInfos, for every number of lines and instructions: the search in    *)
(* GetLine finds the line of an instruction.                               *)
(*                                                                         *)
(* Threads, for every number of threads and frames: VMs take turns and get *)
(* what they are handed, unless a busy or suspended thread is called that  *)
(* has a function on top.  The inductive invariant, Turns, says of each VM *)
(* where its frames and registers are (FirstFits, NextFits,                *)
(* RegistersHold), of the activations who made them (ActFits),             *)
(* and that a VM has one root frame for each of its activations.  The      *)
(* lemmas on one VM come first, then those on all VMs when an activation   *)
(* is added or ends, then one for each action.                             *)
(***************************************************************************)
EXTENDS Blob, Values, Arrays, Threads, LineInfos, FiniteSetTheorems, FunctionTheorems,
        SequenceTheorems, TLAPS

----------------------------------------------------------------------------
(* The buffers the operations make.                                        *)

\* A function over 1 .. n is a sequence of that length.
LEMMA TableIsSeq ==
    ASSUME NEW S, NEW n \in Nat, NEW f \in [1 .. n -> S]
    PROVE  f \in Seq(S) /\ Len(f) = n /\ \A i \in 1 .. n : f[i] \in S
  OBVIOUS

\* What a buffer says of its bytes.
LEMMA BufferFacts ==
    ASSUME TypeOK
    PROVE  Allocated \in Nat /\ \A i \in 1 .. Allocated : buf[i] \in Byte
  BY DEF TypeOK, Allocated

\* Realloc (blob.h Resize): a buffer of the size asked for, whatever part of
\* the old one is kept.
LEMMA ResizedFacts ==
    ASSUME BlobAssumption, TypeOK, BlobFits, NEW n \in Nat
    PROVE  /\ Resized(n) \in Seq(Byte) /\ Len(Resized(n)) = n
           /\ \A i \in 1 .. n : i <= size => Resized(n)[i] = buf[i]
<1>1. Resized(n) \in [1 .. n -> Byte]
  <2>. SUFFICES ASSUME NEW i \in 1 .. n
                PROVE  (IF i <= size THEN buf[i] ELSE 0) \in Byte
    BY DEF Resized
  <2>1. i <= size => i \in 1 .. Allocated
    BY BufferFacts DEF TypeOK, BlobFits
  <2>. QED BY <2>1, BufferFacts DEF BlobAssumption
<1>2. \A i \in 1 .. n : i <= size => Resized(n)[i] = buf[i]
  BY DEF Resized
<1>. QED BY <1>1, <1>2, TableIsSeq

\* GrowBufOf: there is room for n bytes more, and nothing in use is lost.
LEMMA GrownFacts ==
    ASSUME BlobAssumption, TypeOK, BlobFits, NEW n \in Nat
    PROVE  /\ Grown(n) \in Seq(Byte)
           /\ size + n <= Len(Grown(n))
           /\ \A i \in 1 .. size : Grown(n)[i] = buf[i]
<1>0. size \in Nat /\ 2 * size \in Nat /\ size + n \in Nat /\ buf \in Seq(Byte)
  BY DEF TypeOK
<1>1. CASE size + n <= Allocated
  BY <1>0, <1>1 DEF Grown, Allocated
<1>2. CASE ~(size + n <= Allocated) /\ size + n > 2 * size
  <2>1. Grown(n) = Resized(size + n)
    BY <1>2 DEF Grown
  <2>2. /\ Resized(size + n) \in Seq(Byte) /\ Len(Resized(size + n)) = size + n
        /\ \A i \in 1 .. size + n : i <= size => Resized(size + n)[i] = buf[i]
    BY <1>0, ResizedFacts
  <2>. QED BY <1>0, <2>1, <2>2
<1>3. CASE ~(size + n <= Allocated) /\ ~(size + n > 2 * size)
  <2>1. Grown(n) = Resized(2 * size)
    BY <1>3 DEF Grown
  <2>2. size + n <= 2 * size
    BY <1>0, <1>3
  <2>3. /\ Resized(2 * size) \in Seq(Byte) /\ Len(Resized(2 * size)) = 2 * size
        /\ \A i \in 1 .. 2 * size : i <= size => Resized(2 * size)[i] = buf[i]
    BY <1>0, ResizedFacts
  <2>. QED BY <1>0, <2>1, <2>2, <2>3
<1>. QED BY <1>1, <1>2, <1>3

----------------------------------------------------------------------------
(* The operations.                                                         *)

\* TypeOK and BlobFits together are inductive: a read copies what BlobFits
\* says is there, and a write is well typed because it fits.
Fits == TypeOK /\ BlobFits

\* LVBlob(): as many bytes in use as there are in the buffer.
LEMMA InitFits ==
    ASSUME BlobAssumption, Init
    PROVE  Fits
<1>1. size \in Nat
  BY DEF Init, BlobAssumption
<1>2. Zeros(size) \in [1 .. size -> Byte]
  BY <1>1 DEF Zeros, BlobAssumption
<1>3. buf \in Seq(Byte) /\ Allocated = size
  BY <1>1, <1>2, TableIsSeq DEF Init, Allocated
<1>. QED BY <1>1, <1>3 DEF Init, Fits, TypeOK, BlobFits

\* LVBlob::Resize cuts the length and the position with the buffer.
LEMMA ResizeFits ==
    ASSUME BlobAssumption, Fits, NEW n \in Requests, Resize(n)
    PROVE  Fits'
<1>0. n \in Nat /\ TypeOK /\ BlobFits
  BY DEF BlobAssumption, Fits
<1>1. CASE n = Allocated
  BY <1>0, <1>1 DEF Resize, Fits, TypeOK, BlobFits, Allocated
<1>2. CASE n # Allocated
  <2>1. buf' \in Seq(Byte) /\ Allocated' = n
    BY <1>0, <1>2, ResizedFacts DEF Resize, Allocated
  <2>2. /\ size' = IF size > n THEN n ELSE size
        /\ ptr' = IF ptr > n THEN n ELSE ptr
        /\ got' = got
    BY <1>2 DEF Resize, Moved
  <2>3. TypeOK'
    BY <1>0, <2>1, <2>2 DEF TypeOK
  <2>4. BlobFits'
    BY <1>0, <2>1, <2>2 DEF TypeOK, BlobFits
  <2>. QED BY <2>3, <2>4 DEF Fits
<1>. QED BY <1>1, <1>2

\* LVBlob::Write makes the blob longer before it copies.
LEMMA WriteFits ==
    ASSUME BlobAssumption, Fits, NEW n \in Widths, NEW data \in [1 .. n -> Byte], Write(data)
    PROVE  Fits'
<1>. DEFINE more == ptr + n - size
            room == IF CanAdvance(n) THEN buf ELSE Grown(more)
<1>0. /\ n \in Nat /\ size \in Nat /\ ptr \in Nat /\ buf \in Seq(Byte)
      /\ TypeOK /\ BlobFits /\ ptr <= size /\ size <= Len(buf)
  BY DEF BlobAssumption, Fits, TypeOK, BlobFits, Allocated
<1>1. Len(data) = n /\ \A i \in 1 .. n : data[i] \in Byte
  BY <1>0, TableIsSeq
<1>2. /\ size' = IF CanAdvance(n) THEN size ELSE size + more
      /\ buf' = [i \in 1 .. Len(room) |->
                   IF i \in ptr + 1 .. ptr + n THEN data[i - ptr] ELSE room[i]]
      /\ ptr' = ptr + n
      /\ got' = got
  BY <1>1 DEF Write
<1>3. room \in Seq(Byte) /\ ptr + n <= size' /\ size' <= Len(room) /\ size' \in Nat
  <2>1. CASE CanAdvance(n)
    BY <1>0, <1>2, <2>1 DEF CanAdvance
  <2>2. CASE ~CanAdvance(n)
    <3>1. more \in Nat /\ size + more = ptr + n
      BY <1>0, <2>2 DEF CanAdvance
    <3>2. Grown(more) \in Seq(Byte) /\ size + more <= Len(Grown(more))
      BY <1>0, <3>1, GrownFacts
    <3>. QED BY <1>0, <1>2, <2>2, <3>1, <3>2
  <2>. QED BY <2>1, <2>2
<1>. HIDE DEF more, room
<1>4. buf' \in Seq(Byte) /\ Len(buf') = Len(room)
  <2>1. Len(room) \in Nat /\ \A i \in 1 .. Len(room) : room[i] \in Byte
    BY <1>3
  <2>2. \A i \in 1 .. Len(room) :
            (IF i \in ptr + 1 .. ptr + n THEN data[i - ptr] ELSE room[i]) \in Byte
    <3>. SUFFICES ASSUME NEW i \in 1 .. Len(room), i \in ptr + 1 .. ptr + n
                  PROVE  data[i - ptr] \in Byte
      BY <2>1
    <3>1. i - ptr \in 1 .. n
      BY <1>0
    <3>. QED BY <1>1, <3>1
  <2>3. buf' \in [1 .. Len(room) -> Byte]
    BY <1>2, <2>2
  <2>. QED BY <2>1, <2>3, TableIsSeq
<1>5. TypeOK'
  BY <1>0, <1>2, <1>3, <1>4 DEF TypeOK
<1>6. BlobFits'
  BY <1>2, <1>3, <1>4 DEF BlobFits, Allocated
<1>. QED BY <1>5, <1>6 DEF Fits

\* LVBlob::Read moves the position by what was there.
LEMMA ReadFits ==
    ASSUME Fits, NEW n \in Nat, Read(n)
    PROVE  Fits'
<1>. DEFINE m == IF CanAdvance(n) THEN n ELSE size - ptr
<1>0. /\ size \in Nat /\ ptr \in Nat /\ buf \in Seq(Byte)
      /\ ptr <= size /\ size <= Len(buf)
  BY DEF Fits, TypeOK, BlobFits, Allocated
<1>1. m \in Nat /\ ptr + m <= size
  BY <1>0 DEF CanAdvance
<1>2. /\ got' = SubSeq(buf, ptr + 1, ptr + m)
      /\ ptr' = ptr + m /\ buf' = buf /\ size' = size
  BY DEF Read
<1>. HIDE DEF m
<1>3. SubSeq(buf, ptr + 1, ptr + m) \in Seq(Byte)
  <2>1. \A i \in ptr + 1 .. ptr + m : buf[i] \in Byte
    BY <1>0, <1>1
  <2>. QED BY <1>0, <1>1, <2>1, SubSeqProperties
<1>4. TypeOK'
  BY <1>0, <1>1, <1>2, <1>3 DEF TypeOK
<1>5. BlobFits'
  BY <1>0, <1>1, <1>2 DEF BlobFits, Allocated
<1>. QED BY <1>4, <1>5 DEF Fits

\* LVBlob::Seek refuses a position outside the contents.
LEMMA SeekFits ==
    ASSUME Fits, NEW offset, NEW origin, Seek(offset, origin)
    PROVE  Fits'
<1>1. size \in Nat /\ ptr' \in 0 .. size /\ buf' = buf /\ size' = size /\ got' = got
  BY DEF Seek, Fits, TypeOK
<1>. QED BY <1>1 DEF Fits, TypeOK, BlobFits, Allocated

\* _blob__set, _blob_swap2 and _blob_swap4 change bytes only.
LEMMA BytesFit ==
    ASSUME Fits, UNCHANGED <<size, ptr, got>>, Allocated' = Allocated, buf' \in Seq(Byte)
    PROVE  Fits'
  BY DEF Fits, TypeOK, BlobFits

\* _blob__set writes to a byte in use.
LEMMA SetByteFits ==
    ASSUME Fits, NEW i \in 0 .. size - 1, NEW b \in Byte, SetByte(i, b)
    PROVE  Fits'
<1>1. size \in Nat /\ size <= Len(buf) /\ buf \in Seq(Byte)
  BY DEF Fits, TypeOK, BlobFits, Allocated
<1>2. buf' = [buf EXCEPT ![i + 1] = b] /\ UNCHANGED <<size, ptr, got>>
  BY DEF SetByte
<1>3. buf' \in Seq(Byte) /\ Len(buf') = Len(buf)
  BY <1>1, <1>2
<1>. QED BY <1>2, <1>3, BytesFit DEF Allocated

\* The words turned round lie in the part in use, so every byte read exists.
LEMMA SwapWordsFits ==
    ASSUME Fits, NEW w \in {2, 4}, SwapWords(w)
    PROVE  Fits'
<1>. DEFINE num == size \div w
            k(i) == (i - 1) \div w
<1>1. size \in Nat /\ size <= Allocated /\ Allocated \in Nat
  BY BufferFacts DEF Fits, TypeOK, BlobFits
<1>2. /\ buf' = [i \in 1 .. Allocated |->
                   IF k(i) < num THEN buf[k(i) * w + w - ((i - 1) % w)] ELSE buf[i]]
      /\ UNCHANGED <<size, ptr, got>>
  BY DEF SwapWords
<1>3. \A i \in 1 .. Allocated : k(i) < num => k(i) * w + w - ((i - 1) % w) \in 1 .. Allocated
  <2>1. CASE w = 2
    BY <1>1, <2>1
  <2>2. CASE w = 4
    BY <1>1, <2>2
  <2>. QED BY <2>1, <2>2
<1>4. \A i \in 1 .. Allocated :
          (IF k(i) < num THEN buf[k(i) * w + w - ((i - 1) % w)] ELSE buf[i]) \in Byte
  BY <1>3, BufferFacts DEF Fits
<1>5. buf' \in [1 .. Allocated -> Byte]
  BY <1>2, <1>4
<1>6. buf' \in Seq(Byte) /\ Allocated' = Allocated
  BY <1>1, <1>5, TableIsSeq DEF Allocated
<1>. QED BY <1>2, <1>6, BytesFit

----------------------------------------------------------------------------

\* Every step of the blob keeps position, contents and buffer in order.
LEMMA StepFits ==
    ASSUME BlobAssumption, Fits, [Next]_vars
    PROVE  Fits'
<1>1. CASE \E n \in Requests : Resize(n)
  BY <1>1, ResizeFits
<1>2. CASE \E n \in Widths : Read(n)
  BY <1>2, ReadFits DEF BlobAssumption
<1>3. CASE \E n \in Widths : ReadBlob(n)
  <2>. PICK n \in Widths : ReadBlob(n)
    BY <1>3
  <2>1. (IF n > size THEN size ELSE n) \in Nat
    BY DEF BlobAssumption, Fits, TypeOK
  <2>. QED BY <2>1, ReadFits DEF ReadBlob
<1>4. CASE \E n \in Widths : \E data \in [1 .. n -> Byte] : Write(data)
  BY <1>4, WriteFits
<1>5. CASE \E offset \in -MaxSize .. MaxSize, origin \in {"b", "c", "e"} : Seek(offset, origin)
  BY <1>5, SeekFits
<1>6. CASE \E i \in 0 .. size - 1, b \in Byte : SetByte(i, b)
  BY <1>6, SetByteFits
<1>7. CASE \E w \in {2, 4} : SwapWords(w)
  BY <1>7, SwapWordsFits
<1>8. CASE UNCHANGED vars
  BY <1>8 DEF vars, Fits, TypeOK, BlobFits, Allocated
<1>. QED BY <1>1, <1>2, <1>3, <1>4, <1>5, <1>6, <1>7, <1>8 DEF Next

\* Reading, writing, seeking and resizing in any order, the position stays in
\* the contents and the contents in the buffer: the memory LVBlob::Read and
\* LVBlob::Write copy without a check of their own is the blob's.
THEOREM PositionFits ==
    ASSUME BlobAssumption
    PROVE  Spec => []BlobFits
<1>1. Init => Fits
  BY InitFits
<1>2. Fits /\ [Next]_vars => Fits'
  BY StepFits
<1>3. Fits => BlobFits
  BY DEF Fits
<1>. QED BY <1>1, <1>2, <1>3, PTL DEF Spec

----------------------------------------------------------------------------
(* The blob is a byte file: bytes is SubSeq(buf, 1, size), pos is ptr.     *)

Contents == SubSeq(buf, 1, size)

\* The first bytes of a buffer.
LEMMA PrefixFacts ==
    ASSUME NEW b \in Seq(Byte), NEW n \in 0 .. Len(b)
    PROVE  /\ SubSeq(b, 1, n) \in Seq(Byte) /\ Len(SubSeq(b, 1, n)) = n
           /\ \A i \in 1 .. n : SubSeq(b, 1, n)[i] = b[i]
<1>1. \A i \in 1 .. n : b[i] \in Byte
  OBVIOUS
<1>. QED BY <1>1, SubSeqProperties

\* The bytes a stream sees, those in use, and its position ...
InUse ==
    /\ size \in Nat /\ ptr \in 0 .. size
    /\ Contents \in Seq(Byte) /\ Len(Contents) = size
    /\ \A i \in 1 .. size : Contents[i] = buf[i]

\* ... are these in every state that Fits.
LEMMA ContentsFacts ==
    ASSUME Fits
    PROVE  InUse
<1>1. buf \in Seq(Byte) /\ size \in 0 .. Len(buf) /\ ptr \in 0 .. size
  BY DEF Fits, TypeOK, BlobFits, Allocated
<1>. QED BY <1>1, PrefixFacts DEF Contents, InUse

\* What Fits' says of them after a step.
LEMMA NextContentsFacts ==
    ASSUME Fits'
    PROVE  InUse'
<1>1. buf' \in Seq(Byte) /\ size' \in 0 .. Len(buf') /\ ptr' \in 0 .. size'
  BY DEF Fits, TypeOK, BlobFits, Allocated
<1>2. /\ Contents' \in Seq(Byte) /\ Len(Contents') = size'
      /\ \A i \in 1 .. size' : Contents'[i] = buf'[i]
  BY <1>1, PrefixFacts DEF Contents
<1>3. size' \in Nat
  BY <1>1
<1>. QED BY <1>1, <1>2, <1>3 DEF InUse

\* Two contents of the same length with the same bytes are the same.
LEMMA SameContents ==
    ASSUME NEW s \in Seq(Byte), NEW t \in Seq(Byte), Len(s) = Len(t),
           \A i \in 1 .. Len(s) : s[i] = t[i]
    PROVE  s = t
  BY SeqEqual

\* There is a widest format, and the others are no longer.
LEMMA WidestFacts ==
    ASSUME BlobAssumption, NEW n \in Widths
    PROVE  n \in 1 .. MaxWidth
<1>1. MaxWidth \in Widths /\ \A k \in Widths : k <= MaxWidth
  BY DEF BlobAssumption, MaxWidth
<1>. QED BY <1>1 DEF BlobAssumption

\* A new blob is a file of zeros.
LEMMA InitMaps ==
    ASSUME BlobAssumption, Init
    PROVE  File!Init
<1>1. InUse
  BY InitFits, ContentsFacts
<1>2. \A i \in 1 .. size : Contents[i] = 0
  BY <1>1 DEF Init, Zeros, InUse
<1>3. Contents = [i \in 1 .. Len(Contents) |-> 0]
  <2>1. [i \in 1 .. size |-> 0] \in Seq(Byte) /\ Len([i \in 1 .. size |-> 0]) = size
    BY <1>1 DEF BlobAssumption, InUse
  <2>. QED BY <1>1, <1>2, <2>1, SameContents DEF InUse
<1>. QED BY <1>1, <1>3 DEF Init, File!Init, Contents, InUse

\* A step the stream does not see.
Unseen == UNCHANGED <<Contents, ptr, got>>

\* Making the buffer larger is not seen, making it smaller cuts the file.
LEMMA ResizeMaps ==
    ASSUME BlobAssumption, Fits, Fits', NEW n \in Requests, Resize(n)
    PROVE  Unseen \/ \E m \in 0 .. Len(Contents) : File!Cut(m)
<1>0. InUse /\ InUse' /\ n \in Nat
  BY ContentsFacts, NextContentsFacts DEF BlobAssumption
<1>1. CASE n = Allocated
  BY <1>1 DEF Resize, Contents, Unseen
<1>2. CASE n # Allocated
  <2>. DEFINE m == IF size > n THEN n ELSE size
  <2>1. m \in 0 .. size
    BY <1>0 DEF InUse
  <2>2. /\ buf' = Resized(n) /\ size' = m
        /\ ptr' = IF ptr > n THEN n ELSE ptr
        /\ got' = got
    BY <1>2 DEF Resize, Moved
  <2>3. ptr' = IF ptr > m THEN m ELSE ptr
    BY <1>0, <2>2 DEF InUse
  <2>4. \A i \in 1 .. m : i \in 1 .. n /\ i <= size
    BY <1>0 DEF InUse
  <2>. HIDE DEF m
  <2>5. \A i \in 1 .. m : Contents'[i] = Contents[i]
    <3>1. \A i \in 1 .. m : buf'[i] = buf[i]
      BY <1>0, <2>2, <2>4, ResizedFacts DEF Fits
    <3>2. \A i \in 1 .. m : Contents'[i] = buf'[i] /\ Contents[i] = buf[i]
      BY <1>0, <2>1, <2>2, <2>4 DEF InUse
    <3>. QED BY <3>1, <3>2
  <2>6. Contents' = SubSeq(Contents, 1, m)
    <3>1. /\ SubSeq(Contents, 1, m) \in Seq(Byte) /\ Len(SubSeq(Contents, 1, m)) = m
          /\ \A i \in 1 .. m : SubSeq(Contents, 1, m)[i] = Contents[i]
      BY <1>0, <2>1, PrefixFacts DEF InUse
    <3>2. Contents' \in Seq(Byte) /\ Len(Contents') = m
      BY <1>0, <2>2 DEF InUse
    <3>. QED BY <2>5, <3>1, <3>2, SameContents
  <2>7. m \in 0 .. Len(Contents)
    BY <1>0, <2>1 DEF InUse
  <2>8. File!Cut(m)
    BY <2>2, <2>3, <2>6, <2>7 DEF File!Cut, Contents
  <2>. QED BY <2>7, <2>8
<1>. QED BY <1>1, <1>2

\* Three pieces of a file one after the other.
LEMMA PiecesFacts ==
    ASSUME NEW h \in Seq(Byte), NEW d \in Seq(Byte), NEW t \in Seq(Byte)
    PROVE  /\ h \o d \o t \in Seq(Byte)
           /\ Len(h \o d \o t) = Len(h) + Len(d) + Len(t)
           /\ \A i \in 1 .. Len(h) : (h \o d \o t)[i] = h[i]
           /\ \A i \in 1 .. Len(d) : (h \o d \o t)[Len(h) + i] = d[i]
           /\ \A i \in 1 .. Len(t) : (h \o d \o t)[Len(h) + Len(d) + i] = t[i]
  OBVIOUS

\* LVBlob::Write puts the bytes at the position, and those that are past the
\* end behind it.
LEMMA WriteMaps ==
    ASSUME BlobAssumption, Fits, Fits', NEW n \in Widths, NEW data \in [1 .. n -> Byte],
           Write(data)
    PROVE  File!Write(data)
<1>. DEFINE more == ptr + n - size
            room == IF CanAdvance(n) THEN buf ELSE Grown(more)
            head == SubSeq(Contents, 1, ptr)
            tail == SubSeq(Contents, ptr + n + 1, size)
<1>0. InUse /\ InUse' /\ n \in Nat
  BY ContentsFacts, NextContentsFacts DEF BlobAssumption
<1>1. data \in Seq(Byte) /\ Len(data) = n /\ \A i \in 1 .. n : data[i] \in Byte
  BY <1>0, TableIsSeq
<1>2. /\ size' = IF CanAdvance(n) THEN size ELSE size + more
      /\ buf' = [i \in 1 .. Len(room) |->
                   IF i \in ptr + 1 .. ptr + n THEN data[i - ptr] ELSE room[i]]
      /\ ptr' = ptr + n
      /\ got' = got
  BY <1>1 DEF Write
<1>3. room \in Seq(Byte) /\ \A i \in 1 .. size : room[i] = buf[i]
  <2>1. CASE CanAdvance(n)
    BY <2>1 DEF Fits, TypeOK
  <2>2. CASE ~CanAdvance(n)
    <3>1. more \in Nat
      BY <1>0, <2>2 DEF CanAdvance, InUse
    <3>2. Grown(more) \in Seq(Byte) /\ \A i \in 1 .. size : Grown(more)[i] = buf[i]
      BY <3>1, GrownFacts DEF Fits
    <3>. QED BY <2>2, <3>2
  <2>. QED BY <2>1, <2>2
<1>4. /\ head \in Seq(Byte) /\ Len(head) = ptr
      /\ \A i \in 1 .. ptr : head[i] = Contents[i]
  BY <1>0, PrefixFacts DEF InUse
<1>5. /\ tail \in Seq(Byte) /\ Len(tail) = IF ptr + n + 1 <= size THEN size - (ptr + n) ELSE 0
      /\ \A i \in 1 .. size - (ptr + n) : tail[i] = Contents[ptr + n + i]
  <2>1. \A i \in ptr + n + 1 .. size : Contents[i] \in Byte
    BY <1>0 DEF InUse
  <2>2. ptr + n + 1 \in Int /\ size \in Int
    BY <1>0 DEF InUse
  <2>. QED BY <1>0, <2>1, <2>2, SubSeqProperties DEF InUse
<1>6. size' = ptr + n + Len(tail)
  BY <1>0, <1>2, <1>5 DEF CanAdvance, InUse
<1>7. Len(buf') = Len(room) /\ size' <= Len(room)
  <2>1. Len(buf') = Len(room)
    BY <1>2, <1>3
  <2>. QED BY <2>1 DEF Fits, BlobFits, Allocated
<1>. HIDE DEF more, room, head, tail
<1>8. /\ head \o data \o tail \in Seq(Byte) /\ Len(head \o data \o tail) = size'
      /\ \A i \in 1 .. ptr : (head \o data \o tail)[i] = Contents[i]
      /\ \A i \in 1 .. n : (head \o data \o tail)[ptr + i] = data[i]
      /\ \A i \in 1 .. Len(tail) : (head \o data \o tail)[ptr + n + i] = Contents[ptr + n + i]
  <2>1. 1 .. Len(tail) \subseteq 1 .. size - (ptr + n)
    BY <1>0, <1>5 DEF InUse
  <2>2. /\ head \o data \o tail \in Seq(Byte)
        /\ Len(head \o data \o tail) = ptr + n + Len(tail)
        /\ \A i \in 1 .. ptr : (head \o data \o tail)[i] = head[i]
        /\ \A i \in 1 .. n : (head \o data \o tail)[ptr + i] = data[i]
        /\ \A i \in 1 .. Len(tail) : (head \o data \o tail)[ptr + n + i] = tail[i]
    <3>. DEFINE l == Len(head)
                k == Len(data)
    <3>1. /\ head \o data \o tail \in Seq(Byte)
          /\ Len(head \o data \o tail) = l + k + Len(tail)
          /\ \A i \in 1 .. l : (head \o data \o tail)[i] = head[i]
          /\ \A i \in 1 .. k : (head \o data \o tail)[l + i] = data[i]
          /\ \A i \in 1 .. Len(tail) : (head \o data \o tail)[l + k + i] = tail[i]
      BY <1>1, <1>4, <1>5, PiecesFacts
    <3>2. l = ptr /\ k = n
      BY <1>1, <1>4
    <3>. HIDE DEF l, k
    <3>. QED BY <3>1, <3>2
  <2>3. \A i \in 1 .. ptr : (head \o data \o tail)[i] = Contents[i]
    BY <1>4, <2>2
  <2>4. \A i \in 1 .. Len(tail) : (head \o data \o tail)[ptr + n + i] = Contents[ptr + n + i]
    BY <1>5, <2>1, <2>2
  <2>. QED BY <1>6, <2>2, <2>3, <2>4
<1>. DEFINE new == head \o data \o tail
<1>. HIDE DEF new
<1>9. \A i \in 1 .. size' : Contents'[i] = new[i]
  <2>. SUFFICES ASSUME NEW i \in 1 .. size'
                PROVE  Contents'[i] = new[i]
    OBVIOUS
  <2>1. i \in 1 .. Len(room) /\ Contents'[i] = buf'[i]
    BY <1>0, <1>3, <1>7 DEF InUse
  <2>2. Contents'[i] = IF i \in ptr + 1 .. ptr + n THEN data[i - ptr] ELSE room[i]
    BY <1>2, <2>1
  <2>3. \A j \in 1 .. size : room[j] = Contents[j]
    BY <1>0, <1>3 DEF InUse
  <2>4. CASE i <= ptr
    <3>1. i \in 1 .. ptr /\ i \in 1 .. size /\ i \notin ptr + 1 .. ptr + n
      BY <1>0, <2>4 DEF InUse
    <3>. QED BY <1>8, <2>2, <2>3, <3>1 DEF new
  <2>5. CASE i \in ptr + 1 .. ptr + n
    <3>1. i - ptr \in 1 .. n /\ ptr + (i - ptr) = i
      BY <1>0, <2>5 DEF InUse
    <3>. QED BY <1>8, <2>2, <2>5, <3>1 DEF new
  <2>6. CASE i > ptr + n
    <3>. DEFINE j == i - (ptr + n)
    <3>1. j \in 1 .. Len(tail) /\ i \in 1 .. size /\ ptr + n + j = i /\ i \notin ptr + 1 .. ptr + n
      BY SMTT(30), <1>0, <1>5, <1>6, <2>6 DEF InUse
    <3>. HIDE DEF j
    <3>2. (head \o data \o tail)[ptr + n + j] = Contents[ptr + n + j]
      BY <1>8, <3>1
    <3>. QED BY <2>2, <2>3, <3>1, <3>2 DEF new
  <2>7. i \in Nat /\ ptr \in Nat /\ i >= 1
    BY <1>0 DEF InUse
  <2>. QED BY <1>0, <2>4, <2>5, <2>6, <2>7
<1>10. Contents' = head \o data \o tail
  <2>1. Contents' \in Seq(Byte) /\ Len(Contents') = size'
    BY <1>0 DEF InUse
  <2>2. new \in Seq(Byte) /\ Len(new) = size'
    BY <1>8 DEF new
  <2>3. Contents' = new
    BY <1>9, <2>1, <2>2, SameContents
  <2>. QED BY <2>3 DEF new
<1>. QED BY <1>0, <1>1, <1>2, <1>10 DEF File!Write, Contents, InUse, head, tail

\* LVBlob::Read, with the size readn and readblob ask for: as much as there
\* is from the position on.
LEMMA ReadMaps ==
    ASSUME Fits, NEW n \in Nat, NEW k \in Nat, k = n \/ (k = size /\ size < n), Read(k)
    PROVE  File!Read(n)
<1>. DEFINE m == IF CanAdvance(k) THEN k ELSE size - ptr
            there == IF size - ptr < n THEN size - ptr ELSE n
<1>0. InUse /\ buf \in Seq(Byte) /\ size <= Len(buf)
  BY ContentsFacts DEF Fits, TypeOK, BlobFits, Allocated
<1>1. m \in Nat /\ ptr + m <= size /\ m = there
  BY <1>0 DEF CanAdvance, InUse
<1>2. /\ got' = SubSeq(buf, ptr + 1, ptr + m)
      /\ ptr' = ptr + m /\ buf' = buf /\ size' = size
  BY DEF Read
<1>. HIDE DEF m, there
<1>3. SubSeq(buf, ptr + 1, ptr + m) = SubSeq(Contents, ptr + 1, ptr + m)
  <2>1. \A i \in ptr + 1 .. ptr + m : i \in 1 .. size
    BY <1>0, <1>1 DEF InUse
  <2>2. \A i \in ptr + 1 .. ptr + m : buf[i] \in Byte /\ Contents[i] \in Byte
    BY <1>0, <2>1 DEF InUse
  <2>3. ptr + 1 \in Int /\ ptr + m \in Int
    BY <1>0, <1>1 DEF InUse
  <2>4. /\ SubSeq(buf, ptr + 1, ptr + m) \in Seq(Byte)
        /\ SubSeq(Contents, ptr + 1, ptr + m) \in Seq(Byte)
        /\ Len(SubSeq(buf, ptr + 1, ptr + m)) = m
        /\ Len(SubSeq(Contents, ptr + 1, ptr + m)) = m
        /\ \A i \in 1 .. m : SubSeq(buf, ptr + 1, ptr + m)[i] = buf[ptr + i]
        /\ \A i \in 1 .. m : SubSeq(Contents, ptr + 1, ptr + m)[i] = Contents[ptr + i]
    BY <1>0, <1>1, <2>2, <2>3, SubSeqProperties DEF InUse
  <2>5. \A i \in 1 .. m : buf[ptr + i] = Contents[ptr + i]
    BY <1>0, <1>1 DEF InUse
  <2>. QED BY <2>4, <2>5, SameContents
<1>. QED BY <1>0, <1>1, <1>2, <1>3 DEF File!Read, File!Take, Contents, InUse, there

\* LVBlob::Seek leaves the position inside the file or where it was.
LEMMA SeekMaps ==
    ASSUME Fits, NEW offset, NEW origin, Seek(offset, origin)
    PROVE  \E m \in 0 .. Len(Contents) : File!Seek(m)
<1>1. ptr' \in 0 .. size /\ buf' = buf /\ size' = size /\ got' = got
  BY DEF Seek
<1>2. Len(Contents) = size
  BY ContentsFacts DEF InUse
<1>. QED BY <1>1, <1>2 DEF File!Seek, Contents

\* _blob__set changes one byte of those in use.
LEMMA SetByteMaps ==
    ASSUME Fits, Fits', NEW i \in 0 .. size - 1, NEW b \in Byte, SetByte(i, b)
    PROVE  File!Poke(i + 1, b)
<1>0. InUse /\ InUse' /\ buf \in Seq(Byte) /\ size <= Len(buf)
  BY ContentsFacts, NextContentsFacts DEF Fits, TypeOK, BlobFits, Allocated
<1>1. buf' = [buf EXCEPT ![i + 1] = b] /\ size' = size /\ ptr' = ptr /\ got' = got
  BY DEF SetByte
<1>2. i + 1 \in 1 .. size
  BY <1>0 DEF InUse
<1>3. \A j \in 1 .. size : Contents'[j] = [Contents EXCEPT ![i + 1] = b][j]
  BY SMTT(30), <1>0, <1>1, <1>2 DEF InUse
<1>4. [Contents EXCEPT ![i + 1] = b] \in Seq(Byte) /\ Len([Contents EXCEPT ![i + 1] = b]) = size
  BY <1>0, <1>2 DEF InUse
<1>5. Contents' = [Contents EXCEPT ![i + 1] = b]
  BY <1>0, <1>1, <1>3, <1>4, SameContents DEF InUse
<1>. QED BY <1>0, <1>1, <1>2, <1>5 DEF File!Poke, Contents, InUse

\* _blob_swap2 and _blob_swap4 turn the whole words of the file round.
LEMMA SwapWordsMaps ==
    ASSUME Fits, Fits', NEW w \in {2, 4}, SwapWords(w)
    PROVE  File!Swap(w)
<1>. DEFINE whole == size - (size % w)
<1>0. InUse /\ InUse' /\ size <= Allocated /\ Allocated \in Nat
  BY ContentsFacts, NextContentsFacts, BufferFacts DEF Fits, BlobFits
<1>1. /\ buf' = [i \in 1 .. Allocated |->
                   IF (i - 1) \div w < size \div w
                   THEN buf[((i - 1) \div w) * w + w - ((i - 1) % w)] ELSE buf[i]]
      /\ size' = size /\ ptr' = ptr /\ got' = got
  BY DEF SwapWords
<1>3. \A i \in 1 .. size :
          Contents'[i] = IF i > whole THEN Contents[i]
                         ELSE Contents[2 * ((i - 1) \div w) * w + w + 1 - i]
  <2>. SUFFICES ASSUME NEW i \in 1 .. size
                PROVE  Contents'[i] = IF i > whole THEN Contents[i]
                                      ELSE Contents[2 * ((i - 1) \div w) * w + w + 1 - i]
    OBVIOUS
  <2>. DEFINE num  == size \div w
              k    == (i - 1) \div w
              to   == k * w + w - ((i - 1) % w)
              from == 2 * k * w + w + 1 - i
  <2>1. i \in 1 .. Allocated
    BY <1>0 DEF InUse
  <2>2. Contents'[i] = IF k < num THEN buf[to] ELSE buf[i]
    BY <1>0, <1>1, <2>1 DEF InUse
  <2>3. /\ i > whole <=> ~(k < num)
        /\ k < num => to = from /\ to \in 1 .. size
    <3>1. CASE w = 2
      BY <1>0, <3>1 DEF InUse
    <3>2. CASE w = 4
      BY <1>0, <3>2 DEF InUse
    <3>. QED BY <3>1, <3>2
  <2>. HIDE DEF num, k, to, whole
  <2>4. Contents'[i] = IF i > whole THEN Contents[i] ELSE Contents[from]
    BY <1>0, <2>2, <2>3 DEF InUse
  <2>. QED BY <2>4 DEF k
<1>4. Contents' = [i \in 1 .. size |->
                     IF i > whole THEN Contents[i]
                     ELSE Contents[2 * ((i - 1) \div w) * w + w + 1 - i]]
  BY <1>0, <1>1, <1>3 DEF InUse
<1>. QED BY <1>0, <1>1, <1>4 DEF File!Swap, Contents, InUse

----------------------------------------------------------------------------

\* Every step of the blob is a step of the file, or not seen by it.
LEMMA StepMaps ==
    ASSUME BlobAssumption, Fits, Fits', [Next]_vars
    PROVE  File!Next \/ Unseen
<1>1. CASE \E n \in Requests : Resize(n)
  BY <1>1, ResizeMaps DEF File!Next, Contents
<1>2. CASE \E n \in Widths : Read(n)
  <2>. PICK n \in Widths : Read(n)
    BY <1>2
  <2>1. n \in 1 .. MaxWidth /\ n \in Nat
    BY WidestFacts
  <2>2. File!Read(n)
    BY <2>1, ReadMaps
  <2>. QED BY <2>1, <2>2 DEF File!Next
<1>3. CASE \E n \in Widths : ReadBlob(n)
  <2>. PICK n \in Widths : ReadBlob(n)
    BY <1>3
  <2>. DEFINE k == IF n > size THEN size ELSE n
  <2>1. n \in 1 .. MaxWidth /\ n \in Nat
    BY WidestFacts
  <2>2. k \in Nat /\ (k = n \/ (k = size /\ size < n)) /\ Read(k)
    BY <2>1 DEF ReadBlob, Fits, TypeOK
  <2>3. File!Read(n)
    BY <2>1, <2>2, ReadMaps
  <2>. QED BY <2>1, <2>3 DEF File!Next
<1>4. CASE \E n \in Widths : \E data \in [1 .. n -> Byte] : Write(data)
  <2>. PICK n \in Widths : \E data \in [1 .. n -> Byte] : Write(data)
    BY <1>4
  <2>. PICK data \in [1 .. n -> Byte] : Write(data)
    OBVIOUS
  <2>1. n \in 1 .. MaxWidth
    BY WidestFacts
  <2>2. File!Write(data)
    BY WriteMaps
  <2>. QED BY <2>1, <2>2 DEF File!Next
<1>5. CASE \E offset \in -MaxSize .. MaxSize, origin \in {"b", "c", "e"} : Seek(offset, origin)
  BY <1>5, SeekMaps DEF File!Next, Contents
<1>6. CASE \E i \in 0 .. size - 1, b \in Byte : SetByte(i, b)
  <2>. PICK i \in 0 .. size - 1, b \in Byte : SetByte(i, b)
    BY <1>6
  <2>1. i + 1 \in 1 .. Len(SubSeq(buf, 1, size))
    BY ContentsFacts DEF InUse, Contents
  <2>2. File!Poke(i + 1, b)
    BY SetByteMaps
  <2>. QED BY <2>1, <2>2 DEF File!Next
<1>7. CASE \E w \in {2, 4} : SwapWords(w)
  BY <1>7, SwapWordsMaps DEF File!Next
<1>8. CASE UNCHANGED vars
  BY <1>8 DEF vars, Unseen, Contents
<1>. QED BY <1>1, <1>2, <1>3, <1>4, <1>5, <1>6, <1>7, <1>8 DEF Next

\* However its buffer grows and shrinks, a blob is a sequence of bytes with a
\* position (ByteFile): no operation loses, moves or invents a byte.
THEOREM BlobIsByteFile ==
    ASSUME BlobAssumption
    PROVE  Spec => IsByteFile
<1>1. Init => Fits /\ File!Init
  BY InitFits, InitMaps
<1>2. Fits /\ [Next]_vars => Fits'
  BY StepFits
<1>3. Fits /\ Fits' /\ [Next]_vars => [File!Next]_(File!absVars)
  BY StepMaps DEF File!absVars, Unseen, Contents
<1>. QED BY <1>1, <1>2, <1>3, PTL DEF Spec, IsByteFile, File!Spec

----------------------------------------------------------------------------
(* Values.                                                                 *)

\* Division of naturals.
LEMMA DivFacts ==
    ASSUME NEW a \in Nat, NEW b \in Nat, b > 0
    PROVE  /\ a \div b \in Nat
           /\ a - b * (a \div b) >= 0
           /\ a - b * (a \div b) < b
<1>1. a \div b \in Nat
  OBVIOUS
<1>2. a = b * (a \div b) + (a % b) /\ a % b \in 0 .. b - 1
  OBVIOUS
<1>. QED
  BY <1>1, <1>2

LEMMA ModFacts ==
    ASSUME NEW a \in Int, NEW m \in Nat, m > 0, a \in 0 .. m - 1
    PROVE  a % m = a
OBVIOUS

\* An LVInteger is not changed by the width of its type.
LEMMA WrapOfInt ==
    ASSUME NEW n \in -IntMax - 1 .. IntMax
    PROVE  Wrap(n) = n
<1>1. IntMax \in Nat
  BY ValuesAssumption
<1>2. PICK m \in Nat : m = 2 * IntMax + 2 /\ m > 0
  BY <1>1
<1>3. n + IntMax + 1 \in 0 .. m - 1 /\ n + IntMax + 1 \in Int
  BY <1>1, <1>2
<1>4. (n + IntMax + 1) % m = n + IntMax + 1
  BY <1>2, <1>3, ModFacts
<1>. QED
  BY <1>1, <1>2, <1>4 DEF Wrap

LEMMA TypesOfValues ==
    ASSUME NEW x \in AnyValue
    PROVE  /\ x = [t |-> x.t, n |-> x.n]
           /\ x.n \in Int
           /\ x.t \in {"int", "float", "bool", "null", "string", "table"}
           /\ x.t = "int" => x.n \in -IntMax - 1 .. IntMax
           /\ x.t = "float" => x = NegZero \/ x.n \in FloatNumber
           /\ x.t = "null" => x = Null
           /\ x.t = "bool" => x.n \in {0, 1}
<1>1. IntMax \in Nat /\ FloatNumber \subseteq Int /\ Addresses \subseteq Nat
  BY ValuesAssumption
<1>. QED
  BY <1>1 DEF AnyValue, Typed, NegZero, Null, Bool

\* Two values of one type and number are one.
LEMMA SameValue ==
    ASSUME NEW x \in AnyValue, NEW y \in AnyValue, x.t = y.t, x.n = y.n
    PROVE  x = y
BY TypesOfValues

LEMMA FloatsAreNumbers ==
    ASSUME NEW x \in AnyValue, IsNumeric(x)
    PROVE  ToFloat(x) \in Int
BY TypesOfValues DEF ToFloat

\* The two zeros apart, floats of the same number are the same.
LEMMA SameFloat ==
    ASSUME NEW x \in AnyValue, NEW y \in AnyValue, x.t = "float", y.t = "float",
           ToFloat(x) = ToFloat(y), x # y
    PROVE  {x, y} = BothZeros
<1>1. ASSUME NEW z \in AnyValue, z.t = "float", z # NegZero
      PROVE  ToFloat(z) = z.n
  BY <1>1 DEF ToFloat
<1>2. ToFloat(NegZero) = 0
  BY DEF ToFloat, NegZero, Typed
<1>3. ASSUME NEW z \in AnyValue, z.t = "float", z # NegZero, z.n = 0
      PROVE  z = Typed("float", 0)
  BY <1>3, TypesOfValues DEF Typed
<1>4. CASE x = NegZero
  BY <1>1, <1>2, <1>3, <1>4 DEF BothZeros
<1>5. CASE y = NegZero
  BY <1>1, <1>2, <1>3, <1>5 DEF BothZeros
<1>6. CASE x # NegZero /\ y # NegZero
  BY <1>1, <1>6, SameValue
<1>. QED
  BY <1>4, <1>5, <1>6

\* What ObjCmp returns, for values of one type and for others.
LEMMA CompareOneType ==
    ASSUME NEW x \in AnyValue, NEW y \in AnyValue, x.t = y.t
    PROVE  /\ ObjCmp(x, y) \in {-1, 0, 1}
           /\ ObjCmp(x, y) = 0 <=> x = y
           /\ x.t # "float" => (ObjCmp(x, y) <= 0 <=> x.n <= y.n)
           /\ x.t = "float" => (ObjCmp(x, y) <= 0 <=> x = y \/ ToFloat(x) < ToFloat(y))
<1>1. x.n \in Int /\ y.n \in Int
  BY TypesOfValues
<1>2. CASE x = y
  <2>1. ObjCmp(x, y) = 0
    BY <1>2 DEF ObjCmp, Sign
  <2>. QED
    BY <1>1, <1>2, <2>1
<1>3. CASE x # y /\ x.t # "float"
  <2>1. ObjCmp(x, y) = IF x.n < y.n THEN -1 ELSE 1
    BY <1>3 DEF ObjCmp, Sign
  <2>2. x.n # y.n
    BY <1>3, SameValue
  <2>. QED
    BY <1>1, <1>3, <2>1, <2>2
<1>4. CASE x # y /\ x.t = "float"
  <2>1. ObjCmp(x, y) = IF ToFloat(x) < ToFloat(y) THEN -1 ELSE 1
    BY <1>4 DEF ObjCmp, Sign
  <2>. QED
    BY <1>4, <2>1
<1>. QED
  BY <1>2, <1>3, <1>4

LEMMA CompareTwoTypes ==
    ASSUME NEW x \in AnyValue, NEW y \in AnyValue, x.t # y.t
    PROVE  ObjCmp(x, y) =
             IF IsNumeric(x) /\ IsNumeric(y)
               THEN IF ToFloat(x) = ToFloat(y) THEN 0
                    ELSE IF ToFloat(x) < ToFloat(y) THEN -1 ELSE 1
             ELSE IF x.t = "null" THEN -1 ELSE IF y.t = "null" THEN 1 ELSE 2
<1>1. x # y
  OBVIOUS
<1>2. CASE IsNumeric(x) /\ IsNumeric(y)
  BY <1>1, <1>2 DEF ObjCmp, Sign
<1>3. CASE ~ (IsNumeric(x) /\ IsNumeric(y))
  BY <1>1, <1>3 DEF ObjCmp, Sign
<1>. QED
  BY <1>2, <1>3

\* Read from the other end, a comparison gives the opposite.
LEMMA CompareBack ==
    ASSUME NEW x \in AnyValue, NEW y \in AnyValue,
           {x, y} # BothZeros, ObjCmp(x, y) # 2
    PROVE  /\ ObjCmp(x, y) \in {-1, 0, 1}
           /\ ObjCmp(y, x) = - ObjCmp(x, y)
           /\ IsEqual(x, y) <=> ObjCmp(x, y) = 0
<1>1. x.n \in Int /\ y.n \in Int
  BY TypesOfValues
<1>2. CASE x.t = y.t
  <2>1. IsEqual(x, y) <=> x = y
    BY <1>2 DEF IsEqual
  <2>2. CASE x = y
    BY <1>2, <2>1, <2>2, CompareOneType
  <2>3. CASE x # y /\ x.t # "float"
    <3>1. x.n # y.n
      BY <1>2, <2>3, SameValue
    <3>. QED
      BY <1>1, <1>2, <2>1, <2>3, <3>1, CompareOneType
  <2>4. CASE x # y /\ x.t = "float"
    <3>1. ToFloat(x) # ToFloat(y)
      BY <1>2, <2>4, SameFloat
    <3>2. ToFloat(x) \in Int /\ ToFloat(y) \in Int
      BY <1>2, <2>4, FloatsAreNumbers DEF IsNumeric
    <3>3. /\ ObjCmp(x, y) \in {-1, 0, 1} /\ ObjCmp(y, x) \in {-1, 0, 1}
          /\ ObjCmp(x, y) # 0 /\ ObjCmp(y, x) # 0
      BY <1>2, <2>4, CompareOneType
    <3>4. /\ ObjCmp(x, y) <= 0 <=> ToFloat(x) < ToFloat(y)
          /\ ObjCmp(y, x) <= 0 <=> ToFloat(y) < ToFloat(x)
      BY <1>2, <2>4, CompareOneType
    <3>5. ~ IsEqual(x, y)
      BY <2>1, <2>4
    <3>. QED
      BY <3>1, <3>2, <3>3, <3>4, <3>5
  <2>. QED
    BY <2>2, <2>3, <2>4
<1>3. CASE x.t # y.t
  <2>1. CASE IsNumeric(x) /\ IsNumeric(y)
    <3>1. ToFloat(x) \in Int /\ ToFloat(y) \in Int
      BY <2>1, FloatsAreNumbers
    <3>2. IsEqual(x, y) <=> ToFloat(x) = ToFloat(y)
      BY <1>3, <2>1 DEF IsEqual
    <3>. QED
      BY <1>3, <2>1, <3>1, <3>2, CompareTwoTypes
  <2>2. CASE ~ (IsNumeric(x) /\ IsNumeric(y))
    <3>1. ~ IsEqual(x, y)
      BY <1>3, <2>2 DEF IsEqual
    <3>. QED
      BY <1>3, <2>2, <3>1, CompareTwoTypes
  <2>. QED
    BY <2>1, <2>2
<1>. QED
  BY <1>2, <1>3

\* Values of one type are in an order.
LEMMA CompareChain ==
    ASSUME NEW x \in AnyValue, NEW y \in AnyValue, NEW z \in AnyValue,
           x.t = y.t, y.t = z.t, ObjCmp(x, y) <= 0, ObjCmp(y, z) <= 0
    PROVE  ObjCmp(x, z) <= 0
<1>1. x.n \in Int /\ y.n \in Int /\ z.n \in Int
  BY TypesOfValues
<1>2. CASE x.t # "float"
  BY <1>1, <1>2, CompareOneType
<1>3. CASE x.t = "float"
  <2>1. ToFloat(x) \in Int /\ ToFloat(y) \in Int /\ ToFloat(z) \in Int
    BY <1>3, FloatsAreNumbers DEF IsNumeric
  <2>. QED
    BY <1>3, <2>1, CompareOneType
<1>. QED
  BY <1>2, <1>3

LEMMA ComparisonIsOrder ==
    ASSUME NEW x \in AnyValue, NEW y \in AnyValue, NEW z \in AnyValue
    PROVE  OrderLaws(x, y, z)
<1>1. SUFFICES ASSUME {x, y} # BothZeros, ObjCmp(x, y) # 2
               PROVE  /\ ObjCmp(y, x) = - ObjCmp(x, y)
                      /\ IsEqual(x, y) <=> ObjCmp(x, y) = 0
                      /\ CmpOp("<", x, y) = CmpOp(">", y, x)
                      /\ CmpOp("<=", x, y) = CmpOp(">=", y, x)
                      /\ /\ x.t = y.t /\ y.t = z.t
                         /\ ObjCmp(x, y) <= 0 /\ ObjCmp(y, z) <= 0
                         => ObjCmp(x, z) <= 0
  BY DEF OrderLaws
<1>2. PICK r \in {-1, 0, 1} : ObjCmp(x, y) = r /\ ObjCmp(y, x) = -r
  BY <1>1, CompareBack
<1>3. /\ CmpOp("<", x, y) = Bool(r < 0) /\ CmpOp(">", y, x) = Bool(-r > 0)
      /\ CmpOp("<=", x, y) = Bool(r <= 0) /\ CmpOp(">=", y, x) = Bool(-r >= 0)
  BY <1>2 DEF CmpOp
<1>4. CmpOp("<", x, y) = CmpOp(">", y, x)
  BY <1>2, <1>3 DEF Bool
<1>5. CmpOp("<=", x, y) = CmpOp(">=", y, x)
  BY <1>2, <1>3 DEF Bool
<1>. QED
  BY <1>1, <1>4, <1>5, CompareBack, CompareChain

\* Equal values are false together.
LEMMA EqualAreFalse ==
    ASSUME NEW x \in AnyValue, NEW y \in AnyValue, IsEqual(x, y)
    PROVE  IsFalse(x) <=> IsFalse(y)
<1>1. CASE x.t = y.t
  BY <1>1 DEF IsEqual
<1>2. CASE x.t # y.t
  <2>1. /\ IsNumeric(x) /\ IsNumeric(y) /\ ToFloat(x) = ToFloat(y)
    BY <1>2 DEF IsEqual
  <2>2. ASSUME NEW z \in AnyValue, IsNumeric(z)
        PROVE  IsFalse(z) <=> ToFloat(z) = 0
    <3>1. FloatExact \in Nat \ {0} /\ IntMax \in Nat
      BY ValuesAssumption
    <3>2. CASE z = NegZero
      BY <3>2 DEF IsFalse, ToFloat, NegZero, Typed
    <3>3. CASE z # NegZero
      <4>1. z.n \in Int /\ z.t \in {"int", "float"}
        BY <2>2, TypesOfValues DEF IsNumeric
      <4>2. IsFalse(z) <=> z.n = 0
        BY <3>3, <4>1 DEF IsFalse
      <4>3. z.n \notin -FloatExact .. FloatExact => z.n - (z.n % 2) # 0 /\ z.n # 0
        BY <3>1, <4>1
      <4>4. ToFloat(z) = IF z.t = "int" /\ z.n \notin -FloatExact .. FloatExact
                         THEN z.n - (z.n % 2) ELSE z.n
        BY <3>3 DEF ToFloat
      <4>. QED
        BY <4>2, <4>3, <4>4
    <3>. QED
      BY <3>2, <3>3
  <2>. QED
    BY <2>1, <2>2
<1>. QED
  BY <1>1, <1>2

\* A number negated twice is itself, the smallest integer and the two zeros
\* included.
LEMMA NegatedTwice ==
    ASSUME NEW x \in AnyValue, IsNumeric(x)
    PROVE  NegOp(NegOp(x)) = x
<1>1. IntMax \in Nat
  BY ValuesAssumption
<1>2. CASE x.t = "int"
  <2>1. x = Int1(x.n) /\ x.n \in -IntMax - 1 .. IntMax
    BY <1>2, TypesOfValues DEF Int1, Typed
  <2>2. NegOp(x) = Int1(Wrap(-x.n))
    BY <1>2 DEF NegOp
  <2>3. NegOp(NegOp(x)) = Int1(Wrap(- Wrap(-x.n)))
    BY <2>2 DEF NegOp, Int1, Typed
  <2>4. CASE x.n = -IntMax - 1
    <3>1. PICK m \in Nat : m = 2 * IntMax + 2 /\ m > 0
      BY <1>1
    <3>2. (m - 1) % m = m - 1
      BY <3>1, ModFacts
    <3>3. Wrap(-x.n) = -IntMax - 1
      <4>1. -x.n + IntMax + 1 = m
        BY <1>1, <2>4, <3>1
      <4>2. m % m = 0
        BY <3>1
      <4>. QED
        BY <1>1, <2>4, <3>1, <4>1, <4>2 DEF Wrap
    <3>. QED
      BY <1>1, <2>1, <2>3, <2>4, <3>3
  <2>5. CASE x.n # -IntMax - 1
    <3>1. -x.n \in -IntMax - 1 .. IntMax /\ - (-x.n) = x.n
      BY <1>1, <2>1, <2>5
    <3>2. Wrap(-x.n) = -x.n /\ Wrap(x.n) = x.n
      BY <2>1, <3>1, WrapOfInt
    <3>. QED
      BY <2>1, <2>3, <3>1, <3>2
  <2>. QED
    BY <2>4, <2>5
<1>3. CASE x.t = "float"
  <2>1. \A n \in FloatNumber : n \in Int /\ n # 2 * IntMax + 2 /\ -n # 2 * IntMax + 2
    BY <1>1, ValuesAssumption
  <2>2. x = NegZero \/ (x = Typed("float", x.n) /\ x.n \in FloatNumber)
    BY <1>3, TypesOfValues DEF Typed
  <2>3. CASE x = NegZero
    <3>1. NegOp(x) = Typed("float", 0)
      BY <2>3 DEF NegOp, NegZero, Typed
    <3>2. Typed("float", 0) # NegZero
      BY <1>1 DEF NegZero, Typed
    <3>. QED
      BY <2>3, <3>1, <3>2 DEF NegOp, Typed
  <2>4. CASE x # NegZero /\ x.n = 0
    <3>1. x = Typed("float", 0)
      BY <2>2, <2>4
    <3>2. NegOp(x) = NegZero
      BY <1>3, <2>4 DEF NegOp
    <3>. QED
      BY <3>1, <3>2 DEF NegOp, NegZero, Typed
  <2>5. CASE x # NegZero /\ x.n # 0
    <3>1. x = Typed("float", x.n) /\ x.n \in FloatNumber
      BY <2>2, <2>5
    <3>2. NegOp(x) = Typed("float", -x.n)
      BY <1>3, <2>5 DEF NegOp
    <3>3. Typed("float", -x.n) # NegZero /\ -x.n # 0 /\ - (-x.n) = x.n
      BY <2>1, <2>5, <3>1 DEF NegZero, Typed
    <3>4. NegOp(Typed("float", -x.n)) = Typed("float", - (-x.n))
      BY <3>3 DEF NegOp, Typed
    <3>. QED
      BY <3>1, <3>2, <3>3, <3>4
  <2>. QED
    BY <2>3, <2>4, <2>5
<1>. QED
  BY <1>2, <1>3 DEF IsNumeric

\* The remainder of C is smaller than the divisor.
LEMMA RemainderIsSmall ==
    ASSUME NEW a \in Int, NEW b \in Int, b # 0
    PROVE  /\ Quotient(a, b) \in Int
           /\ Remainder(a, b) \in Int
           /\ Quotient(a, b) * b + Remainder(a, b) = a
           /\ Abs(Remainder(a, b)) < Abs(b)
<1>1. PICK d \in Nat : d = Abs(b) /\ d > 0 /\ (b = d \/ b = -d)
  BY DEF Abs
<1>2. PICK c \in Nat : c = Abs(a) /\ (a = c \/ a = -c) /\ (a < 0 <=> a # c)
  BY DEF Abs
<1>3. PICK q \in Nat : q = c \div d /\ c - d * q >= 0 /\ c - d * q < d
  BY <1>1, DivFacts
<1>4. Quotient(a, b) = IF (a < 0) = (b < 0) THEN q ELSE -q
  BY <1>1, <1>2, <1>3 DEF Quotient
<1>5. Quotient(a, b) \in Int
  BY <1>4
<1>6. Remainder(a, b) = a - b * Quotient(a, b)
  BY DEF Remainder
<1>7. PICK p \in Int : p = d * q /\ p <= c /\ c - p < d
  BY <1>3
<1>8. b * Quotient(a, b) = IF a < 0 THEN -p ELSE p
  <2>0. (-d) * q = -p /\ d * (-q) = -p /\ (-d) * (-q) = p /\ d * q = p
    BY <1>7
  <2>1. CASE a < 0 /\ b < 0
    <3>1. b = -d /\ Quotient(a, b) = q
      BY <1>1, <1>4, <2>1
    <3>. QED
      BY <2>0, <2>1, <3>1
  <2>2. CASE a < 0 /\ ~ b < 0
    <3>1. b = d /\ Quotient(a, b) = -q
      BY <1>1, <1>4, <2>2
    <3>. QED
      BY <2>0, <2>2, <3>1
  <2>3. CASE ~ a < 0 /\ b < 0
    <3>1. b = -d /\ Quotient(a, b) = -q
      BY <1>1, <1>4, <2>3
    <3>. QED
      BY <2>0, <2>3, <3>1
  <2>4. CASE ~ a < 0 /\ ~ b < 0
    <3>1. b = d /\ Quotient(a, b) = q
      BY <1>1, <1>4, <2>4
    <3>. QED
      BY <2>0, <2>4, <3>1
  <2>. QED
    BY <2>1, <2>2, <2>3, <2>4
<1>9. PICK r \in Int : r = Remainder(a, b) /\ r = IF a < 0 THEN a + p ELSE a - p
  BY <1>6, <1>7, <1>8
<1>10. Abs(r) < d
  BY <1>2, <1>7, <1>9 DEF Abs
<1>11. Quotient(a, b) * b + r = a
  <2>1. PICK Q \in Int : Q = Quotient(a, b) /\ r = a - b * Q
    BY <1>5, <1>6, <1>9
  <2>2. Q * b = b * Q /\ b * Q \in Int
    OBVIOUS
  <2>. QED
    BY <2>1, <2>2
<1>. QED
  BY <1>1, <1>5, <1>9, <1>10, <1>11

LEMMA DivisionFits ==
    ASSUME NEW x \in AnyValue, NEW y \in AnyValue
    PROVE  DivisionLaws(x, y)
<1>. SUFFICES ASSUME BothInts(x, y) PROVE DivisionLaws(x, y)
  BY DEF DivisionLaws
<1>1. PICK a \in -IntMax - 1 .. IntMax, b \in -IntMax - 1 .. IntMax :
          x.n = a /\ y.n = b
  BY TypesOfValues DEF BothInts
<1>2. PICK M \in Nat : M = IntMax
  BY ValuesAssumption
<1>3. PICK C \in Int : C = CIntMin /\ C # -IntMax - 1 /\ C < 0 /\ C >= -IntMax
  BY <1>2, ValuesAssumption DEF CIntMin
<1>4. a \in Int /\ b \in Int
  BY <1>1, <1>2
<1>. DEFINE q == Instruction("/", x, y)
            r == Instruction("%", x, y)
<1>5. /\ q = IF b = 0 THEN RaisesError ELSE Divided(a, b)
      /\ ArithOp("/", x, y) = IF b = 0 \/ (b = -1 /\ a = C) THEN RaisesError ELSE Divided(a, b)
  BY <1>1, <1>3 DEF Instruction, ArithOp, IntegerOp
<1>6. ArithOp("%", x, y) = IF b = 0 THEN RaisesError
                           ELSE IF b = -1 /\ a = C THEN Int1(0)
                           ELSE IF Divided(a, b) = Trap THEN Trap ELSE Int1(Remainder(a, b))
  BY <1>1, <1>3 DEF ArithOp, IntegerOp
<1>7. \A n : Int1(n) # RaisesError /\ Int1(n) # Trap /\ Int1(n) # Kept /\ Int1(n).t = "int"
             /\ Int1(n).n = n
  BY DEF Int1, RaisesError, Trap, Kept, Typed
<1>8. Trap # RaisesError /\ Kept # Trap /\ Trap.t # "int" /\ RaisesError.t # "int"
  BY DEF RaisesError, Trap, Kept, Typed
<1>9. r = IF b = 0 THEN Kept
          ELSE IF b = -1 /\ a = C THEN Int1(0)
          ELSE IF Divided(a, b) = Trap THEN Trap ELSE Int1(Remainder(a, b))
  <2>1. r = IF ArithOp("%", x, y) = RaisesError THEN Kept ELSE ArithOp("%", x, y)
    BY DEF Instruction
  <2>. HIDE DEF r
  <2>. QED
    BY <1>6, <1>7, <1>8, <2>1
<1>10. Divided(a, b) = IF a = -IntMax - 1 /\ b = -1 THEN Trap ELSE Int1(Quotient(a, b))
  BY DEF Divided
<1>. HIDE DEF q, r
<1>11. q.t = "int" => Wrap(q.n * y.n + r.n) = x.n /\ Abs(r.n) < Abs(y.n)
  <2>1. SUFFICES ASSUME q.t = "int"
                 PROVE  Wrap(q.n * b + r.n) = a /\ Abs(r.n) < Abs(b)
    BY <1>1
  <2>2. b # 0 /\ Divided(a, b) = Int1(Quotient(a, b)) /\ q.n = Quotient(a, b)
    BY <1>5, <1>7, <1>8, <1>10, <2>1
  <2>3. CASE b = -1 /\ a = C
    <3>1. r.n = 0
      BY <1>7, <1>9, <2>2, <2>3
    <3>2. PICK k \in Nat : k = -a /\ k > 0 /\ k <= M
      BY <1>1, <1>2, <1>3, <2>3
    <3>3. Abs(a) = k /\ Abs(b) = 1 /\ Abs(0) = 0
      <4>0. b \in Int /\ b + 1 = 0
        BY <1>4, <2>3
      <4>1. b < 0 /\ -b = 1
        BY ONLY <4>0
      <4>2. Abs(b) = 1 /\ Abs(0) = 0
        BY ONLY <4>1 DEF Abs
      <4>3. a < 0
        BY ONLY <1>3, <2>3
      <4>4. Abs(a) = -a
        BY ONLY <4>3 DEF Abs
      <4>. QED
        BY ONLY <3>2, <4>2, <4>4
    <3>4. k \div 1 = k
      BY <3>2
    <3>5. Quotient(a, b) = k
      BY <2>3, <3>2, <3>3, <3>4 DEF Quotient
    <3>6. q.n * b + r.n = a
      BY <2>2, <2>3, <3>1, <3>2, <3>5
    <3>. QED
      BY <1>1, <3>1, <3>3, <3>6, WrapOfInt
  <2>4. CASE ~ (b = -1 /\ a = C)
    <3>1. r.n = Remainder(a, b)
      BY <1>7, <1>9, <2>2, <2>4
    <3>. QED
      BY <1>1, <1>4, <2>2, <3>1, RemainderIsSmall, WrapOfInt
  <2>. QED
    BY <2>3, <2>4
<1>12. ArithOp("/", x, y) # q => x.n = CIntMin /\ y.n = -1
  BY <1>1, <1>3, <1>5
<1>13. (q = Trap) <=> (r = Trap)
  BY <1>2, <1>3, <1>5, <1>7, <1>8, <1>9, <1>10
<1>14. (q = RaisesError) <=> (r = Kept)
  BY <1>5, <1>7, <1>8, <1>9, <1>10
<1>. QED
  BY <1>11, <1>12, <1>13, <1>14 DEF DivisionLaws, q, r

\* ObjCmp is an order that agrees with IsEqual, and the operators of division
\* belong together, for all values of every width of integers and floats.
THEOREM ValuesObeyLaws == ValuesSpec => []ValueLaws
<1>. DEFINE Chosen == triple \in AnyValue \X AnyValue \X AnyValue
<1>1. ValuesInit => Chosen
  BY DEF ValuesInit
<1>2. Chosen /\ [ValuesNext]_triple => Chosen'
  BY DEF ValuesNext
<1>3. Chosen => ValueLaws
  <2>. SUFFICES ASSUME Chosen PROVE ValueLaws
    OBVIOUS
  <2>1. PICK x \in AnyValue, y \in AnyValue, z \in AnyValue :
            triple[1] = x /\ triple[2] = y /\ triple[3] = z
    OBVIOUS
  <2>2. OrderLaws(x, y, z)
    BY ComparisonIsOrder
  <2>3. TruthLaws(x, y)
    BY EqualAreFalse, NegatedTwice DEF TruthLaws
  <2>4. DivisionLaws(x, y)
    BY DivisionFits
  <2>. QED
    BY <2>1, <2>2, <2>3, <2>4 DEF ValueLaws
<1>. HIDE DEF Chosen
<1>. QED
  BY <1>1, <1>2, <1>3, PTL DEF ValuesSpec

----------------------------------------------------------------------------
(* Arrays: the heap that array_sort builds.                                *)

\* Induction over the naturals, for a set.
LEMMA AllNaturals ==
    ASSUME NEW S \in SUBSET Nat, 0 \in S, \A n \in S : n + 1 \in S
    PROVE  S = Nat
<1>1. SUFFICES ASSUME NEW n \in Nat \ S PROVE FALSE
  OBVIOUS
<1>. DEFINE A == S \cap (0 .. n)
            B == A \ {0}
            f == [k \in A |-> k + 1]
<1>2. IsFiniteSet(A) /\ 0 \in A
  <2>1. IsFiniteSet(0 .. n)
    BY FS_Interval
  <2>2. A \in SUBSET (0 .. n) /\ 0 \in A
    OBVIOUS
  <2>. QED
    BY <2>1, <2>2, FS_Subset
<1>3. f \in [A -> B] /\ \A k \in A : f[k] = k + 1 /\ k \in Nat
  OBVIOUS
<1>. HIDE DEF A, f
<1>4. IsFiniteSet(B) /\ Cardinality(B) < Cardinality(A)
  <2>1. IsFiniteSet(B) /\ Cardinality(B) = Cardinality(A) - 1
    BY <1>2, FS_RemoveElement
  <2>2. Cardinality(A) \in Nat
    BY <1>2, FS_CardinalityType
  <2>. QED
    BY <2>1, <2>2
<1>. HIDE DEF B
<1>5. PICK x \in A, y \in A : x # y /\ f[x] = f[y]
  BY <1>2, <1>3, <1>4, FS_PigeonHole
<1>. QED
  BY <1>3, <1>5

\* c is a child of p; the root is no child of itself.
Child(p, c) == c # 0 /\ (c = 2 * p \/ c = 2 * p + 1)

\* Among the elements 0 .. b of a, those from t on are no smaller than their
\* children, but for r.
Heaped(a, b, t, r) ==
    \A p \in 0 .. b, c \in 0 .. b : Child(p, c) /\ p >= t /\ p # r => a[c + 1] <= a[p + 1]

\* The parent of r is no smaller than the children of r.
Bridged(a, b, t, r) ==
    \A p \in 0 .. b, c \in 0 .. b : Child(p, r) /\ Child(r, c) /\ p >= t => a[c + 1] <= a[p + 1]

\* m is the larger child of r.
Largest(a, b, r, m) ==
    /\ m \in {2 * r, 2 * r + 1} /\ m \in 0 .. b
    /\ \A c \in 0 .. b : Child(r, c) => a[c + 1] <= a[m + 1]

\* From i on elements are in order, and no smaller than those before.
Split(a, i) == \A j \in DOMAIN a, k \in DOMAIN a : j > i /\ k < j => a[k] <= a[j]

SwapOf(a, i, j) == [a EXCEPT ![i + 1] = a[j + 1], ![j + 1] = a[i + 1]]

LEMMA SwapFacts ==
    ASSUME NEW E, NEW a \in Seq(E), NEW i \in 0 .. Len(a) - 1, NEW j \in 0 .. Len(a) - 1
    PROVE  /\ SwapOf(a, i, j) \in Seq(E)
           /\ Len(SwapOf(a, i, j)) = Len(a)
           /\ DOMAIN SwapOf(a, i, j) = DOMAIN a
           /\ SwapOf(a, i, j)[i + 1] = a[j + 1]
           /\ SwapOf(a, i, j)[j + 1] = a[i + 1]
           /\ \A k \in DOMAIN a : k # i + 1 /\ k # j + 1 => SwapOf(a, i, j)[k] = a[k]
<1>1. /\ i + 1 \in 1 .. Len(a) /\ j + 1 \in 1 .. Len(a)
      /\ DOMAIN a = 1 .. Len(a) /\ Len(a) \in Nat
  OBVIOUS
<1>2. a[i + 1] \in E /\ a[j + 1] \in E
  BY <1>1
<1>3. PICK x \in 1 .. Len(a), y \in 1 .. Len(a) : x = i + 1 /\ y = j + 1
  BY <1>1
<1>4. SwapOf(a, i, j) = [[a EXCEPT ![x] = a[y]] EXCEPT ![y] = a[x]]
  BY <1>3 DEF SwapOf
<1>. QED
  BY <1>1, <1>2, <1>3, <1>4

\* A node goes down: it changes places with its larger child.
LEMMA SiftsDown ==
    ASSUME NEW a \in Seq(Int), NEW b \in 0 .. Len(a) - 1, NEW t \in Nat, NEW r \in 0 .. b,
           NEW m, Largest(a, b, r, m), r >= t, a[r + 1] < a[m + 1],
           Heaped(a, b, t, r), Bridged(a, b, t, r)
    PROVE  Heaped(SwapOf(a, r, m), b, t, m) /\ Bridged(SwapOf(a, r, m), b, t, m)
<1>1. PICK N \in Nat : N = Len(a) /\ b < N
  OBVIOUS
<1>2. m \in 0 .. b /\ m # r /\ Child(r, m) /\ m > r
  BY <1>1 DEF Largest, Child
<1>3. \A c \in 0 .. b : c + 1 \in DOMAIN a /\ a[c + 1] \in Int
  BY <1>1
<1>4. PICK e : e = SwapOf(a, r, m)
  OBVIOUS
<1>5. /\ e[r + 1] = a[m + 1] /\ e[m + 1] = a[r + 1]
      /\ \A c \in 0 .. b : c # r /\ c # m => e[c + 1] = a[c + 1]
  <2>1. r \in 0 .. Len(a) - 1 /\ m \in 0 .. Len(a) - 1
    BY <1>1, <1>2
  <2>2. /\ SwapOf(a, r, m)[r + 1] = a[m + 1] /\ SwapOf(a, r, m)[m + 1] = a[r + 1]
        /\ \A k \in DOMAIN a : k # r + 1 /\ k # m + 1 => SwapOf(a, r, m)[k] = a[k]
    BY <2>1, SwapFacts
  <2>3. \A c \in 0 .. b : c # r /\ c # m => c + 1 # r + 1 /\ c + 1 # m + 1
    BY <1>1, <1>2
  <2>. QED
    BY <1>3, <1>4, <2>2, <2>3
<1>6. ASSUME NEW p \in 0 .. b, NEW c \in 0 .. b, Child(p, c), p >= t, p # m
      PROVE  e[c + 1] <= e[p + 1]
  <2>1. c > p
    BY <1>6 DEF Child
  <2>2. CASE p = r
    <3>1. a[c + 1] <= a[m + 1]
      BY <1>6, <2>2 DEF Largest
    <3>2. CASE c = m
      BY <1>2, <1>3, <1>5, <2>2, <3>2
    <3>3. CASE c # m
      BY <1>5, <2>1, <2>2, <3>1, <3>3
    <3>. QED
      BY <3>2, <3>3
  <2>3. CASE c = r
    <3>1. a[m + 1] <= a[p + 1]
      BY <1>2, <1>6, <2>3 DEF Bridged
    <3>2. p # r
      BY <2>1, <2>3
    <3>. QED
      BY <1>5, <1>6, <2>3, <3>1, <3>2
  <2>4. CASE p # r /\ c # r
    <3>1. c # m
      BY <1>2, <1>6, <2>4 DEF Child
    <3>. QED
      BY <1>5, <1>6, <2>4, <3>1 DEF Heaped
  <2>. QED
    BY <2>2, <2>3, <2>4
<1>7. ASSUME NEW p \in 0 .. b, NEW c \in 0 .. b, Child(p, m), Child(m, c), p >= t
      PROVE  e[c + 1] <= e[p + 1]
  <2>1. p \in Nat /\ r \in Nat /\ m \in Nat /\ c \in Nat
    BY <1>1, <1>2
  <2>3. p = r
    BY ONLY <2>1, <1>2, <1>7 DEF Child
  <2>4. c # m
    BY ONLY <2>1, <1>2, <1>7 DEF Child
  <2>2. a[c + 1] <= a[m + 1]
    BY <1>2, <1>7 DEF Heaped
  <2>5. c # r
    BY ONLY <2>1, <1>2, <1>7 DEF Child
  <2>6. e[p + 1] = a[m + 1]
    BY <1>5, <2>3
  <2>7. e[c + 1] = a[c + 1]
    BY <1>5, <1>7, <2>4, <2>5
  <2>. QED
    BY <2>2, <2>6, <2>7
<1>. QED
  BY <1>4, <1>6, <1>7 DEF Heaped, Bridged

\* A node that is no smaller than its larger child stays.
LEMMA StaysUp ==
    ASSUME NEW a \in Seq(Int), NEW b \in 0 .. Len(a) - 1, NEW t \in Nat, NEW r \in 0 .. b,
           NEW m, Largest(a, b, r, m), a[r + 1] >= a[m + 1], Heaped(a, b, t, r)
    PROVE  Heaped(a, b, t, -1)
<1>1. \A c \in 0 .. b : a[c + 1] \in Int
  OBVIOUS
<1>2. m \in 0 .. b
  BY DEF Largest
<1>3. ASSUME NEW p \in 0 .. b, NEW c \in 0 .. b, Child(p, c), p >= t
      PROVE  a[c + 1] <= a[p + 1]
  <2>1. CASE p = r
    <3>1. a[c + 1] <= a[m + 1]
      BY <1>3, <2>1 DEF Largest
    <3>. QED
      BY <1>1, <1>2, <2>1, <3>1
  <2>2. CASE p # r
    BY <1>3, <2>2 DEF Heaped
  <2>. QED
    BY <2>1, <2>2
<1>. QED
  BY <1>3 DEF Heaped

\* The root of a heap is its largest element.
LEMMA RootIsLargest ==
    ASSUME NEW a \in Seq(Int), NEW b \in 0 .. Len(a) - 1, Heaped(a, b, 0, -1)
    PROVE  \A c \in 0 .. b : a[c + 1] <= a[1]
<1>1. \A c \in 0 .. b : a[c + 1] \in Int /\ a[1] \in Int
  OBVIOUS
<1>. DEFINE S == {m \in Nat : \A c \in 0 .. b : c <= m => a[c + 1] <= a[1]}
<1>2. 0 \in S
  BY <1>1
<1>3. ASSUME NEW m \in S PROVE m + 1 \in S
  <2>1. SUFFICES ASSUME m + 1 \in 0 .. b PROVE a[(m + 1) + 1] <= a[1]
    <3>1. m + 1 \in Nat /\ \A c \in 0 .. b : c <= m + 1 => c <= m \/ c = m + 1
      OBVIOUS
    <3>2. \A c \in 0 .. b : c <= m => a[c + 1] <= a[1]
      OBVIOUS
    <3>. QED
      BY <2>1, <3>1, <3>2
  <2>2. PICK k \in 0 .. b : k = m + 1
    BY <2>1
  <2>3. PICK p \in 0 .. b : p <= m /\ Child(p, k)
    <3>1. PICK q \in Nat : m + 1 = 2 * q \/ m + 1 = 2 * q + 1
      <4>1. (m + 1) \div 2 \in Nat /\ m + 1 = 2 * ((m + 1) \div 2) + ((m + 1) % 2)
            /\ (m + 1) % 2 \in 0 .. 1
        OBVIOUS
      <4>. QED
        BY <4>1
    <3>2. q \in 0 .. b /\ q <= m /\ Child(q, k)
      BY <2>2, <3>1 DEF Child
    <3>. QED
      BY <3>2
  <2>4. a[k + 1] <= a[p + 1]
    <3>1. p >= 0 /\ p # -1
      OBVIOUS
    <3>. QED
      BY <2>3, <3>1 DEF Heaped
  <2>5. a[p + 1] <= a[1]
    BY <2>3
  <2>. QED
    BY <1>1, <2>2, <2>4, <2>5
<1>. HIDE DEF S
<1>4. S = Nat
  <2>1. S \in SUBSET Nat
    BY DEF S
  <2>. QED
    BY <1>2, <1>3, <2>1, AllNaturals
<1>. QED
  <2>1. \A c \in 0 .. b : c \in S /\ c <= c
    BY <1>4
  <2>. QED
    BY <2>1 DEF S

\* The largest element goes behind the heap, to those that are larger.
LEMMA LargestIsTaken ==
    ASSUME NEW a \in Seq(Int), NEW b \in 1 .. Len(a) - 1, Heaped(a, b, 0, -1), Split(a, b + 1)
    PROVE  /\ Heaped(SwapOf(a, 0, b), b - 1, 0, 0) /\ Bridged(SwapOf(a, 0, b), b - 1, 0, 0)
           /\ Split(SwapOf(a, 0, b), b)
<1>1. PICK N \in Nat : N = Len(a) /\ b < N /\ DOMAIN a = 1 .. N /\ \A k \in 1 .. N : a[k] \in Int
  OBVIOUS
<1>2. PICK e : e = SwapOf(a, 0, b)
  OBVIOUS
<1>3. /\ e[1] = a[b + 1] /\ e[b + 1] = a[1] /\ DOMAIN e = 1 .. N
      /\ \A k \in 1 .. N : k # 1 /\ k # b + 1 => e[k] = a[k]
  <2>1. 0 \in 0 .. Len(a) - 1 /\ b \in 0 .. Len(a) - 1 /\ 0 + 1 = 1
    BY <1>1
  <2>2. /\ DOMAIN SwapOf(a, 0, b) = DOMAIN a
        /\ SwapOf(a, 0, b)[0 + 1] = a[b + 1] /\ SwapOf(a, 0, b)[b + 1] = a[0 + 1]
        /\ \A k \in DOMAIN a : k # 0 + 1 /\ k # b + 1 => SwapOf(a, 0, b)[k] = a[k]
    BY <2>1, SwapFacts
  <2>. QED
    BY <1>1, <1>2, <2>1, <2>2
<1>4. Heaped(e, b - 1, 0, 0)
  <2>1. SUFFICES ASSUME NEW p \in 0 .. b - 1, NEW c \in 0 .. b - 1, Child(p, c), p # 0
                 PROVE  e[c + 1] <= e[p + 1]
    BY DEF Heaped
  <2>2. c # 0 /\ p \in 0 .. b /\ c \in 0 .. b /\ p >= 0 /\ p # -1
    BY <2>1 DEF Child
  <2>3. a[c + 1] <= a[p + 1]
    BY <2>1, <2>2 DEF Heaped
  <2>4. e[c + 1] = a[c + 1] /\ e[p + 1] = a[p + 1]
    BY <1>1, <1>3, <2>1, <2>2
  <2>. QED
    BY <2>3, <2>4
<1>5. Bridged(e, b - 1, 0, 0)
  BY DEF Bridged, Child
<1>6. Split(e, b)
  <2>1. SUFFICES ASSUME NEW j \in 1 .. N, NEW k \in 1 .. N, j > b, k < j PROVE e[k] <= e[j]
    BY <1>3 DEF Split
  <2>2. PICK l \in 1 .. N : e[k] = a[l] /\ (l < j \/ (j = b + 1 /\ l <= b + 1))
    <3>1. CASE k = 1
      BY <1>1, <1>3, <2>1, <3>1
    <3>2. CASE k = b + 1
      BY <1>1, <1>3, <2>1, <3>2
    <3>3. CASE k # 1 /\ k # b + 1
      BY <1>3, <2>1, <3>3
    <3>. QED
      BY <3>1, <3>2, <3>3
  <2>3. CASE j = b + 1
    <3>1. l - 1 \in 0 .. b /\ (l - 1) + 1 = l
      BY <1>1, <2>2, <2>3
    <3>2. b \in 0 .. Len(a) - 1
      BY <1>1
    <3>3. a[l] <= a[1]
      BY <3>1, <3>2, RootIsLargest
    <3>. QED
      BY <1>3, <2>2, <2>3, <3>3
  <2>4. CASE j # b + 1
    <3>1. j > b + 1 /\ l < j /\ e[j] = a[j]
      BY <1>1, <1>3, <2>1, <2>2, <2>4
    <3>. QED
      BY <1>1, <2>2, <3>1 DEF Split
  <2>. QED
    BY <2>3, <2>4
<1>. QED
  BY <1>2, <1>4, <1>5, <1>6

----------------------------------------------------------------------------
(* Arrays: the steps of array_sort.                                        *)

\* A sequence is a rearrangement of itself, and stays one of another when two
\* elements change places.
LEMMA SameIsRearranged ==
    ASSUME NEW E, NEW s \in Seq(E)
    PROVE  Rearranged(s, s)
<1>. DEFINE p == [k \in DOMAIN s |-> k]
<1>1. p \in [DOMAIN s -> DOMAIN s] /\ \A l \in DOMAIN s : \E k \in DOMAIN s : p[k] = l
  OBVIOUS
<1>2. s = [k \in DOMAIN s |-> s[p[k]]]
  OBVIOUS
<1>. QED
  BY <1>1, <1>2 DEF Rearranged

LEMMA SwapRearranges ==
    ASSUME NEW E, NEW s \in Seq(E), NEW a \in Seq(E), Rearranged(a, s),
           NEW i \in 0 .. Len(a) - 1, NEW j \in 0 .. Len(a) - 1
    PROVE  Rearranged(SwapOf(a, i, j), s)
<1>1. PICK D : D = DOMAIN s
  OBVIOUS
<1>2. PICK p \in [D -> D] : /\ a = [k \in D |-> s[p[k]]]
                           /\ \A l \in D : \E k \in D : p[k] = l
  BY <1>1 DEF Rearranged
<1>3. DOMAIN a = D /\ D = 1 .. Len(a)
  BY <1>2
<1>4. PICK x \in D, y \in D : x = i + 1 /\ y = j + 1
  BY <1>3
<1>5. PICK q \in [D -> D] : /\ \A k \in D : q[k] = IF k = x THEN y ELSE IF k = y THEN x ELSE k
                           /\ \A k \in D : q[q[k]] = k
  <2>. DEFINE swap == [k \in D |-> IF k = x THEN y ELSE IF k = y THEN x ELSE k]
  <2>1. swap \in [D -> D] /\ \A k \in D : swap[swap[k]] = k
    OBVIOUS
  <2>. QED
    BY <2>1
<1>6. PICK u \in [D -> D] : \A k \in D : u[k] = p[q[k]]
  <2>. DEFINE both == [k \in D |-> p[q[k]]]
  <2>1. both \in [D -> D] /\ \A k \in D : both[k] = p[q[k]]
    OBVIOUS
  <2>. QED
    BY <2>1
<1>7. ASSUME NEW l \in D PROVE \E k \in D : u[k] = l
  <2>1. PICK k \in D : p[k] = l
    BY <1>2
  <2>2. q[k] \in D /\ u[q[k]] = p[q[q[k]]]
    BY <1>6
  <2>. QED
    BY <1>5, <2>1, <2>2
<1>8. PICK e : e = SwapOf(a, i, j)
  OBVIOUS
<1>9. e = [k \in D |-> s[u[k]]]
  <2>1. e = [[a EXCEPT ![x] = a[y]] EXCEPT ![y] = a[x]]
    BY <1>4, <1>8 DEF SwapOf
  <2>2. DOMAIN e = D /\ e = [k \in D |-> e[k]]
    BY <1>3, <2>1
  <2>3. \A k \in D : e[k] = a[q[k]]
    BY <1>3, <1>5, <2>1
  <2>4. \A k \in D : q[k] \in D /\ a[q[k]] = s[p[q[k]]]
    BY <1>2
  <2>5. \A k \in D : e[k] = s[u[k]]
    BY <1>6, <2>3, <2>4
  <2>. QED
    BY <2>2, <2>5
<1>10. Rearranged(e, s)
  BY <1>1, <1>7, <1>9 DEF Rearranged
<1>. QED
  BY <1>8, <1>10

\* What is behind the heap does not change when two elements of it do.
LEMMA SplitStays ==
    ASSUME NEW a \in Seq(Int), NEW n \in Nat, Split(a, n),
           NEW i \in 0 .. Len(a) - 1, NEW j \in 0 .. Len(a) - 1, i \in 0 .. n - 1, j \in 0 .. n - 1
    PROVE  Split(SwapOf(a, i, j), n)
<1>1. PICK e : e = SwapOf(a, i, j)
  OBVIOUS
<1>2. /\ DOMAIN e = DOMAIN a /\ e[i + 1] = a[j + 1] /\ e[j + 1] = a[i + 1]
      /\ \A k \in DOMAIN a : k # i + 1 /\ k # j + 1 => e[k] = a[k]
  BY <1>1, SwapFacts
<1>3. PICK x \in DOMAIN a, y \in DOMAIN a : x = i + 1 /\ y = j + 1 /\ x <= n /\ y <= n
  OBVIOUS
<1>4. \A k \in DOMAIN a : k \in Nat
  OBVIOUS
<1>5. ASSUME NEW l \in DOMAIN a, NEW k \in DOMAIN a, l > n, k < l PROVE e[k] <= e[l]
  <2>1. e[l] = a[l] /\ l > x /\ l > y
    <3>1. l > x /\ l > y /\ l # x /\ l # y
      BY ONLY n \in Nat, <1>3, <1>5, <1>4
    <3>. QED
      BY <1>2, <1>3, <3>1
  <2>2. PICK h \in DOMAIN a : e[k] = a[h] /\ h < l
    <3>1. e[k] = a[k] \/ e[k] = a[x] \/ e[k] = a[y]
      BY <1>2, <1>3
    <3>. QED
      BY <1>5, <2>1, <3>1
  <2>. QED
    BY <1>5, <2>1, <2>2 DEF Split
<1>. QED
  BY <1>1, <1>2, <1>5 DEF Split

\* Where a sort is: its numbers are places of the array.
SortFits(a, c) ==
    /\ Len(a) >= 2 /\ Rearranged(a, c.before)
    /\ c.bottom \in 0 .. Len(a) - 1 /\ c.root \in 0 .. c.bottom
    /\ c.build => c.bottom = Len(a) - 1 /\ c.i <= c.root
    /\ ~c.build => c.i \in 1 .. Len(a) - 1 /\ c.bottom = c.i - 1
    /\ c.at = "parent" => c.child \in {2 * c.root, 2 * c.root + 1} /\ c.child <= c.bottom

\* The elements that are a heap begin here.
From(c) == IF c.build THEN c.i ELSE 0

\* Where a sort by order is: there is a heap but for the node that goes down,
\* and in the second loop the largest elements are behind it.
HeapFits(a, c) ==
    /\ c.at # "done" => Heaped(a, c.bottom, From(c), c.root) /\ Bridged(a, c.bottom, From(c), c.root)
    /\ c.at = "parent" => Largest(a, c.bottom, c.root, c.child)
    /\ c.at = "done" => Heaped(a, c.bottom, From(c), -1)
    /\ ~c.build => Split(a, c.i)

\* The inductive invariant of the array functions.
SortInv == call.fun = "sort" => SortFits(arr, call) /\ (call.cmp = "order" => HeapFits(arr, call))
SortedInv == call.fun = "sorted" => Rearranged(arr, call.before)
ArraysInv == ArraysTypeOK /\ SizeFits /\ SortInv /\ SortedInv /\ EndsSorted

LEMMA AreIntegers ==
    ASSUME NEW a \in Seq(Element)
    PROVE  a \in Seq(Int)
<1>1. Len(a) \in Nat /\ a = [i \in 1 .. Len(a) |-> a[i]] /\ \A i \in 1 .. Len(a) : a[i] \in Element
  OBVIOUS
<1>2. \A i \in 1 .. Len(a) : a[i] \in Int
  BY <1>1, ArraysAssumption
<1>. QED
  BY <1>1, <1>2

LEMMA SortCallFacts ==
    ASSUME ArraysInv, call.fun = "sort"
    PROVE  /\ call \in SortCall /\ SortFits(arr, call) /\ arr \in Seq(Element) /\ arr \in Seq(Int)
           /\ \A k \in 0 .. Len(arr) - 1 : arr[k + 1] \in Int
           /\ (call.cmp = "order" => HeapFits(arr, call))
<1>1. call \in SortCall
  BY DEF ArraysInv, ArraysTypeOK, Calls, NoCall, SortCall
<1>2. arr \in Seq(Element)
  BY DEF ArraysInv, ArraysTypeOK
<1>3. arr \in Seq(Int)
  BY <1>2, AreIntegers
<1>4. \A k \in 0 .. Len(arr) - 1 : arr[k + 1] \in Int
  BY <1>3
<1>. QED
  BY <1>1, <1>2, <1>3, <1>4 DEF ArraysInv, SortInv

\* A step of a sort that leaves a sort.
LEMMA SortGoesOn ==
    ASSUME NEW a, NEW c, ArraysInv, arr' = a, call' = c, UNCHANGED <<alloc, edits>>,
           a \in Seq(Element), Len(a) = Len(arr), c \in SortCall, SortFits(a, c),
           c.cmp = "order" => HeapFits(a, c)
    PROVE  ArraysInv'
<1>1. c.fun = "sort"
  BY DEF SortCall
<1>2. ArraysTypeOK'
  BY DEF ArraysInv, ArraysTypeOK, Calls
<1>3. SizeFits'
  BY DEF ArraysInv, SizeFits, ArraySize
<1>4. SortInv'
  BY DEF SortInv
<1>5. SortedInv' /\ EndsSorted'
  BY <1>1 DEF SortedInv, EndsSorted
<1>. QED
  BY <1>2, <1>3, <1>4, <1>5 DEF ArraysInv

\* array_sort begins.
LEMMA SortKeeps ==
    ASSUME NEW cmp \in {"order", "any"}, ArraysInv, Sort(cmp)
    PROVE  ArraysInv'
<1>1. PICK N \in Nat : N = Len(arr) /\ N >= 2
  BY ArraysAssumption DEF Sort, ArraySize, ArraysInv, ArraysTypeOK
<1>2. PICK h \in 1 .. N - 1 : h = N \div 2 /\ N <= 2 * h + 1
  <2>1. N \div 2 \in Nat /\ N = 2 * (N \div 2) + (N % 2) /\ N % 2 \in 0 .. 1
    BY <1>1
  <2>2. N \div 2 \in 1 .. N - 1 /\ N <= 2 * (N \div 2) + 1
    BY <1>1, <2>1
  <2>. QED
    BY <2>2
<1>3. arr \in Seq(Element) /\ edits \in 0 .. MaxEdits /\ edits < MaxEdits
  BY DEF ArraysInv, ArraysTypeOK, Sort
<1>. DEFINE c == [fun |-> "sort", cmp |-> cmp, before |-> arr, at |-> "sift",
                  build |-> TRUE, i |-> h, root |-> h, bottom |-> N - 1, child |-> 0]
<1>4. call' = c /\ UNCHANGED <<arr, alloc>> /\ edits' = edits + 1
  BY <1>1, <1>2 DEF Sort, ArraySize
<1>5. c \in SortCall
  BY <1>1, <1>2, <1>3 DEF SortCall
<1>6. /\ c.fun = "sort" /\ c.before = arr /\ c.at = "sift" /\ c.build = TRUE
      /\ c.i = h /\ c.root = h /\ c.bottom = N - 1
  OBVIOUS
<1>. HIDE DEF c
<1>7. SortFits(arr, c)
  BY <1>1, <1>2, <1>3, <1>6, SameIsRearranged DEF SortFits
<1>8. HeapFits(arr, c)
  <2>1. Heaped(arr, N - 1, h, h) /\ Bridged(arr, N - 1, h, h)
    BY <1>1, <1>2 DEF Heaped, Bridged, Child
  <2>. QED
    BY <1>6, <2>1 DEF HeapFits, From
<1>9. ArraysTypeOK'
  BY <1>3, <1>4, <1>5, ArraysAssumption DEF ArraysInv, ArraysTypeOK, Calls
<1>10. SizeFits' /\ SortInv' /\ SortedInv' /\ EndsSorted'
  BY <1>4, <1>6, <1>7, <1>8 DEF ArraysInv, SizeFits, ArraySize, SortInv, SortedInv, EndsSorted
<1>. QED
  BY <1>9, <1>10 DEF ArraysInv

\* The larger child is found.
LEMMA SiftChildKeeps ==
    ASSUME ArraysInv, SiftChild
    PROVE  ArraysInv'
<1>1. /\ call.fun = "sort" /\ call.at = "sift" /\ 2 * call.root <= call.bottom
      /\ UNCHANGED <<arr, alloc, edits>>
  BY DEF SiftChild
<1>2. /\ call \in SortCall /\ SortFits(arr, call) /\ arr \in Seq(Element) /\ arr \in Seq(Int)
      /\ \A k \in 0 .. Len(arr) - 1 : arr[k + 1] \in Int
      /\ (call.cmp = "order" => HeapFits(arr, call))
  BY <1>1, SortCallFacts
<1>3. PICK r \in Nat, b \in Nat : r = call.root /\ b = call.bottom /\ 2 * r <= b /\ b < Len(arr)
  BY <1>1, <1>2 DEF SortCall, SortFits
<1>4. PICK m \in {2 * r, 2 * r + 1} :
           /\ m \in 0 .. b
           /\ call' = [call EXCEPT !.at = "parent", !.child = m]
           /\ call.cmp = "order" => \A c \in 0 .. b : Child(r, c) => arr[c + 1] <= arr[m + 1]
  <2>1. CASE 2 * r = b
    <3>1. call' = [call EXCEPT !.at = "parent", !.child = 2 * r]
      BY <1>3, <2>1 DEF SiftChild, LastChild
    <3>2. \A c \in 0 .. b : Child(r, c) => c = 2 * r
      BY <1>3, <2>1 DEF Child
    <3>3. arr[2 * r + 1] \in Int
      BY <1>2, <1>3
    <3>. QED
      BY <1>3, <3>1, <3>2, <3>3
  <2>2. CASE 2 * r # b
    <3>1. PICK z \in Compared(2 * r, 2 * r + 1) :
              call' = [call EXCEPT !.at = "parent", !.child = 2 * r + (IF z > 0 THEN 0 ELSE 1)]
      BY <1>3, <2>2 DEF SiftChild, LastChild
    <3>2. PICK m \in {2 * r, 2 * r + 1} : m = 2 * r + (IF z > 0 THEN 0 ELSE 1)
      BY <1>3
    <3>3. m \in 0 .. b /\ 2 * r + 1 \in 0 .. b
      BY SMTT(30), <1>3, <2>2, <3>2
    <3>4. PICK x \in Int, y \in Int : x = arr[2 * r + 1] /\ y = arr[(2 * r + 1) + 1]
      <4>1. 2 * r \in 0 .. Len(arr) - 1 /\ 2 * r + 1 \in 0 .. Len(arr) - 1
        BY <1>3, <3>3
      <4>. QED
        BY <1>2, <4>1
    <3>5. call.cmp = "order" => z = IF x < y THEN -1 ELSE IF x > y THEN 1 ELSE 0
      <4>1. "order" # "any"
        OBVIOUS
      <4>. QED
        BY <3>1, <3>4, <4>1 DEF Compared, At
    <3>6. ASSUME call.cmp = "order", NEW c \in 0 .. b, Child(r, c)
          PROVE  arr[c + 1] <= arr[m + 1]
      <4>1. c = 2 * r \/ c = 2 * r + 1
        BY <3>6 DEF Child
      <4>2. CASE x > y
        BY <3>2, <3>4, <3>5, <3>6, <4>1, <4>2
      <4>3. CASE x <= y
        BY <3>2, <3>4, <3>5, <3>6, <4>1, <4>3
      <4>. QED
        BY <4>2, <4>3
    <3>. QED
      BY <3>1, <3>2, <3>3, <3>6
  <2>. QED
    BY <2>1, <2>2
<1>5. PICK c : c = [call EXCEPT !.at = "parent", !.child = m]
  OBVIOUS
<1>6. /\ c \in SortCall /\ c.at = "parent" /\ c.child = m
      /\ c.root = r /\ c.bottom = b /\ c.build = call.build /\ c.i = call.i /\ c.cmp = call.cmp
      /\ c.before = call.before
  <2>1. m \in Nat
    BY <1>3
  <2>. QED
    BY <1>2, <1>3, <1>5, <2>1 DEF SortCall
<1>7. SortFits(arr, c)
  BY <1>2, <1>3, <1>4, <1>6 DEF SortFits
<1>8. c.cmp = "order" => HeapFits(arr, c)
  <2>1. SUFFICES ASSUME c.cmp = "order" PROVE HeapFits(arr, c)
    OBVIOUS
  <2>2. HeapFits(arr, call)
    BY <1>2, <1>6, <2>1
  <2>3. From(c) = From(call)
    BY <1>6 DEF From
  <2>4. Largest(arr, b, r, m)
    BY <1>4, <1>6, <2>1 DEF Largest
  <2>. QED
    BY <1>1, <1>3, <1>6, <2>2, <2>3, <2>4 DEF HeapFits
<1>. QED
  BY <1>1, <1>2, <1>4, <1>5, <1>6, <1>7, <1>8, SortGoesOn

\* No function runs any more.
LEMMA CallIsOver ==
    ASSUME ArraysInv, call' = NoCall, UNCHANGED <<arr, alloc, edits>>
    PROVE  ArraysInv'
  BY DEF ArraysInv, ArraysTypeOK, Calls, NoCall, SizeFits, ArraySize, SortInv, SortedInv, EndsSorted

\* The node goes down, or stays.
LEMMA SiftParentKeeps ==
    ASSUME ArraysInv, SiftParent
    PROVE  ArraysInv'
<1>1. call.fun = "sort" /\ call.at = "parent" /\ UNCHANGED <<alloc, edits>>
  BY DEF SiftParent
<1>2. /\ call \in SortCall /\ SortFits(arr, call) /\ arr \in Seq(Element) /\ arr \in Seq(Int)
      /\ \A k \in 0 .. Len(arr) - 1 : arr[k + 1] \in Int
      /\ (call.cmp = "order" => HeapFits(arr, call))
  BY <1>1, SortCallFacts
<1>3. PICK r \in Nat, b \in Nat, m \in Nat :
           /\ r = call.root /\ b = call.bottom /\ m = call.child
           /\ m \in {2 * r, 2 * r + 1} /\ m <= b /\ r <= b /\ b < Len(arr)
  BY <1>1, <1>2 DEF SortCall, SortFits
<1>4. PICK x \in Int, y \in Int : x = arr[r + 1] /\ y = arr[m + 1]
  <2>1. r \in 0 .. Len(arr) - 1 /\ m \in 0 .. Len(arr) - 1
    BY <1>3
  <2>. QED
    BY <1>2, <2>1
<1>5. PICK z \in Compared(r, m) :
           IF z >= 0 THEN call' = [call EXCEPT !.at = "done"] /\ UNCHANGED arr
           ELSE IF r = m THEN call' = NoCall /\ UNCHANGED arr
           ELSE /\ arr' = Swapped(r, m)
                /\ call' = [call EXCEPT !.at = "sift", !.root = m]
  BY <1>3 DEF SiftParent
<1>6. call.cmp = "order" => z = IF x < y THEN -1 ELSE IF x > y THEN 1 ELSE 0
  <2>1. "order" # "any"
    OBVIOUS
  <2>. QED
    BY <1>4, <1>5, <2>1 DEF Compared, At
<1>7. CASE z >= 0
  <2>1. PICK c : c = [call EXCEPT !.at = "done"]
    OBVIOUS
  <2>2. /\ c \in SortCall /\ c.at = "done"
        /\ c.root = r /\ c.bottom = b /\ c.build = call.build /\ c.i = call.i /\ c.cmp = call.cmp
        /\ c.before = call.before
    BY <1>2, <1>3, <2>1 DEF SortCall
  <2>3. SortFits(arr, c)
    BY <1>2, <1>3, <2>2 DEF SortFits
  <2>4. c.cmp = "order" => HeapFits(arr, c)
    <3>1. SUFFICES ASSUME c.cmp = "order" PROVE HeapFits(arr, c)
      OBVIOUS
    <3>2. HeapFits(arr, call) /\ x >= y
      BY <1>2, <1>4, <1>6, <1>7, <2>2, <3>1
    <3>3. From(c) = From(call) /\ From(c) \in Nat
      BY <1>2, <2>2 DEF From, SortCall
    <3>4. Largest(arr, b, r, m) /\ Heaped(arr, b, From(c), r)
      BY <1>1, <1>3, <3>2, <3>3 DEF HeapFits
    <3>5. b \in 0 .. Len(arr) - 1 /\ r \in 0 .. b
      BY <1>3
    <3>6. Heaped(arr, b, From(c), -1)
      BY <1>2, <1>4, <3>2, <3>3, <3>4, <3>5, StaysUp
    <3>7. c.build \/ Split(arr, c.i)
      BY <2>2, <3>2 DEF HeapFits
    <3>. QED
      BY <2>2, <3>6, <3>7 DEF HeapFits
  <2>. QED
    BY <1>1, <1>2, <1>5, <1>7, <2>1, <2>2, <2>3, <2>4, SortGoesOn
<1>8. CASE z < 0 /\ r = m
  <2>1. call' = NoCall /\ UNCHANGED arr
    BY <1>5, <1>6, <1>8 DEF Compared
  <2>. QED
    BY <1>1, <2>1, CallIsOver
<1>9. CASE z < 0 /\ r # m
  <2>1. PICK c, a : c = [call EXCEPT !.at = "sift", !.root = m] /\ a = SwapOf(arr, r, m)
    OBVIOUS
  <2>2. arr' = a /\ call' = c
    BY <1>5, <1>9, <2>1 DEF Compared, Swapped, SwapOf, At
  <2>3. /\ c \in SortCall /\ c.at = "sift"
        /\ c.root = m /\ c.bottom = b /\ c.build = call.build /\ c.i = call.i /\ c.cmp = call.cmp
        /\ c.before = call.before
    BY <1>2, <1>3, <2>1 DEF SortCall
  <2>4. r \in 0 .. Len(arr) - 1 /\ m \in 0 .. Len(arr) - 1 /\ m > r
    BY <1>3, <1>9
  <2>5. a \in Seq(Element) /\ Len(a) = Len(arr)
    BY <1>2, <2>1, <2>4, SwapFacts
  <2>6. Rearranged(a, c.before)
    <3>1. call.before \in Seq(Element) /\ Rearranged(arr, call.before)
      BY <1>2 DEF SortCall, SortFits
    <3>. QED
      BY <1>2, <2>1, <2>3, <2>4, <3>1, SwapRearranges
  <2>7. SortFits(a, c)
    BY <1>2, <1>3, <2>3, <2>4, <2>5, <2>6 DEF SortFits, SortCall
  <2>8. c.cmp = "order" => HeapFits(a, c)
    <3>1. SUFFICES ASSUME c.cmp = "order" PROVE HeapFits(a, c)
      OBVIOUS
    <3>2. HeapFits(arr, call) /\ x < y
      BY <1>2, <1>4, <1>6, <1>9, <2>3, <3>1
    <3>3. From(c) = From(call) /\ From(c) \in Nat /\ r >= From(c)
      BY <1>2, <1>3, <2>3 DEF From, SortCall, SortFits
    <3>4. Largest(arr, b, r, m) /\ Heaped(arr, b, From(c), r) /\ Bridged(arr, b, From(c), r)
      BY <1>1, <1>3, <3>2, <3>3 DEF HeapFits
    <3>5. b \in 0 .. Len(arr) - 1 /\ r \in 0 .. b
      BY <1>3
    <3>6. Heaped(a, b, From(c), m) /\ Bridged(a, b, From(c), m)
      BY <1>2, <1>4, <2>1, <3>2, <3>3, <3>4, <3>5, SiftsDown
    <3>7. c.build \/ Split(a, c.i)
      <4>1. SUFFICES ASSUME ~c.build PROVE Split(a, c.i)
        OBVIOUS
      <4>2. Split(arr, c.i) /\ b = c.i - 1 /\ c.i \in Nat
        BY <1>2, <1>3, <2>3, <3>2, <4>1 DEF HeapFits, SortFits, SortCall
      <4>3. r \in 0 .. c.i - 1 /\ m \in 0 .. c.i - 1
        BY <1>3, <4>2
      <4>. QED
        BY <1>2, <2>1, <2>4, <4>2, <4>3, SplitStays
    <3>. QED
      BY <2>3, <3>6, <3>7 DEF HeapFits
  <2>. QED
    BY <1>1, <1>2, <2>2, <2>3, <2>5, <2>7, <2>8, SortGoesOn
<1>. QED
  <2>1. z \in Int
    BY <1>5, <1>4 DEF Compared
  <2>. QED
    BY <1>7, <1>8, <1>9, <2>1

\* The rest of a sort when a node is in its place: the next node of the heap,
\* the largest of the heap, or the end.
LEMMA SiftDoneKeeps ==
    ASSUME ArraysInv, SiftDone
    PROVE  ArraysInv'
<1>1. /\ call.fun = "sort" /\ UNCHANGED <<alloc, edits>>
      /\ call.at = "done" \/ (call.at = "sift" /\ 2 * call.root > call.bottom)
  BY DEF SiftDone
<1>2. /\ call \in SortCall /\ SortFits(arr, call) /\ arr \in Seq(Element) /\ arr \in Seq(Int)
      /\ (call.cmp = "order" => HeapFits(arr, call))
  BY <1>1, SortCallFacts
<1>3. PICK N \in Nat, r \in Nat, b \in Nat, i \in Nat :
           /\ r = call.root /\ b = call.bottom /\ i = call.i /\ N = Len(arr)
           /\ N >= 2 /\ r <= b /\ b < N
  BY <1>2 DEF SortCall, SortFits
<1>4. /\ call.build => b = N - 1 /\ i <= b
      /\ ~call.build => i >= 1 /\ b = i - 1
  BY <1>2, <1>3 DEF SortFits
<1>5. call.before \in Seq(Element) /\ Rearranged(arr, call.before) /\ call.cmp \in {"order", "any"}
  BY <1>2 DEF SortCall, SortFits
<1>6. call.cmp = "order" => Heaped(arr, b, From(call), -1) /\ (call.build \/ Split(arr, i))
  <2>1. SUFFICES ASSUME call.cmp = "order"
                 PROVE  Heaped(arr, b, From(call), -1) /\ (call.build \/ Split(arr, i))
    OBVIOUS
  <2>2. HeapFits(arr, call)
    BY <1>2, <2>1
  <2>3. CASE call.at = "done"
    BY <1>3, <2>2, <2>3 DEF HeapFits
  <2>4. CASE call.at = "sift" /\ 2 * r > b
    <3>1. Heaped(arr, b, From(call), r) /\ (call.build \/ Split(arr, i))
      BY <1>3, <2>2, <2>4 DEF HeapFits
    <3>2. \A c \in 0 .. b : ~ Child(r, c)
      BY <1>3, <2>4 DEF Child
    <3>. QED
      BY <3>1, <3>2 DEF Heaped
  <2>. QED
    BY <1>1, <1>3, <2>3, <2>4
<1>7. CASE call.build /\ i # 0
  <2>1. PICK c : c = [call EXCEPT !.i = i - 1, !.root = i - 1, !.at = "sift"]
    OBVIOUS
  <2>2. call' = c /\ UNCHANGED arr
    BY <1>3, <1>7, <2>1 DEF SiftDone, LastBuilt
  <2>3. i - 1 \in Nat
    BY <1>7
  <2>4. /\ c \in SortCall /\ c.at = "sift"
        /\ c.root = i - 1 /\ c.i = i - 1 /\ c.bottom = b /\ c.build = TRUE /\ c.cmp = call.cmp
        /\ c.before = call.before
    BY <1>2, <1>3, <1>7, <2>1, <2>3 DEF SortCall
  <2>5. SortFits(arr, c)
    BY SMTT(30), <1>2, <1>3, <1>4, <1>7, <2>3, <2>4 DEF SortFits
  <2>6. c.cmp = "order" => HeapFits(arr, c)
    <3>1. SUFFICES ASSUME c.cmp = "order" PROVE HeapFits(arr, c)
      OBVIOUS
    <3>2. Heaped(arr, b, i, -1)
      BY <1>3, <1>6, <1>7, <2>4, <3>1 DEF From
    <3>3. \A p \in 0 .. b : p >= i - 1 /\ p # i - 1 => p >= i /\ p # -1
      BY <1>3, <2>3
    <3>4. Heaped(arr, b, i - 1, i - 1)
      BY <3>2, <3>3 DEF Heaped
    <3>5. \A p \in 0 .. b : p >= i - 1 => ~ Child(p, i - 1)
      BY <1>3, <2>3 DEF Child
    <3>6. Bridged(arr, b, i - 1, i - 1)
      BY <3>5 DEF Bridged
    <3>7. From(c) = i - 1
      BY <2>4 DEF From
    <3>. QED
      BY <2>4, <3>4, <3>6, <3>7 DEF HeapFits
  <2>. QED
    BY <1>1, <1>2, <2>2, <2>4, <2>5, <2>6, SortGoesOn
<1>8. CASE ~ (call.build /\ i # 0)
  <2>1. PICK l \in Nat : l = (IF ~call.build THEN i - 1 ELSE N - 1) /\ l = b
    BY <1>3, <1>4, <1>8
  <2>2. IF l = 0 THEN call' = Finished /\ UNCHANGED arr
        ELSE /\ arr' = Swapped(0, l)
             /\ call' = [call EXCEPT !.build = FALSE, !.i = l, !.root = 0,
                                     !.bottom = l - 1, !.at = "sift"]
    BY <1>3, <1>8, <2>1 DEF SiftDone, LastBuilt, ArraySize
  <2>3. call.cmp = "order" => Heaped(arr, b, 0, -1) /\ Split(arr, b + 1)
    <3>1. CASE call.build
      <4>1. Split(arr, b + 1)
        BY <1>2, <1>3, <1>4, <3>1 DEF Split
      <4>. QED
        BY <1>3, <1>6, <1>8, <3>1, <4>1 DEF From
    <3>2. CASE ~call.build
      <4>1. i = b + 1
        BY <1>3, <1>4, <3>2
      <4>. QED
        BY <1>6, <3>2, <4>1 DEF From
    <3>. QED
      BY <3>1, <3>2
  <2>4. CASE l = 0
    <3>1. call' = Finished /\ UNCHANGED arr
      BY <2>2, <2>4
    <3>2. Finished \in [fun : {"sorted"}, cmp : {"order", "any"}, before : Seq(Element)]
      BY <1>5 DEF Finished
    <3>3. /\ call'.fun = "sorted" /\ call'.cmp = call.cmp /\ call'.before = call.before
          /\ call' \in Calls
      BY <3>1, <3>2 DEF Finished, Calls
    <3>4. ArraysTypeOK' /\ SizeFits' /\ SortInv' /\ SortedInv'
      BY <1>1, <1>5, <3>1, <3>3
         DEF ArraysInv, ArraysTypeOK, SizeFits, ArraySize, SortInv, SortedInv
    <3>5. EndsSorted'
      <4>1. SUFFICES ASSUME call.cmp = "order", NEW j \in 1 .. N, NEW k \in 1 .. N, k < j
                     PROVE  arr[k] <= arr[j]
        BY <1>3, <3>1, <3>3 DEF EndsSorted, ArraySize
      <4>2. Split(arr, 1) /\ j > 1
        BY <2>1, <2>3, <2>4, <4>1
      <4>3. DOMAIN arr = 1 .. N
        BY <1>2, <1>3
      <4>. QED
        BY <4>1, <4>2, <4>3 DEF Split
    <3>. QED
      BY <3>4, <3>5 DEF ArraysInv
  <2>5. CASE l # 0
    <3>1. PICK c, a : /\ c = [call EXCEPT !.build = FALSE, !.i = l, !.root = 0,
                                          !.bottom = l - 1, !.at = "sift"]
                      /\ a = SwapOf(arr, 0, l)
      OBVIOUS
    <3>2. Swapped(0, l) = SwapOf(arr, 0, l)
      BY DEF Swapped, SwapOf, At
    <3>3. arr' = a /\ call' = c
      BY <2>2, <2>5, <3>1, <3>2
    <3>4. l \in Nat /\ l - 1 \in Nat /\ 0 \in Nat
      BY <2>5
    <3>5. /\ c \in SortCall /\ c.at = "sift" /\ c.root = 0 /\ c.i = l /\ c.bottom = l - 1
          /\ c.build = FALSE /\ c.cmp = call.cmp /\ c.before = call.before
      BY <1>2, <3>1, <3>4 DEF SortCall
    <3>6. 0 \in 0 .. Len(arr) - 1 /\ l \in 0 .. Len(arr) - 1 /\ l \in 1 .. Len(arr) - 1
      BY <1>3, <2>1, <2>5
    <3>7. a \in Seq(Element) /\ Len(a) = Len(arr)
      BY <1>2, <3>1, <3>6, SwapFacts
    <3>8. Rearranged(a, c.before)
      BY <1>2, <1>5, <3>1, <3>5, <3>6, SwapRearranges
    <3>9. SortFits(a, c)
      BY <1>3, <2>1, <2>5, <3>4, <3>5, <3>6, <3>7, <3>8 DEF SortFits
    <3>10. c.cmp = "order" => HeapFits(a, c)
      <4>1. SUFFICES ASSUME c.cmp = "order" PROVE HeapFits(a, c)
        OBVIOUS
      <4>2. Heaped(arr, l, 0, -1) /\ Split(arr, l + 1)
        BY <2>1, <2>3, <3>5, <4>1
      <4>3. Heaped(a, l - 1, 0, 0) /\ Bridged(a, l - 1, 0, 0) /\ Split(a, l)
        BY <1>2, <3>1, <3>6, <4>2, LargestIsTaken
      <4>. QED
        BY <3>5, <4>3 DEF HeapFits, From
    <3>. QED
      BY <1>1, <3>3, <3>5, <3>7, <3>9, <3>10, SortGoesOn
  <2>. QED
    BY <2>4, <2>5
<1>. QED
  BY <1>7, <1>8

----------------------------------------------------------------------------
(* Arrays: the functions that call closures, and the operations.           *)

LEMMA NotSorting ==
    ASSUME ArraysInv, call.fun \in {"none", "read", "apply"}, NEW a \in Seq(Element), NEW room \in Nat,
           arr' = a, alloc' = room, Len(a) <= room, edits' \in 0 .. MaxEdits,
           call' \in Calls, call'.fun \in {"none", "read", "apply"}
    PROVE  ArraysInv'
<1>1. call'.fun # "sort" /\ call'.fun # "sorted"
  OBVIOUS
<1>2. ArraysTypeOK' /\ SizeFits'
  BY DEF ArraysTypeOK, SizeFits, ArraySize
<1>. QED
  BY <1>1, <1>2 DEF ArraysInv, SortInv, SortedInv, EndsSorted

LEMMA EachCallFacts ==
    ASSUME ArraysInv, call.fun \in {"read", "apply"}
    PROVE  call \in [fun : {"read", "apply"}, n : Nat, size : Nat, called : BOOLEAN]
  BY DEF ArraysInv, ArraysTypeOK, Calls, NoCall, SortCall

LEMMA EachKeeps ==
    ASSUME NEW fun \in {"read", "apply"}, ArraysInv, Each(fun)
    PROVE  ArraysInv'
<1>1. PICK N \in Nat, room \in Nat : N = Len(arr) /\ room = alloc /\ N <= room
  BY DEF ArraysInv, ArraysTypeOK, SizeFits, ArraySize
<1>2. PICK c : c = [fun |-> fun, n |-> 1, size |-> N, called |-> FALSE]
  OBVIOUS
<1>3. /\ call' = c /\ arr' = arr /\ alloc' = room /\ edits' = edits + 1 /\ edits < MaxEdits
      /\ call.fun = "none"
  BY <1>1, <1>2 DEF Each, ArraySize, NoCall
<1>4. c \in Calls /\ c.fun \in {"none", "read", "apply"}
  BY <1>1, <1>2 DEF Calls
<1>5. arr \in Seq(Element) /\ edits' \in 0 .. MaxEdits
  BY <1>3, ArraysAssumption DEF ArraysInv, ArraysTypeOK
<1>. QED
  BY <1>1, <1>3, <1>4, <1>5, NotSorting

LEMMA CallEachKeeps ==
    ASSUME ArraysInv, CallEach
    PROVE  ArraysInv'
<1>1. PICK room \in Nat : room = alloc /\ Len(arr) <= room /\ arr \in Seq(Element) /\ edits \in 0 .. MaxEdits
  BY DEF ArraysInv, ArraysTypeOK, SizeFits, ArraySize
<1>2. call.fun \in {"read", "apply"} /\ UNCHANGED <<arr, alloc, edits>>
  BY DEF CallEach
<1>3. PICK c : c = [call EXCEPT !.called = TRUE]
  OBVIOUS
<1>4. c \in Calls /\ c.fun \in {"none", "read", "apply"}
  BY <1>2, <1>3, EachCallFacts DEF Calls
<1>5. NoCall \in Calls /\ NoCall.fun \in {"none", "read", "apply"}
  BY DEF NoCall, Calls
<1>6. call' = c \/ call' = NoCall
  BY <1>3 DEF CallEach
<1>. QED
  BY <1>1, <1>2, <1>4, <1>5, <1>6, NotSorting

LEMMA EachReturnsKeeps ==
    ASSUME NEW x \in Element, ArraysInv, EachReturns(x)
    PROVE  ArraysInv'
<1>1. PICK room \in Nat : room = alloc /\ Len(arr) <= room /\ arr \in Seq(Element) /\ edits \in 0 .. MaxEdits
  BY DEF ArraysInv, ArraysTypeOK, SizeFits, ArraySize
<1>2. call.fun \in {"read", "apply"} /\ UNCHANGED <<alloc, edits>>
  BY DEF EachReturns
<1>3. PICK c : c = NextOf(call)
  OBVIOUS
<1>4. c \in Calls /\ c.fun \in {"none", "read", "apply"}
  <2>1. PICK k \in Nat : k = call.n /\ k + 1 \in Nat
    BY <1>2, EachCallFacts
  <2>2. c = [call EXCEPT !.n = k + 1, !.called = FALSE]
    BY <1>3, <2>1 DEF NextOf
  <2>. QED
    BY <1>2, <2>1, <2>2, EachCallFacts DEF Calls
<1>5. NoCall \in Calls /\ NoCall.fun \in {"none", "read", "apply"}
  BY DEF NoCall, Calls
<1>6. call' = c \/ call' = NoCall
  BY <1>3 DEF EachReturns
<1>7. PICK a \in Seq(Element) : a = arr' /\ Len(a) = Len(arr)
  <2>1. arr' = [arr EXCEPT ![call.n] = x] \/ arr' = arr
    BY DEF EachReturns
  <2>2. [arr EXCEPT ![call.n] = x] \in Seq(Element) /\ Len([arr EXCEPT ![call.n] = x]) = Len(arr)
    <3>1. PICK N \in Nat : N = Len(arr) /\ arr \in [1 .. N -> Element]
      BY <1>1
    <3>2. [arr EXCEPT ![call.n] = x] \in [1 .. N -> Element]
      BY <3>1
    <3>. QED
      BY <3>1, <3>2
  <2>. QED
    BY <1>1, <2>1, <2>2
<1>. QED
  BY <1>1, <1>2, <1>4, <1>5, <1>6, <1>7, NotSorting

\* A sort ends, or is given up.
LEMMA SortEndsKeeps ==
    ASSUME ArraysInv, SortEnds
    PROVE  ArraysInv'
  BY CallIsOver DEF SortEnds

LEMMA EditKeeps ==
    ASSUME NEW a \in Seq(Element), NEW room \in Nat, ArraysInv, Edit(a, room), Len(a) <= room
    PROVE  ArraysInv'
<1>1. /\ call' = call /\ arr' = a /\ alloc' = room /\ edits' = edits + 1 /\ edits < MaxEdits
      /\ call.fun \in {"none", "read", "apply"}
  BY DEF Edit, ScriptRuns
<1>2. call \in Calls /\ edits' \in 0 .. MaxEdits
  BY <1>1, ArraysAssumption DEF ArraysInv, ArraysTypeOK
<1>. QED
  BY <1>1, <1>2, NotSorting

LEMMA ArrayFacts ==
    ASSUME ArraysInv
    PROVE  /\ arr \in Seq(Element) /\ ArraySize \in Nat /\ alloc \in Nat /\ ArraySize <= alloc
           /\ ArraySize = Len(arr) /\ \A i \in 1 .. ArraySize : arr[i] \in Element
  BY DEF ArraysInv, ArraysTypeOK, SizeFits, ArraySize

\* The room push_back, resize and ShrinkIfNeeded leave is enough.
LEMMA RoomFacts ==
    ASSUME NEW n \in Nat, NEW a \in Nat
    PROVE  /\ RoomPushed(n, a) \in Nat /\ (n <= a => n + 1 <= RoomPushed(n, a))
           /\ RoomResized(n, a) \in Nat /\ n <= RoomResized(n, a)
           /\ RoomShrunk(n, a) \in Nat /\ (n <= a => n <= RoomShrunk(n, a))
<1>1. RoomPushed(n, a) \in Nat /\ (n <= a => n + 1 <= RoomPushed(n, a))
  <2>1. CASE a > n
    BY <2>1 DEF RoomPushed
  <2>2. CASE ~ a > n /\ n = 0
    BY <2>2 DEF RoomPushed
  <2>3. CASE ~ a > n /\ n # 0
    <3>1. 2 * n \in Nat /\ n + 1 <= 2 * n
      BY <2>3
    <3>. QED
      BY <2>3, <3>1 DEF RoomPushed
  <2>. QED
    BY <2>1, <2>2, <2>3
<1>. QED
  BY <1>1 DEF RoomResized, RoomShrunk

LEMMA AppendKeeps ==
    ASSUME NEW x \in Element, ArraysInv, lv_arrayappend(x)
    PROVE  ArraysInv'
<1>1. PICK a, room : a = Append(arr, x) /\ room = RoomPushed(ArraySize, alloc)
  OBVIOUS
<1>2. a \in Seq(Element) /\ Len(a) = ArraySize + 1
  BY <1>1, ArrayFacts, AppendProperties
<1>3. room \in Nat /\ ArraySize + 1 <= room
  <2>1. PICK n \in Nat, k \in Nat : n = ArraySize /\ k = alloc /\ n <= k
    BY ArrayFacts
  <2>2. room = RoomPushed(n, k)
    BY <1>1, <2>1
  <2>3. RoomPushed(n, k) \in Nat /\ n + 1 <= RoomPushed(n, k)
    BY <2>1, RoomFacts
  <2>. QED
    BY <2>1, <2>2, <2>3
<1>. QED
  BY <1>1, <1>2, <1>3, EditKeeps DEF lv_arrayappend

LEMMA PopKeeps ==
    ASSUME ArraysInv, lv_arraypop
    PROVE  ArraysInv'
<1>1. PICK n \in Nat : n = ArraySize - 1 /\ n <= alloc
  BY ArrayFacts DEF lv_arraypop
<1>2. PICK a, room : a = Front(arr) /\ room = RoomShrunk(n, alloc)
  OBVIOUS
<1>3. a \in Seq(Element) /\ Len(a) = n
  <2>1. a = SubSeq(arr, 1, n)
    BY <1>1, <1>2, ArrayFacts DEF Front
  <2>2. 1 \in Int /\ n \in Int /\ \A i \in 1 .. n : arr[i] \in Element
    BY <1>1, ArrayFacts
  <2>3. SubSeq(arr, 1, n) \in Seq(Element) /\ Len(SubSeq(arr, 1, n)) = IF 1 <= n THEN n - 1 + 1 ELSE 0
    BY <2>2, SubSeqProperties
  <2>. QED
    BY <2>1, <2>3
<1>4. room \in Nat /\ n <= room
  BY <1>1, <1>2, ArrayFacts, RoomFacts
<1>. QED
  BY <1>1, <1>2, <1>3, <1>4, EditKeeps DEF lv_arraypop

LEMMA PartOfArray ==
    ASSUME ArraysInv, NEW m \in 1 .. ArraySize + 1, NEW n \in 0 .. ArraySize, m <= n + 1
    PROVE  SubSeq(arr, m, n) \in Seq(Element) /\ Len(SubSeq(arr, m, n)) = n - m + 1
<1>1. m \in Int /\ n \in Int /\ \A i \in m .. n : arr[i] \in Element
  BY ArrayFacts
<1>2. /\ SubSeq(arr, m, n) \in Seq(Element)
      /\ Len(SubSeq(arr, m, n)) = IF m <= n THEN n - m + 1 ELSE 0
  BY <1>1, SubSeqProperties
<1>. QED
  BY <1>1, <1>2

LEMMA InsertKeeps ==
    ASSUME NEW i \in 1 .. ArraySize + 1, NEW x \in Element, ArraysInv, lv_arrayinsert(i, x)
    PROVE  ArraysInv'
<1>1. PICK N \in Nat : N = ArraySize /\ N = Len(arr) /\ i \in 1 .. N + 1
  BY ArrayFacts
<1>2. PICK u \in Seq(Element), w \in Seq(Element) :
          /\ u = SubSeq(arr, 1, i - 1) /\ Len(u) = i - 1
          /\ w = SubSeq(arr, i, N) /\ Len(w) = N - i + 1
  <2>1. /\ 1 \in 1 .. ArraySize + 1 /\ i - 1 \in 0 .. ArraySize /\ 1 <= (i - 1) + 1
        /\ N \in 0 .. ArraySize /\ i <= N + 1 /\ (i - 1) - 1 + 1 = i - 1
    BY <1>1
  <2>. QED
    BY <2>1, PartOfArray
<1>3. PICK a, room : a = InsertAt(arr, i, x) /\ room = RoomResized(ArraySize + 1, alloc)
  OBVIOUS
<1>4. a = (u \o <<x>>) \o w
  BY <1>1, <1>2, <1>3 DEF InsertAt
<1>5. <<x>> \in Seq(Element) /\ Len(<<x>>) = 1
  <2>1. <<x>> \in [1 .. 1 -> Element]
    OBVIOUS
  <2>. QED
    BY <2>1
<1>6. PICK l \in Seq(Element) : l = u \o <<x>> /\ Len(l) = (i - 1) + 1
  <2>1. PICK v \in Seq(Element) : v = <<x>> /\ Len(v) = 1
    BY <1>5
  <2>2. u \o v \in Seq(Element) /\ Len(u \o v) = (i - 1) + 1
    BY <1>2, <2>1, ConcatProperties
  <2>. QED
    BY <2>1, <2>2
<1>7. l \o w \in Seq(Element) /\ Len(l \o w) = ((i - 1) + 1) + (N - i + 1)
  BY <1>2, <1>6, ConcatProperties
<1>8. Len(a) = N + 1 /\ a \in Seq(Element)
  BY <1>1, <1>4, <1>6, <1>7
<1>9. room \in Nat /\ Len(a) <= room
  <2>1. PICK k \in Nat : k = alloc
    BY ArrayFacts
  <2>2. room = RoomResized(N + 1, k)
    BY <1>1, <1>3, <2>1
  <2>3. N + 1 \in Nat
    OBVIOUS
  <2>. QED
    BY <1>8, <2>2, <2>3, RoomFacts
<1>. QED
  BY <1>3, <1>8, <1>9, EditKeeps DEF lv_arrayinsert

LEMMA RemoveKeeps ==
    ASSUME NEW i \in 1 .. ArraySize, ArraysInv, lv_arrayremove(i)
    PROVE  ArraysInv'
<1>1. PICK N \in Nat : N = ArraySize /\ N = Len(arr) /\ i \in 1 .. N /\ N <= alloc
  BY ArrayFacts
<1>2. PICK u \in Seq(Element), w \in Seq(Element) :
          /\ u = SubSeq(arr, 1, i - 1) /\ Len(u) = i - 1
          /\ w = SubSeq(arr, i + 1, N) /\ Len(w) = N - (i + 1) + 1
  <2>1. /\ 1 \in 1 .. ArraySize + 1 /\ i - 1 \in 0 .. ArraySize /\ 1 <= (i - 1) + 1
        /\ i + 1 \in 1 .. ArraySize + 1
        /\ N \in 0 .. ArraySize /\ i + 1 <= N + 1 /\ (i - 1) - 1 + 1 = i - 1
    BY <1>1
  <2>. QED
    BY <2>1, PartOfArray
<1>3. PICK a, room : a = RemoveAt(arr, i) /\ room = RoomShrunk(ArraySize - 1, alloc)
  OBVIOUS
<1>4. a = u \o w
  BY <1>1, <1>2, <1>3 DEF RemoveAt
<1>5. u \o w \in Seq(Element) /\ Len(u \o w) = (i - 1) + (N - (i + 1) + 1)
  BY <1>2, ConcatProperties
<1>6. Len(a) = N - 1 /\ a \in Seq(Element) /\ N - 1 \in Nat /\ N - 1 <= alloc
  BY <1>1, <1>4, <1>5, ArrayFacts
<1>7. room \in Nat /\ Len(a) <= room
  BY <1>1, <1>3, <1>6, ArrayFacts, RoomFacts
<1>. QED
  BY <1>3, <1>6, <1>7, EditKeeps DEF lv_arrayremove

LEMMA ResizeKeeps ==
    ASSUME NEW n \in NewSizes, NEW x \in Element, ArraysInv, lv_arrayresize(n, x)
    PROVE  ArraysInv'
<1>1. n \in Nat
  BY ArraysAssumption
<1>2. PICK a, k, room : /\ a = [i \in 1 .. n |-> IF i <= ArraySize THEN arr[i] ELSE x]
                        /\ k = RoomResized(n, alloc) /\ room = RoomShrunk(n, k)
  OBVIOUS
<1>3. a \in Seq(Element) /\ Len(a) = n
  <2>1. \A i \in 1 .. n : (IF i <= ArraySize THEN arr[i] ELSE x) \in Element
    BY <1>1, ArrayFacts
  <2>. QED
    BY <1>1, <1>2, <2>1
<1>4. room \in Nat /\ n <= room
  BY <1>1, <1>2, ArrayFacts, RoomFacts
<1>. QED
  BY <1>2, <1>3, <1>4, EditKeeps DEF lv_arrayresize

LEMMA ReverseKeeps ==
    ASSUME ArraysInv, lv_arrayreverse
    PROVE  ArraysInv'
<1>1. PICK a : a = [i \in 1 .. ArraySize |-> arr[ArraySize + 1 - i]]
  OBVIOUS
<1>2. a \in Seq(Element) /\ Len(a) = ArraySize
  <2>1. \A i \in 1 .. ArraySize : arr[ArraySize + 1 - i] \in Element
    BY ArrayFacts
  <2>. QED
    BY <1>1, <2>1, ArrayFacts
<1>. QED
  BY <1>1, <1>2, ArrayFacts, EditKeeps DEF lv_arrayreverse

\* array_extend pushes the elements one after the other.
LEMMA ExtendKeeps ==
    ASSUME ArraysInv, array_extend
    PROVE  ArraysInv'
<1>1. PICK N \in Nat, k \in Nat : N = ArraySize /\ k = alloc /\ N <= k /\ N = Len(arr)
  BY ArrayFacts
<1>. DEFINE room == CHOOSE room : room = [n \in 0 .. ArraySize |->
                        IF n = 0 THEN alloc ELSE RoomPushed(ArraySize + n - 1, room[n - 1])]
            Grows(m, q) == q = [n \in 0 .. m |-> IF n = 0 THEN k ELSE RoomPushed(N + n - 1, q[n - 1])]
            S == {m \in Nat : \E q : Grows(m, q) /\ \A n \in 0 .. m : q[n] \in Nat /\ N + n <= q[n]}
<1>2. Edit(arr \o arr, room[N])
  BY <1>1 DEF array_extend
<1>3. 0 \in S
  <2>. DEFINE q == [n \in 0 .. 0 |-> k]
  <2>1. q = [n \in 0 .. 0 |-> IF n = 0 THEN k ELSE RoomPushed(N + n - 1, q[n - 1])]
    OBVIOUS
  <2>2. \A n \in 0 .. 0 : q[n] \in Nat /\ N + n <= q[n]
    BY <1>1
  <2>. HIDE DEF q
  <2>. QED
    BY <2>1, <2>2
<1>4. ASSUME NEW m \in S PROVE m + 1 \in S
  <2>1. PICK p : Grows(m, p) /\ \A n \in 0 .. m : p[n] \in Nat /\ N + n <= p[n]
    OBVIOUS
  <2>. DEFINE q == [n \in 0 .. m + 1 |-> IF n = 0 THEN k ELSE RoomPushed(N + n - 1, p[n - 1])]
  <2>2. \A n \in 0 .. m : p[n] = IF n = 0 THEN k ELSE RoomPushed(N + n - 1, p[n - 1])
    BY <2>1
  <2>3. \A n \in 0 .. m : q[n] = p[n]
    BY <2>2
  <2>4. \A n \in 0 .. m + 1 : n # 0 => n - 1 \in 0 .. m
    OBVIOUS
  <2>5. q = [n \in 0 .. m + 1 |-> IF n = 0 THEN k ELSE RoomPushed(N + n - 1, q[n - 1])]
    BY <2>3, <2>4
  <2>6. q[m + 1] \in Nat /\ N + (m + 1) <= q[m + 1]
    <3>1. PICK x \in Nat, h \in Nat : x = p[m] /\ h = N + m /\ h <= x
      BY <2>1
    <3>2. q[m + 1] = RoomPushed(h, x)
      <4>1. m + 1 \in 0 .. m + 1 /\ m + 1 # 0 /\ (m + 1) - 1 = m /\ N + (m + 1) - 1 = h
        BY <3>1
      <4>. QED
        BY <3>1, <4>1
    <3>3. RoomPushed(h, x) \in Nat /\ h + 1 <= RoomPushed(h, x)
      BY <3>1, RoomFacts
    <3>. QED
      BY <3>1, <3>2, <3>3
  <2>7. \A n \in 0 .. m + 1 : q[n] \in Nat /\ N + n <= q[n]
    <3>1. \A n \in 0 .. m + 1 : n \in 0 .. m \/ n = m + 1
      OBVIOUS
    <3>. HIDE DEF q
    <3>. QED
      BY <2>1, <2>3, <2>6, <3>1
  <2>8. m + 1 \in Nat
    OBVIOUS
  <2>. HIDE DEF q
  <2>. QED
    BY <2>5, <2>7, <2>8
<1>. HIDE DEF S
<1>5. S = Nat
  <2>1. S \in SUBSET Nat
    BY DEF S
  <2>. QED
    BY <1>3, <1>4, <2>1, AllNaturals
<1>6. PICK q : Grows(N, q) /\ \A n \in 0 .. N : q[n] \in Nat /\ N + n <= q[n]
  BY <1>1, <1>5 DEF S
<1>7. room = [n \in 0 .. ArraySize |->
                  IF n = 0 THEN alloc ELSE RoomPushed(ArraySize + n - 1, room[n - 1])]
  BY <1>1, <1>6
<1>. HIDE DEF room
<1>8. \A n \in 0 .. N : room[n] = IF n = 0 THEN k ELSE RoomPushed(N + n - 1, room[n - 1])
  BY <1>1, <1>7
<1>. DEFINE T == {m \in Nat : m <= N => room[m] \in Nat /\ N + m <= room[m]}
<1>9. 0 \in T
  BY <1>1, <1>8
<1>10. ASSUME NEW m \in T PROVE m + 1 \in T
  <2>1. SUFFICES ASSUME m + 1 <= N PROVE room[m + 1] \in Nat /\ N + (m + 1) <= room[m + 1]
    OBVIOUS
  <2>2. PICK x \in Nat, h \in Nat : x = room[m] /\ h = N + m /\ h <= x
    BY <2>1
  <2>3. room[m + 1] = RoomPushed(h, x)
    <3>1. m + 1 \in 0 .. N /\ m + 1 # 0 /\ (m + 1) - 1 = m /\ N + (m + 1) - 1 = h
      BY <2>1, <2>2
    <3>. QED
      BY <1>8, <2>2, <3>1
  <2>4. RoomPushed(h, x) \in Nat /\ h + 1 <= RoomPushed(h, x)
    BY <2>2, RoomFacts
  <2>. QED
    BY <2>2, <2>3, <2>4
<1>. HIDE DEF T
<1>11. T = Nat
  <2>1. T \in SUBSET Nat
    BY DEF T
  <2>. QED
    BY <1>9, <1>10, <2>1, AllNaturals
<1>12. room[N] \in Nat /\ N + N <= room[N]
  BY <1>11 DEF T
<1>13. arr \o arr \in Seq(Element) /\ Len(arr \o arr) = N + N
  BY <1>1, ArrayFacts, ConcatProperties
<1>. QED
  BY <1>2, <1>12, <1>13, EditKeeps

----------------------------------------------------------------------------
LEMMA ArraysInvInit == ArraysInit => ArraysInv
<1>. SUFFICES ASSUME ArraysInit PROVE ArraysInv
  OBVIOUS
<1>1. /\ arr \in Seq(Element) /\ Len(arr) \in Nat
      /\ alloc = Len(arr)
  <2>1. PICK m \in 0 .. MaxSort : arr \in [1 .. m -> Element]
    BY DEF ArraysInit, SeqOf
  <2>2. m \in Nat /\ arr \in Seq(Element) /\ Len(arr) = m
    BY <2>1, ArraysAssumption
  <2>3. arr = <<>> => Len(arr) = 0
    OBVIOUS
  <2>. QED
    BY <2>2, <2>3 DEF ArraysInit
<1>2. call.fun = "none" /\ call \in Calls /\ edits \in 0 .. MaxEdits
  BY ArraysAssumption DEF ArraysInit, NoCall, Calls
<1>. QED
  BY <1>1, <1>2 DEF ArraysInv, ArraysTypeOK, SizeFits, ArraySize, SortInv, SortedInv, EndsSorted

LEMMA ArraysInvNext == ArraysInv /\ [ArraysNext]_arrayVars => ArraysInv'
<1>. SUFFICES ASSUME ArraysInv, [ArraysNext]_arrayVars PROVE ArraysInv'
  OBVIOUS
<1>1. CASE UNCHANGED arrayVars
  BY <1>1 DEF arrayVars, ArraysInv, ArraysTypeOK, SizeFits, ArraySize, SortInv, SortedInv, EndsSorted
<1>2. CASE Edits
  BY <1>2, AppendKeeps, PopKeeps, ReverseKeeps, ExtendKeeps, InsertKeeps, RemoveKeeps, ResizeKeeps
     DEF Edits
<1>3. CASE ArraysStep
  BY <1>3, CallEachKeeps, EachReturnsKeeps, SiftChildKeeps, SiftParentKeeps, SiftDoneKeeps,
     SortEndsKeeps DEF ArraysStep
<1>4. CASE \E fun \in {"read", "apply"} : Each(fun)
  BY <1>4, EachKeeps
<1>5. CASE \E cmp \in {"order", "any"} : Sort(cmp)
  BY <1>5, SortKeeps
<1>. QED
  BY <1>1, <1>2, <1>3, <1>4, <1>5 DEF ArraysNext

LEMMA ArraysInvImplies == ArraysInv => ArraysTypeOK /\ SortSorts
<1>. SUFFICES ASSUME ArraysInv PROVE SortSafe
  BY DEF ArraysInv, SortSorts
<1>1. CASE call.fun = "sort"
  <2>1. call \in SortCall /\ SortFits(arr, call)
    BY <1>1, SortCallFacts
  <2>2. PICK r \in Nat, b \in Nat, m \in Nat :
             r = call.root /\ b = call.bottom /\ m = call.child /\ b < ArraySize
    BY <2>1 DEF SortCall, SortFits, ArraySize
  <2>3. 2 * r <= b => (IF LastChild(r, b) THEN 2 * r ELSE 2 * r + 1) < ArraySize
    BY SMTT(30), <2>2, ArrayFacts DEF LastChild
  <2>4. call.at = "parent" => m < ArraySize
    BY <2>1, <2>2, ArrayFacts DEF SortFits
  <2>5. Rearranged(arr, call.before)
    BY <2>1 DEF SortFits
  <2>. QED
    BY <2>2, <2>3, <2>4, <2>5 DEF SortSafe
<1>2. CASE call.fun = "sorted"
  BY <1>2 DEF ArraysInv, SortedInv, SortSafe
<1>. QED
  BY <1>1, <1>2 DEF SortSafe

\* array_sort, a heap sort that checks no index (baselib.cpp:822-907), stays
\* inside the array and loses no element whatever its comparison answers, and
\* sorts when that is an order; and the elements fit the memory of the vector
\* (utils.h), for arrays of every length.
THEOREM ArraysAreSorted == ArraysSpec => []SortSorts
  BY ArraysInvInit, ArraysInvNext, ArraysInvImplies, PTL DEF ArraysSpec

\* An array holds elements, and a call of one of its functions is one the code
\* can be in.
THEOREM ArraysTypes == ArraysSpec => []ArraysTypeOK
  BY ArraysInvInit, ArraysInvNext, ArraysInvImplies, PTL DEF ArraysSpec

----------------------------------------------------------------------------
(* Threads: the frames on the stack of a VM.                               *)

Datum == Arg \cup Value \cup Thread \cup {RootTable, OT_NULL}
Slots == Datum \cup {FunctionObject}
Trouble == Datum \cup {Refused}

Frame ==
    [kind : {"script", "native"}, base : Nat, top : Nat, root : BOOLEAN, arg : Datum, result : Datum]

Machine ==
    [stack : Seq(Slots), base : Nat, calls : Seq(Frame), susp : BOOLEAN, root : BOOLEAN, err : Trouble]

\* The base of the i-th frame; a frame keeps that of the one before it.
Base(m, i) == IF i = Len(m.calls) THEN m.base ELSE m.calls[i + 1].base

Height(f) == IF f.kind = "script" THEN 3 ELSE 1

\* The frame a call from outside made, on the function of the VM.
FirstFits(m) ==
    /\ m.calls[1].kind = "script" /\ m.calls[1].root = TRUE
    /\ m.calls[1].base = 0 /\ m.calls[1].top = 3 /\ Base(m, 1) = 1

\* A frame above another: a native function calls a function of the script
\* through Execute, and a script calls either kind.
NextFits(m, i) ==
    /\ m.calls[i - 1].kind = "native" =>
          /\ m.calls[i].kind = "script" /\ m.calls[i].root = TRUE
          /\ Base(m, i) = m.calls[i].base + 2 /\ m.calls[i].top = Base(m, i) + 2
    /\ m.calls[i - 1].kind = "script" =>
          /\ m.calls[i].root = FALSE
          /\ Base(m, i) = m.calls[i].base + 3 /\ m.calls[i].top = Base(m, i)

\* What the registers of a script function hold.
RegistersHold(m, i) ==
    m.calls[i].kind = "script" =>
        /\ Base(m, i) + 3 <= Len(m.stack)
        /\ m.stack[Base(m, i) + 1] = RootTable
        /\ m.stack[Base(m, i) + 2] = m.calls[i].arg
        /\ m.stack[Base(m, i) + 3] = m.calls[i].result

Frames(m) ==
    /\ m \in Machine /\ Len(m.calls) >= 1 /\ Len(m.stack) >= 1 /\ m.stack[1] = FunctionObject
    /\ FirstFits(m)
    /\ \A i \in 2 .. Len(m.calls) : NextFits(m, i)
    /\ \A i \in 1 .. Len(m.calls), j \in 1 .. Len(m.calls) :
          i < j => Base(m, i) + Height(m.calls[i]) <= Base(m, j)
    /\ \A i \in 1 .. Len(m.calls) : RegistersHold(m, i)

\* A function of the script is on top, with nothing above its registers.
Ready(m) == Frames(m) /\ m.calls[Len(m.calls)].kind = "script" /\ Len(m.stack) = m.base + 3

\* A native function is on top.
InNative(m) == Frames(m) /\ m.calls[Len(m.calls)].kind = "native" /\ Len(m.stack) >= m.base

IsIdle(m) == m \in Machine /\ m.calls = <<>> /\ m.stack = <<FunctionObject>> /\ m.base = 0 /\ m.susp = FALSE

RootsOf(calls) == {i \in DOMAIN calls : calls[i].root = TRUE}

LEMMA MachineFacts ==
    ASSUME NEW m \in Machine
    PROVE  /\ m.stack \in Seq(Slots) /\ Len(m.stack) \in Nat /\ m.base \in Nat
           /\ m.calls \in Seq(Frame) /\ Len(m.calls) \in Nat
           /\ \A i \in 1 .. Len(m.calls) : m.calls[i] \in Frame
           /\ \A i \in 1 .. Len(m.calls) :
                 Base(m, i) \in Nat /\ Height(m.calls[i]) \in {1, 3}
<1>1. /\ m.stack \in Seq(Slots) /\ m.base \in Nat /\ m.calls \in Seq(Frame)
  BY DEF Machine
<1>2. Len(m.stack) \in Nat /\ Len(m.calls) \in Nat /\ \A i \in 1 .. Len(m.calls) : m.calls[i] \in Frame
  BY <1>1
<1>3. ASSUME NEW i \in 1 .. Len(m.calls) PROVE Base(m, i) \in Nat
  <2>1. CASE i = Len(m.calls)
    BY <1>1, <2>1 DEF Base
  <2>2. CASE i # Len(m.calls)
    <3>1. i + 1 \in 1 .. Len(m.calls)
      BY <1>2, <2>2
    <3>2. m.calls[i + 1].base \in Nat
      BY <1>2, <3>1 DEF Frame
    <3>. QED
      BY <2>2, <3>2 DEF Base
  <2>. QED
    BY <2>1, <2>2
<1>. QED
  BY <1>1, <1>2, <1>3 DEF Height

\* A frame is added.
LEMMA FrameAdded ==
    ASSUME NEW m \in Machine, NEW e \in Machine, NEW f \in Frame, Frames(m),
           e.calls = Append(m.calls, f), f.base = m.base,
           Len(m.stack) <= Len(e.stack), \A k \in 1 .. Len(m.stack) : e.stack[k] = m.stack[k],
           m.base + Height(m.calls[Len(m.calls)]) <= e.base,
           NextFits(e, Len(m.calls) + 1), RegistersHold(e, Len(m.calls) + 1)
    PROVE  Frames(e)
<1>1. PICK n \in Nat : n = Len(m.calls) /\ n >= 1
  BY MachineFacts DEF Frames
<1>2. /\ Len(e.calls) = n + 1 /\ e.calls[n + 1] = f
      /\ \A i \in 1 .. n : e.calls[i] = m.calls[i]
  BY <1>1, MachineFacts, AppendProperties
<1>3. ASSUME NEW i \in 1 .. n PROVE Base(e, i) = Base(m, i)
  <2>1. CASE i = n
    BY <1>1, <1>2, <2>1 DEF Base
  <2>2. CASE i # n
    <3>1. i + 1 \in 1 .. n /\ i # n + 1
      BY <2>2
    <3>. QED
      BY <1>1, <1>2, <2>2, <3>1 DEF Base
  <2>. QED
    BY <2>1, <2>2
<1>4. Base(e, n + 1) = e.base
  BY <1>2 DEF Base
<1>5. 1 \in 1 .. Len(m.stack) /\ 1 \in 1 .. n /\ 1 \in 1 .. n + 1 /\ n \in 1 .. n /\ n + 1 \in 1 .. n + 1
  BY <1>1, MachineFacts DEF Frames
<1>6. Len(e.stack) >= 1 /\ e.stack[1] = FunctionObject /\ FirstFits(e)
  <2>1. Len(e.stack) >= 1 /\ e.stack[1] = FunctionObject
    BY <1>5, MachineFacts DEF Frames
  <2>2. e.calls[1] = m.calls[1] /\ Base(e, 1) = Base(m, 1)
    BY <1>2, <1>3, <1>5
  <2>. QED
    BY <2>1, <2>2 DEF FirstFits, Frames
<1>7. ASSUME NEW i \in 2 .. n + 1 PROVE NextFits(e, i)
  <2>1. CASE i = n + 1
    BY <1>1, <2>1
  <2>2. CASE i # n + 1
    <3>1. i \in 2 .. n /\ i \in 1 .. n /\ i - 1 \in 1 .. n
      BY <2>2
    <3>2. e.calls[i] = m.calls[i] /\ e.calls[i - 1] = m.calls[i - 1] /\ Base(e, i) = Base(m, i)
      BY <1>2, <1>3, <3>1
    <3>3. NextFits(m, i)
      BY <1>1, <3>1 DEF Frames
    <3>. QED
      BY <3>2, <3>3 DEF NextFits
  <2>. QED
    BY <2>1, <2>2
<1>8. ASSUME NEW i \in 1 .. n + 1, NEW j \in 1 .. n + 1, i < j
      PROVE  Base(e, i) + Height(e.calls[i]) <= Base(e, j)
  <2>1. i \in 1 .. n
    BY <1>8
  <2>2. CASE j = n + 1
    <3>1. CASE i = n
      BY <1>1, <1>2, <1>3, <1>4, <2>1, <2>2, <3>1 DEF Base
    <3>2. CASE i # n
      <4>1. i < n
        BY <2>1, <3>2
      <4>2. Base(m, i) + Height(m.calls[i]) <= Base(m, n)
        BY <1>1, <1>5, <2>1, <4>1 DEF Frames
      <4>3. Base(m, n) = m.base /\ Base(m, n) + Height(m.calls[n]) <= e.base
        BY <1>1 DEF Base
      <4>4. e.calls[i] = m.calls[i] /\ Base(e, i) = Base(m, i) /\ Base(e, j) = e.base
        BY <1>2, <1>3, <1>4, <2>1, <2>2
      <4>5. /\ Base(m, i) \in Nat /\ Height(m.calls[i]) \in {1, 3} /\ Base(m, n) \in Nat
            /\ Height(m.calls[n]) \in {1, 3} /\ e.base \in Nat
        BY <1>1, <1>5, <2>1, MachineFacts
      <4>. QED
        BY <4>2, <4>3, <4>4, <4>5
    <3>. QED
      BY <3>1, <3>2
  <2>3. CASE j # n + 1
    <3>1. j \in 1 .. n
      BY <2>3
    <3>2. Base(m, i) + Height(m.calls[i]) <= Base(m, j)
      BY <1>1, <1>8, <2>1, <3>1 DEF Frames
    <3>. QED
      BY <1>2, <1>3, <2>1, <3>1, <3>2
  <2>. QED
    BY <2>2, <2>3
<1>9. ASSUME NEW i \in 1 .. n + 1 PROVE RegistersHold(e, i)
  <2>1. CASE i = n + 1
    BY <1>1, <2>1
  <2>2. CASE i # n + 1
    <3>1. i \in 1 .. n
      BY <2>2
    <3>2. e.calls[i] = m.calls[i] /\ Base(e, i) = Base(m, i) /\ Base(m, i) \in Nat
      BY <1>1, <1>2, <1>3, <3>1, MachineFacts
    <3>3. RegistersHold(m, i)
      BY <1>1, <3>1 DEF Frames
    <3>4. SUFFICES ASSUME m.calls[i].kind = "script"
                   PROVE  /\ Base(m, i) + 3 <= Len(e.stack)
                          /\ e.stack[Base(m, i) + 1] = m.stack[Base(m, i) + 1]
                          /\ e.stack[Base(m, i) + 2] = m.stack[Base(m, i) + 2]
                          /\ e.stack[Base(m, i) + 3] = m.stack[Base(m, i) + 3]
      BY <3>2, <3>3 DEF RegistersHold
    <3>5. Base(m, i) + 3 <= Len(m.stack)
      BY <3>3, <3>4 DEF RegistersHold
    <3>6. PICK b \in Nat, l \in Nat, u \in Nat : b = Base(m, i) /\ l = Len(m.stack) /\ u = Len(e.stack)
      BY <3>2, MachineFacts
    <3>7. b + 3 <= l /\ l <= u
      BY <3>5, <3>6
    <3>8. b + 1 \in 1 .. l /\ b + 2 \in 1 .. l /\ b + 3 \in 1 .. l /\ b + 3 <= u
      BY <3>7
    <3>. QED
      BY <3>6, <3>8
  <2>. QED
    BY <2>1, <2>2
<1>. QED
  <2>1. Len(e.calls) >= 1
    BY <1>1, <1>2
  <2>. QED
    BY <1>2, <1>6, <1>7, <1>8, <1>9, <2>1 DEF Frames

\* The topmost frame is removed.
LEMMA FrameRemoved ==
    ASSUME NEW m \in Machine, NEW e \in Machine, Frames(m), Len(m.calls) > 1,
           Len(e.calls) = Len(m.calls) - 1, \A i \in 1 .. Len(m.calls) - 1 : e.calls[i] = m.calls[i],
           e.base = m.calls[Len(m.calls)].base,
           Len(e.stack) <= Len(m.stack), \A k \in 1 .. Len(e.stack) : e.stack[k] = m.stack[k],
           e.base + (IF m.calls[Len(m.calls) - 1].kind = "script" THEN 3 ELSE 0) <= Len(e.stack)
    PROVE  Frames(e)
<1>1. PICK n \in Nat : n = Len(m.calls) - 1 /\ n >= 1 /\ n + 1 = Len(m.calls)
  BY MachineFacts
<1>2. Len(e.calls) = n /\ \A i \in 1 .. n : e.calls[i] = m.calls[i]
  BY <1>1
<1>3. ASSUME NEW i \in 1 .. n PROVE Base(e, i) = Base(m, i)
  <2>1. CASE i = n
    BY <1>1, <1>2, <2>1 DEF Base
  <2>2. CASE i # n
    <3>1. i + 1 \in 1 .. n /\ i # n + 1
      BY <2>2
    <3>. QED
      BY <1>1, <1>2, <2>2, <3>1 DEF Base
  <2>. QED
    BY <2>1, <2>2
<1>4. \A i \in 1 .. n : i \in 1 .. Len(m.calls)
  BY <1>1
<1>5. 1 \in 1 .. n /\ n \in 1 .. n
  BY <1>1
<1>6. Base(e, n) = e.base /\ Base(e, n) \in Nat /\ Base(e, 1) = 1
  <2>1. Base(m, 1) = 1
    BY DEF Frames, FirstFits
  <2>. QED
    BY <1>2, <1>3, <1>5, <2>1, MachineFacts DEF Base
<1>7. ASSUME NEW i \in 1 .. n, NEW j \in 1 .. n, i < j
      PROVE  Base(e, i) + Height(e.calls[i]) <= Base(e, j)
  BY <1>2, <1>3, <1>4, <1>7 DEF Frames
<1>8. ASSUME NEW i \in 1 .. n, e.calls[i].kind = "script" PROVE Base(e, i) + 3 <= Len(e.stack)
  <2>1. Height(e.calls[i]) = 3 /\ Base(e, i) \in Nat /\ Len(e.stack) \in Nat
    BY <1>2, <1>8, MachineFacts DEF Height
  <2>2. CASE i = n
    <3>1. m.calls[n].kind = "script" /\ n = Len(m.calls) - 1
      BY <1>1, <1>2, <1>8, <2>2
    <3>. QED
      BY <1>6, <2>2, <3>1
  <2>3. CASE i # n
    <3>1. i < n
      BY <2>3
    <3>2. Base(e, i) + 3 <= e.base
      BY <1>5, <1>6, <1>7, <2>1, <3>1
    <3>3. e.base <= Len(e.stack)
      BY SMTT(30), <1>6, <2>1
    <3>. QED
      BY <1>6, <2>1, <3>2, <3>3
  <2>. QED
    BY <2>2, <2>3
<1>9. Len(e.stack) >= 1 /\ e.stack[1] = FunctionObject /\ FirstFits(e)
  <2>1. e.calls[1] = m.calls[1] /\ e.calls[1].kind = "script" /\ Base(e, 1) = Base(m, 1)
    BY <1>2, <1>3, <1>5 DEF Frames, FirstFits
  <2>2. 1 + 3 <= Len(e.stack) /\ Len(e.stack) \in Nat
    BY <1>5, <1>6, <1>8, <2>1, MachineFacts
  <2>3. Len(e.stack) >= 1 /\ 1 \in 1 .. Len(e.stack)
    BY <2>2
  <2>. QED
    BY <2>1, <2>3 DEF FirstFits, Frames
<1>10. ASSUME NEW i \in 2 .. n PROVE NextFits(e, i)
  <2>1. i \in 2 .. Len(m.calls) /\ i \in 1 .. n /\ i - 1 \in 1 .. n
    BY <1>1
  <2>2. e.calls[i] = m.calls[i] /\ e.calls[i - 1] = m.calls[i - 1] /\ Base(e, i) = Base(m, i)
    BY <1>2, <1>3, <2>1
  <2>3. NextFits(m, i)
    BY <2>1 DEF Frames
  <2>. QED
    BY <2>2, <2>3 DEF NextFits
<1>11. ASSUME NEW i \in 1 .. n PROVE RegistersHold(e, i)
  <2>1. SUFFICES ASSUME e.calls[i].kind = "script" PROVE RegistersHold(e, i)
    BY DEF RegistersHold
  <2>2. RegistersHold(m, i)
    BY <1>4 DEF Frames
  <2>3. PICK b \in Nat, l \in Nat : b = Base(e, i) /\ l = Len(e.stack) /\ b + 3 <= l
    BY <1>2, <1>8, <2>1, MachineFacts
  <2>4. /\ e.stack[b + 1] = m.stack[b + 1] /\ e.stack[b + 2] = m.stack[b + 2]
        /\ e.stack[b + 3] = m.stack[b + 3]
    <3>1. b + 1 \in 1 .. l /\ b + 2 \in 1 .. l /\ b + 3 \in 1 .. l
      <4>1. b \in Nat /\ l \in Nat /\ b + 3 <= l
        BY <2>3
      <4>. QED
        BY ONLY <4>1
    <3>2. \A k \in 1 .. l : e.stack[k] = m.stack[k]
      BY <2>3
    <3>. QED
      BY <3>1, <3>2
  <2>. QED
    BY <1>2, <1>3, <2>1, <2>2, <2>3, <2>4 DEF RegistersHold
<1>. QED
  BY <1>1, <1>2, <1>7, <1>9, <1>10, <1>11 DEF Frames

----------------------------------------------------------------------------
(* Threads: what the operations on a VM do.                                *)

\* Only the stack differs.
KeepsFrames(e, m) ==
    /\ e \in Machine /\ e.base = m.base /\ e.calls = m.calls
    /\ e.susp = m.susp /\ e.root = m.root /\ e.err = m.err

LEMMA StackChanged ==
    ASSUME NEW m \in Machine, NEW s \in Seq(Slots)
    PROVE  [m EXCEPT !.stack = s].stack = s /\ KeepsFrames([m EXCEPT !.stack = s], m)
BY DEF Machine, KeepsFrames

LEMMA PushFacts ==
    ASSUME NEW m \in Machine, NEW x \in Slots
    PROVE  /\ KeepsFrames(Push(m, x), m) /\ Len(Push(m, x).stack) = Len(m.stack) + 1
           /\ Push(m, x).stack[Len(m.stack) + 1] = x
           /\ \A k \in 1 .. Len(m.stack) : Push(m, x).stack[k] = m.stack[k]
<1>1. m.stack \in Seq(Slots) /\ Append(m.stack, x) \in Seq(Slots)
  BY MachineFacts, AppendProperties
<1>2. Push(m, x).stack = Append(m.stack, x) /\ KeepsFrames(Push(m, x), m)
  BY <1>1, StackChanged DEF Push
<1>. QED
  BY <1>1, <1>2, AppendProperties

LEMMA StackPrefix ==
    ASSUME NEW S, NEW s \in Seq(S), NEW n \in 0 .. Len(s)
    PROVE  /\ SubSeq(s, 1, n) \in Seq(S) /\ Len(SubSeq(s, 1, n)) = n
           /\ \A k \in 1 .. n : SubSeq(s, 1, n)[k] = s[k]
<1>1. \A k \in 1 .. n : k \in 1 .. Len(s) /\ s[k] \in S
  OBVIOUS
<1>2. SubSeq(s, 1, n) \in Seq(S) /\ Len(SubSeq(s, 1, n)) = n
  BY <1>1, SubSeqProperties
<1>3. ASSUME NEW k \in 1 .. n PROVE SubSeq(s, 1, n)[k] = s[k]
  BY <1>1, SubSeqProperties
<1>. QED
  BY <1>2, <1>3

LEMMA PopFacts ==
    ASSUME NEW m \in Machine, NEW n \in 0 .. Len(m.stack)
    PROVE  /\ KeepsFrames(Pop(m, n), m) /\ Len(Pop(m, n).stack) = Len(m.stack) - n
           /\ \A k \in 1 .. Len(m.stack) - n : Pop(m, n).stack[k] = m.stack[k]
<1>1. m.stack \in Seq(Slots) /\ Len(m.stack) \in Nat
  BY MachineFacts
<1>2. /\ SubSeq(m.stack, 1, Len(m.stack) - n) \in Seq(Slots)
      /\ Len(SubSeq(m.stack, 1, Len(m.stack) - n)) = Len(m.stack) - n
      /\ \A k \in 1 .. Len(m.stack) - n : SubSeq(m.stack, 1, Len(m.stack) - n)[k] = m.stack[k]
  <2>1. Len(m.stack) - n \in 0 .. Len(m.stack)
    BY <1>1
  <2>. QED
    BY <1>1, <2>1, StackPrefix
<1>3. Pop(m, n).stack = SubSeq(m.stack, 1, Len(m.stack) - n) /\ KeepsFrames(Pop(m, n), m)
  BY <1>2, StackChanged DEF Pop
<1>. QED
  BY <1>2, <1>3

LEMMA StackResizedFacts ==
    ASSUME NEW s \in Seq(Slots), NEW n \in Nat
    PROVE  /\ StackResized(s, n) \in Seq(Slots) /\ Len(StackResized(s, n)) = n
           /\ \A k \in 1 .. n : StackResized(s, n)[k] = IF k <= Len(s) THEN s[k] ELSE OT_NULL
<1>1. \A k \in 1 .. n : (IF k <= Len(s) THEN s[k] ELSE OT_NULL) \in Slots
  <2>1. ASSUME NEW k \in 1 .. n PROVE (IF k <= Len(s) THEN s[k] ELSE OT_NULL) \in Slots
    <3>1. CASE k <= Len(s)
      <4>1. k \in 1 .. Len(s)
        BY <3>1
      <4>. QED
        BY <3>1, <4>1
    <3>2. CASE ~(k <= Len(s))
      BY <3>2 DEF Slots, Datum
    <3>. QED
      BY <3>1, <3>2
  <2>. QED
    BY <2>1
<1>. QED
  BY <1>1 DEF StackResized

LEMMA SetTopFacts ==
    ASSUME NEW m \in Machine, NEW n \in Nat
    PROVE  /\ KeepsFrames(SetTop(m, n), m) /\ Len(SetTop(m, n).stack) = m.base + n
           /\ \A k \in 1 .. m.base + n :
                 SetTop(m, n).stack[k] = IF k <= Len(m.stack) THEN m.stack[k] ELSE OT_NULL
<1>1. m.stack \in Seq(Slots) /\ m.base + n \in Nat
  BY MachineFacts
<1>2. SetTop(m, n).stack = StackResized(m.stack, m.base + n) /\ KeepsFrames(SetTop(m, n), m)
  BY <1>1, StackResizedFacts, StackChanged DEF SetTop
<1>3. PICK n1 \in Nat : n1 = m.base + n
  BY <1>1
<1>4. /\ Len(StackResized(m.stack, n1)) = n1
      /\ \A k \in 1 .. n1 :
            StackResized(m.stack, n1)[k] = IF k <= Len(m.stack) THEN m.stack[k] ELSE OT_NULL
  BY <1>1, StackResizedFacts
<1>. QED
  BY <1>2, <1>3, <1>4

\* The frame f is pushed.
Entered(m, s, b, f) == [m EXCEPT !.stack = s, !.base = b, !.calls = Append(@, f)]

LEMMA EnterFacts ==
    ASSUME NEW m \in Machine, NEW s \in Seq(Slots), NEW b \in Nat, NEW f \in Frame
    PROVE  /\ Entered(m, s, b, f) \in Machine /\ Entered(m, s, b, f).stack = s
           /\ Entered(m, s, b, f).base = b /\ Entered(m, s, b, f).calls = Append(m.calls, f)
           /\ Entered(m, s, b, f).susp = m.susp /\ Entered(m, s, b, f).root = m.root
           /\ Entered(m, s, b, f).err = m.err
<1>1. PICK c \in Seq(Frame) : c = Append(m.calls, f)
  BY MachineFacts, AppendProperties
<1>2. Entered(m, s, b, f) = [m EXCEPT !.stack = s, !.base = b, !.calls = c]
  BY <1>1 DEF Entered
<1>. QED
  BY <1>1, <1>2 DEF Machine

SameRun(e, m) == e.susp = m.susp /\ e.root = m.root /\ e.err = m.err

LEMMA LeaveFacts ==
    ASSUME NEW m \in Machine, NEW e, Len(m.calls) >= 1, e = LeaveFrame(m)
    PROVE  /\ e \in Machine /\ SameRun(e, m)
           /\ Len(e.calls) = Len(m.calls) - 1
           /\ \A i \in 1 .. Len(m.calls) - 1 : e.calls[i] = m.calls[i]
           /\ e.base = m.calls[Len(m.calls)].base /\ Len(e.stack) = m.calls[Len(m.calls)].top
           /\ \A k \in 1 .. Len(e.stack) :
                 e.stack[k] = IF k <= Len(m.stack) THEN m.stack[k] ELSE OT_NULL
<1>1. PICK f \in Frame : f = m.calls[Len(m.calls)]
  <2>1. Len(m.calls) \in 1 .. Len(m.calls)
    BY MachineFacts
  <2>. QED
    BY <2>1, MachineFacts
<1>2. f.base \in Nat /\ f.top \in Nat
  BY DEF Frame
<1>3. m.calls \in Seq(Frame) /\ m.calls # <<>>
  BY MachineFacts
<1>4. /\ Front(m.calls) \in Seq(Frame) /\ Len(Front(m.calls)) = Len(m.calls) - 1
      /\ \A i \in 1 .. Len(m.calls) - 1 : Front(m.calls)[i] = m.calls[i]
  <2>1. Len(m.calls) - 1 \in 0 .. Len(m.calls)
    BY <1>3, MachineFacts
  <2>. QED
    BY <1>3, <2>1, StackPrefix DEF Front
<1>5. PICK c \in Seq(Frame) : c = Front(m.calls)
  BY <1>4
<1>6. PICK s \in Seq(Slots) : s = StackResized(m.stack, f.top)
  BY <1>2, MachineFacts, StackResizedFacts
<1>7. e = [m EXCEPT !.calls = c, !.base = f.base, !.stack = s]
  BY <1>1, <1>5, <1>6 DEF LeaveFrame, Last
<1>8. /\ e \in Machine /\ e.calls = c /\ e.base = f.base /\ e.stack = s
      /\ e.susp = m.susp /\ e.root = m.root /\ e.err = m.err
  BY <1>2, <1>7 DEF Machine
<1>9. Len(s) = f.top /\ \A k \in 1 .. f.top : s[k] = IF k <= Len(m.stack) THEN m.stack[k] ELSE OT_NULL
  <2>1. m.stack \in Seq(Slots)
    BY MachineFacts
  <2>2. PICK n \in Nat : n = f.top
    BY <1>2
  <2>3. /\ Len(StackResized(m.stack, n)) = n
        /\ \A k \in 1 .. n :
              StackResized(m.stack, n)[k] = IF k <= Len(m.stack) THEN m.stack[k] ELSE OT_NULL
    BY <2>1, StackResizedFacts
  <2>. QED
    BY ONLY <2>1, <2>2, <2>3, <1>6
<1>. QED
  BY <1>1, <1>4, <1>5, <1>8, <1>9 DEF SameRun

\* The frames stay where they are.
LEMMA FrameKept ==
    ASSUME NEW m \in Machine, NEW e \in Machine, Frames(m),
           Len(e.calls) = Len(m.calls), \A i \in 1 .. Len(m.calls) - 1 : e.calls[i] = m.calls[i],
           e.calls[Len(m.calls)].kind = m.calls[Len(m.calls)].kind,
           e.calls[Len(m.calls)].base = m.calls[Len(m.calls)].base,
           e.calls[Len(m.calls)].top = m.calls[Len(m.calls)].top,
           e.calls[Len(m.calls)].root = m.calls[Len(m.calls)].root,
           e.base = m.base, m.base <= Len(e.stack), \A k \in 1 .. m.base : e.stack[k] = m.stack[k],
           RegistersHold(e, Len(m.calls))
    PROVE  Frames(e)
<1>1. PICK n \in Nat : n = Len(m.calls) /\ n >= 1
  BY MachineFacts DEF Frames
<1>2. ASSUME NEW i \in 1 .. n
      PROVE  /\ e.calls[i].kind = m.calls[i].kind /\ e.calls[i].base = m.calls[i].base
             /\ e.calls[i].top = m.calls[i].top /\ e.calls[i].root = m.calls[i].root
  <2>1. i = n \/ i \in 1 .. n - 1
    OBVIOUS
  <2>. QED
    BY <1>1, <2>1
<1>3. ASSUME NEW i \in 1 .. n PROVE Base(e, i) = Base(m, i) /\ Base(m, i) \in Nat
  <2>1. Base(m, i) \in Nat
    BY <1>1, MachineFacts
  <2>2. CASE i = n
    BY <1>1, <2>1, <2>2 DEF Base
  <2>3. CASE i # n
    <3>1. i + 1 \in 1 .. n
      BY <2>3
    <3>. QED
      BY <1>1, <1>2, <2>1, <2>3, <3>1 DEF Base
  <2>. QED
    BY <2>2, <2>3
<1>4. 1 \in 1 .. n /\ n \in 1 .. n /\ Base(m, n) = m.base /\ m.base \in Nat
  BY <1>1, MachineFacts DEF Base
<1>5. ASSUME NEW i \in 1 .. n, i # n PROVE Base(m, i) + Height(m.calls[i]) <= m.base
  <2>1. i < n
    BY <1>5
  <2>. QED
    BY <1>1, <1>4, <2>1 DEF Frames
<1>6. m.base >= 1
  <2>1. Base(m, 1) = 1
    BY DEF Frames, FirstFits
  <2>2. CASE n = 1
    BY <1>4, <2>1, <2>2
  <2>3. CASE n # 1
    <3>1. 1 + Height(m.calls[1]) <= m.base /\ Height(m.calls[1]) \in {1, 3}
      BY <1>1, <1>4, <1>5, <2>1, <2>3, MachineFacts
    <3>. QED
      BY <1>4, <3>1
  <2>. QED
    BY <2>2, <2>3
<1>7. Len(e.stack) >= 1 /\ e.stack[1] = FunctionObject
  <2>1. 1 \in 1 .. m.base /\ Len(e.stack) \in Nat
    BY <1>4, <1>6, MachineFacts
  <2>. QED
    BY <1>4, <1>6, <2>1 DEF Frames
<1>8. FirstFits(e)
  BY <1>2, <1>3, <1>4 DEF Frames, FirstFits
<1>9. ASSUME NEW i \in 2 .. n PROVE NextFits(e, i)
  <2>1. i \in 1 .. n /\ i - 1 \in 1 .. n
    OBVIOUS
  <2>2. NextFits(m, i)
    BY <1>1 DEF Frames
  <2>. QED
    BY <1>2, <1>3, <2>1, <2>2 DEF NextFits
<1>10. ASSUME NEW i \in 1 .. n, NEW j \in 1 .. n, i < j
       PROVE  Base(e, i) + Height(e.calls[i]) <= Base(e, j)
  <2>1. Base(m, i) + Height(m.calls[i]) <= Base(m, j)
    BY <1>1, <1>10 DEF Frames
  <2>2. Height(e.calls[i]) = Height(m.calls[i])
    BY <1>2 DEF Height
  <2>. QED
    BY <1>3, <2>1, <2>2
<1>11. ASSUME NEW i \in 1 .. n PROVE RegistersHold(e, i)
  <2>1. CASE i = n
    BY <1>1, <2>1
  <2>2. CASE i # n
    <3>1. SUFFICES ASSUME m.calls[i].kind = "script" PROVE RegistersHold(e, i)
      BY <1>2 DEF RegistersHold
    <3>2. e.calls[i] = m.calls[i] /\ i \in 1 .. n - 1
      BY <1>1, <2>2
    <3>3. PICK b \in Nat, u \in Nat, l \in Nat : b = Base(m, i) /\ u = m.base /\ l = Len(e.stack)
      BY <1>3, <1>4, MachineFacts
    <3>4. b + 3 <= u /\ u <= l
      BY <1>5, <2>2, <3>1, <3>3 DEF Height
    <3>5. b + 1 \in 1 .. u /\ b + 2 \in 1 .. u /\ b + 3 \in 1 .. u /\ b + 3 <= l
      BY <3>4
    <3>6. RegistersHold(m, i)
      BY <1>1 DEF Frames
    <3>. QED
      BY <1>3, <3>1, <3>2, <3>3, <3>5, <3>6 DEF RegistersHold
  <2>. QED
    BY <2>1, <2>2
<1>. QED
  BY <1>1, <1>7, <1>8, <1>9, <1>10, <1>11 DEF Frames

LEMMA SameRoots ==
    ASSUME NEW c \in Seq(Frame), NEW d \in Seq(Frame), Len(d) = Len(c),
           \A i \in 1 .. Len(c) : d[i].root = c[i].root
    PROVE  RootsOf(d) = RootsOf(c)
BY DEF RootsOf

LEMMA RootsFinite ==
    ASSUME NEW c \in Seq(Frame)
    PROVE  IsFiniteSet(RootsOf(c)) /\ Cardinality(RootsOf(c)) \in Nat
<1>1. RootsOf(c) \subseteq 1 .. Len(c) /\ Len(c) \in Nat
  BY DEF RootsOf
<1>2. IsFiniteSet(1 .. Len(c))
  BY <1>1, FS_Interval
<1>. QED
  BY <1>1, <1>2, FS_Subset, FS_CardinalityType

LEMMA RootsCounted ==
    ASSUME NEW c \in Seq(Frame), NEW d \in Seq(Frame), Len(d) = Len(c) + 1,
           \A i \in 1 .. Len(c) : d[i].root = c[i].root
    PROVE  /\ d[Len(d)].root = TRUE => Cardinality(RootsOf(d)) = Cardinality(RootsOf(c)) + 1
           /\ d[Len(d)].root = FALSE => RootsOf(d) = RootsOf(c)
<1>1. PICK n \in Nat : n = Len(c) /\ n + 1 = Len(d)
  OBVIOUS
<1>2. DOMAIN c = 1 .. n /\ DOMAIN d = 1 .. n + 1 /\ n + 1 \notin 1 .. n /\ n + 1 \in 1 .. n + 1
  BY <1>1
<1>3. \A i \in 1 .. n + 1 : i \in 1 .. n \/ i = n + 1
  OBVIOUS
<1>4. \A i \in 1 .. n : i \in 1 .. n + 1 /\ d[i].root = c[i].root
  BY <1>1
<1>5. CASE d[n + 1].root = TRUE
  <2>1. RootsOf(d) = RootsOf(c) \cup {n + 1} /\ n + 1 \notin RootsOf(c)
    BY <1>2, <1>3, <1>4, <1>5 DEF RootsOf
  <2>2. PICK S : S = RootsOf(c) /\ IsFiniteSet(S)
    BY RootsFinite
  <2>3. Cardinality(S \cup {n + 1}) = Cardinality(S) + 1
    BY <2>1, <2>2, FS_AddElement
  <2>4. Cardinality(RootsOf(d)) = Cardinality(RootsOf(c)) + 1
    BY <2>1, <2>2, <2>3
  <2>. QED
    BY <1>1, <1>5, <2>4
<1>6. CASE d[n + 1].root = FALSE
  <2>1. RootsOf(d) = RootsOf(c)
    BY <1>2, <1>3, <1>4, <1>6 DEF RootsOf
  <2>. QED
    BY <1>1, <1>6, <2>1
<1>. QED
  <2>1. d[n + 1] \in Frame
    BY <1>1
  <2>2. d[n + 1].root = TRUE \/ d[n + 1].root = FALSE
    BY <2>1 DEF Frame
  <2>. QED
    BY <1>1, <1>5, <1>6, <2>2

----------------------------------------------------------------------------
(* Threads: calls and returns keep the frames in place.                    *)

LEMMA AppendedChanged ==
    ASSUME NEW c \in Seq(Frame), NEW g \in Frame, NEW f \in Frame
    PROVE  [Append(c, g) EXCEPT ![Len(c) + 1] = f] = Append(c, f)
<1>1. /\ Append(c, g) \in Seq(Frame) /\ Len(Append(c, g)) = Len(c) + 1
      /\ Append(c, f) \in Seq(Frame) /\ Len(Append(c, f)) = Len(c) + 1
      /\ \A i \in 1 .. Len(c) : Append(c, g)[i] = c[i] /\ Append(c, f)[i] = c[i]
      /\ Append(c, f)[Len(c) + 1] = f
  BY AppendProperties
<1>2. PICK n \in Nat : n = Len(c)
  OBVIOUS
<1>3. PICK h : h = [Append(c, g) EXCEPT ![n + 1] = f]
  OBVIOUS
<1>4. DOMAIN Append(c, g) = 1 .. n + 1 /\ DOMAIN Append(c, f) = 1 .. n + 1
  BY <1>1, <1>2
<1>5. h = [i \in 1 .. n + 1 |-> IF i = n + 1 THEN f ELSE Append(c, g)[i]]
  BY <1>3, <1>4
<1>6. ASSUME NEW i \in 1 .. n + 1 PROVE h[i] = Append(c, f)[i]
  <2>1. i = n + 1 \/ i \in 1 .. n
    OBVIOUS
  <2>. QED
    BY <1>1, <1>2, <1>5, <2>1
<1>7. Append(c, f) = [i \in 1 .. n + 1 |-> Append(c, f)[i]]
  <2>1. Append(c, f) \in [1 .. n + 1 -> Frame]
    BY <1>1, <1>2, LenProperties
  <2>. QED
    BY <2>1
<1>. QED
  BY <1>2, <1>3, <1>5, <1>6, <1>7

\* CallNative: the native function gets its arguments on top of the frame.
LEMMA NativeEntered ==
    ASSUME NEW m \in Machine, NEW args \in Seq(Datum), NEW w, Ready(m), Len(args) >= 1,
           w = EnterNative(m, args)
    PROVE  /\ InNative(w) /\ w.base = Len(m.stack)
           /\ Len(w.stack) = Len(m.stack) + Len(args)
           /\ \A k \in 1 .. Len(args) : w.stack[Len(m.stack) + k] = args[k]
           /\ RootsOf(w.calls) = RootsOf(m.calls) /\ Len(w.calls) = Len(m.calls) + 1
           /\ w.susp = m.susp /\ w.root = m.root /\ w.err = m.err
<1>1. PICK n \in Nat, l \in Nat, a \in Nat : n = Len(m.calls) /\ n >= 1 /\ l = Len(m.stack)
                                           /\ a = Len(args) /\ l = m.base + 3
  BY MachineFacts DEF Ready, Frames
<1>2. PICK s \in Seq(Slots) :
         /\ s = m.stack \o args /\ Len(s) = l + a
         /\ \A k \in 1 .. l : s[k] = m.stack[k]
         /\ \A k \in 1 .. a : s[l + k] = args[k]
  <2>1. m.stack \in Seq(Slots) /\ args \in Seq(Slots)
    BY MachineFacts DEF Slots
  <2>2. /\ m.stack \o args \in Seq(Slots) /\ Len(m.stack \o args) = l + a
        /\ \A k \in 1 .. l + a : (m.stack \o args)[k] = IF k <= l THEN m.stack[k] ELSE args[k - l]
    <3>1. /\ m.stack \o args \in Seq(Slots) /\ Len(m.stack \o args) = Len(m.stack) + Len(args)
          /\ \A k \in 1 .. Len(m.stack) + Len(args) :
                (m.stack \o args)[k] = IF k <= Len(m.stack) THEN m.stack[k] ELSE args[k - Len(m.stack)]
      BY <2>1, ConcatProperties
    <3>. QED
      BY <1>1, <3>1
  <2>3. \A k \in 1 .. l : k \in 1 .. l + a /\ k <= l
    OBVIOUS
  <2>4. \A k \in 1 .. a : l + k \in 1 .. l + a /\ ~(l + k <= l) /\ (l + k) - l = k
    OBVIOUS
  <2>5. \A k \in 1 .. l : (m.stack \o args)[k] = m.stack[k]
    BY <2>2, <2>3
  <2>6. \A k \in 1 .. a : (m.stack \o args)[l + k] = args[k]
    BY <2>2, <2>4
  <2>. QED
    BY <2>2, <2>5, <2>6
<1>3. PICK p \in Machine : p = [m EXCEPT !.stack = s] /\ p.stack = s /\ KeepsFrames(p, m)
  BY StackChanged DEF KeepsFrames
<1>4. PICK g : g = [ kind |-> "native", base |-> m.base, top |-> Len(s),
                    root |-> FALSE, arg |-> OT_NULL, result |-> OT_NULL ]
  OBVIOUS
<1>5. PICK f : f = [g EXCEPT !.top = l]
  OBVIOUS
<1>60. PICK u \in Nat : u = l + a
  OBVIOUS
<1>6. PICK q : q = EnterFrame(p, "native", l, u, FALSE)
  OBVIOUS
<1>61. /\ g \in Frame /\ f \in Frame /\ f.kind = "native" /\ f.base = m.base /\ f.top = l
       /\ f.root = FALSE
  <2>1. OT_NULL \in Datum /\ m.base \in Nat /\ Len(s) \in Nat
    BY MachineFacts DEF Datum
  <2>2. g \in Frame /\ g.root = FALSE /\ g.kind = "native" /\ g.base = m.base
    BY <1>4, <2>1 DEF Frame
  <2>. QED
    BY <1>5, <2>2 DEF Frame
<1>7. /\ q \in Machine /\ q.stack = StackResized(s, u) /\ q.base = l
      /\ q.calls = Append(m.calls, g)
      /\ q.susp = m.susp /\ q.root = m.root /\ q.err = m.err
  <2>1. PICK z \in Seq(Slots) : z = StackResized(p.stack, u)
    BY <1>3, StackResizedFacts
  <2>2. q = Entered(p, z, l, g)
    BY <1>3, <1>4, <1>6, <2>1 DEF EnterFrame, Entered, KeepsFrames
  <2>3. /\ q \in Machine /\ q.stack = z /\ q.base = l /\ q.calls = Append(p.calls, g)
        /\ q.susp = p.susp /\ q.root = p.root /\ q.err = p.err
    <3>1. g \in Frame /\ l \in Nat
      BY <1>61
    <3>2. /\ Entered(p, z, l, g) \in Machine /\ Entered(p, z, l, g).stack = z
          /\ Entered(p, z, l, g).base = l /\ Entered(p, z, l, g).calls = Append(p.calls, g)
          /\ Entered(p, z, l, g).susp = p.susp /\ Entered(p, z, l, g).root = p.root
          /\ Entered(p, z, l, g).err = p.err
      BY <3>1, EnterFacts
    <3>. QED
      BY <2>2, <3>2
  <2>. QED
    BY <1>3, <2>1, <2>3 DEF KeepsFrames
<1>8. m.calls \in Seq(Frame) /\ Append(m.calls, f) \in Seq(Frame) /\ Append(m.calls, g)[n + 1] = g
  BY <1>1, <1>61, MachineFacts, AppendProperties
<1>9. w = [q EXCEPT !.calls[n + 1].top = l]
  BY <1>1, <1>2, <1>3, <1>6, <1>60 DEF EnterNative
<1>10. w = [q EXCEPT !.calls = Append(m.calls, f)]
  <2>2. w = [q EXCEPT !.calls = [q.calls EXCEPT ![n + 1] = [q.calls[n + 1] EXCEPT !.top = l]]]
    BY <1>9
  <2>3. w = [q EXCEPT !.calls = [Append(m.calls, g) EXCEPT ![n + 1] = f]]
    BY <1>5, <1>7, <1>8, <2>2
  <2>4. [Append(m.calls, g) EXCEPT ![Len(m.calls) + 1] = f] = Append(m.calls, f)
    BY <1>8, <1>61, AppendedChanged
  <2>. QED
    BY <1>1, <2>3, <2>4
<1>11. /\ w \in Machine /\ w.stack = q.stack /\ w.base = l /\ w.calls = Append(m.calls, f)
       /\ w.susp = m.susp /\ w.root = m.root /\ w.err = m.err
  BY <1>7, <1>8, <1>10 DEF Machine
<1>12. Len(w.stack) = l + a /\ \A k \in 1 .. l + a : w.stack[k] = s[k]
  <2>1. /\ Len(StackResized(s, u)) = u
        /\ \A k \in 1 .. u : StackResized(s, u)[k] = IF k <= Len(s) THEN s[k] ELSE OT_NULL
    BY StackResizedFacts
  <2>2. \A k \in 1 .. u : k <= Len(s)
    BY <1>2, <1>60
  <2>. QED
    BY <1>7, <1>11, <1>60, <2>1, <2>2
<1>13. /\ Len(w.calls) = n + 1 /\ w.calls[n + 1] = f
       /\ \A i \in 1 .. n : w.calls[i] = m.calls[i]
  BY <1>1, <1>8, <1>11, <1>61, AppendProperties
<1>14. Frames(w)
  <2>1. m.calls[n].kind = "script" /\ Height(m.calls[n]) = 3 /\ Base(w, n + 1) = l /\ n \in 1 .. n
    BY <1>1, <1>11, <1>13 DEF Ready, Height, Base
  <2>2. NextFits(w, n + 1)
    <3>1. /\ w.calls[n + 1].root = FALSE /\ w.calls[n + 1].base = m.base /\ w.calls[n + 1].top = l
          /\ w.calls[(n + 1) - 1] = m.calls[n] /\ m.base \in Nat
      BY <1>61, <1>13, <2>1, MachineFacts
    <3>. QED
      BY <1>1, <2>1, <3>1 DEF NextFits
  <2>3. RegistersHold(w, n + 1)
    BY <1>61, <1>13 DEF RegistersHold
  <2>4. \A k \in 1 .. l : w.stack[k] = m.stack[k]
    <3>1. \A k \in 1 .. l : k \in 1 .. l + a
      OBVIOUS
    <3>2. ASSUME NEW k \in 1 .. l
          PROVE  w.stack[k] = s[k] /\ s[k] = m.stack[k]
      BY ONLY <1>2, <1>12, <3>1, <3>2
    <3>. QED
      BY <3>2
  <2>5. m.base + Height(m.calls[Len(m.calls)]) <= w.base /\ Len(m.stack) <= Len(w.stack)
    BY <1>1, <1>11, <1>12, <2>1, MachineFacts
  <2>6. /\ \A k \in 1 .. Len(m.stack) : w.stack[k] = m.stack[k]
        /\ NextFits(w, Len(m.calls) + 1) /\ RegistersHold(w, Len(m.calls) + 1)
    BY <1>1, <2>2, <2>3, <2>4
  <2>. QED
    BY <1>11, <1>61, <2>5, <2>6, FrameAdded DEF Ready
<1>15. RootsOf(w.calls) = RootsOf(m.calls)
  <2>1. w.calls \in Seq(Frame) /\ w.calls[Len(w.calls)].root = FALSE
    BY <1>61, <1>11, <1>13, MachineFacts
  <2>. QED
    BY <1>1, <1>8, <1>13, <2>1, RootsCounted
<1>16. \A k \in 1 .. a : w.stack[l + k] = args[k]
  <2>1. \A k \in 1 .. a : l + k \in 1 .. l + a
    OBVIOUS
  <2>. QED
    BY <1>2, <1>12, <2>1
<1>. QED
  BY <1>1, <1>61, <1>11, <1>12, <1>13, <1>14, <1>15, <1>16 DEF InNative

LEMMA EnteredChanged ==
    ASSUME NEW p \in Machine, NEW z \in Seq(Slots), NEW b \in Nat, NEW g \in Frame, NEW f \in Frame,
           NEW q
    PROVE  q = Entered(p, z, b, g) =>
              /\ [q EXCEPT !.calls[Len(q.calls)] = f] = Entered(p, z, b, f)
              /\ q.calls[Len(q.calls)] = g
<1>1. PICK n \in Nat : n = Len(p.calls)
  BY MachineFacts
<1>2. Entered(p, z, b, g) \in Machine /\ Entered(p, z, b, g).calls = Append(p.calls, g)
  BY EnterFacts
<1>0. SUFFICES ASSUME q = Entered(p, z, b, g)
               PROVE  /\ [q EXCEPT !.calls[Len(q.calls)] = f] = Entered(p, z, b, f)
                      /\ q.calls[Len(q.calls)] = g
  OBVIOUS
<1>20. q \in Machine /\ q.calls = Append(p.calls, g)
  BY <1>0, <1>2
<1>3. /\ Len(q.calls) = n + 1 /\ q.calls[n + 1] = g
      /\ [Append(p.calls, g) EXCEPT ![n + 1] = f] = Append(p.calls, f)
  <2>1. p.calls \in Seq(Frame)
    BY MachineFacts
  <2>2. Len(Append(p.calls, g)) = Len(p.calls) + 1 /\ Append(p.calls, g)[Len(p.calls) + 1] = g
    BY <2>1, AppendProperties
  <2>3. [Append(p.calls, g) EXCEPT ![Len(p.calls) + 1] = f] = Append(p.calls, f)
    BY <2>1, AppendedChanged
  <2>. QED
    BY <1>1, <1>20, <2>2, <2>3
<1>4. [q EXCEPT !.calls[n + 1] = f] = [q EXCEPT !.calls = Append(p.calls, f)]
  BY <1>20, <1>3
<1>5. [q EXCEPT !.calls = Append(p.calls, f)] = Entered(p, z, b, f)
  BY <1>0 DEF Entered, Machine
<1>. QED
  BY <1>3, <1>4, <1>5

\* A frame of a script function that gets x.
IsCall(f, p, x) ==
    /\ f \in Frame /\ f.kind = "script" /\ f.base = p.base /\ f.arg = x /\ f.result = OT_NULL

\* StartCall pushed that frame.
Enters(p, x, f, e) ==
    /\ IsCall(f, p, x)
    /\ e = Entered(p, StackResized(p.stack, Len(p.stack) + 1), Len(p.stack) - 2, f)

\* this and the argument are on top.
Topped(p, x) ==
    Len(p.stack) >= 2 /\ p.stack[Len(p.stack) - 1] = RootTable /\ p.stack[Len(p.stack)] = x

OneMore(e, m, f) ==
    /\ e.calls = Append(m.calls, f) /\ Len(e.calls) = Len(m.calls) + 1
    /\ e.calls[Len(m.calls) + 1] = f
    /\ \A i \in 1 .. Len(m.calls) : e.calls[i] = m.calls[i]

LEMMA ScriptEntered ==
    ASSUME NEW p \in Machine, NEW x \in Datum, NEW f \in Frame, NEW e, Topped(p, x), Enters(p, x, f, e)
    PROVE  /\ e \in Machine /\ e.base = Len(p.stack) - 2 /\ Len(e.stack) = Len(p.stack) + 1
           /\ \A k \in 1 .. Len(p.stack) : e.stack[k] = p.stack[k]
           /\ OneMore(e, p, f) /\ SameRun(e, p) /\ RegistersHold(e, Len(p.calls) + 1)
<1>1. PICK l \in Nat, u \in Nat, b \in Nat : l = Len(p.stack) /\ u = l + 1 /\ b = l - 2 /\ l >= 2
  <2>1. Len(p.stack) \in Nat /\ Len(p.stack) + 1 \in Nat /\ Len(p.stack) - 2 \in Nat
    BY MachineFacts DEF Topped
  <2>. QED
    BY <2>1 DEF Topped
<1>2. p.stack \in Seq(Slots)
  BY MachineFacts
<1>3. PICK z \in Seq(Slots) :
         /\ z = StackResized(p.stack, u) /\ Len(z) = u
         /\ \A k \in 1 .. u : z[k] = IF k <= Len(p.stack) THEN p.stack[k] ELSE OT_NULL
  BY <1>2, StackResizedFacts
<1>4. e = Entered(p, z, b, f) /\ IsCall(f, p, x)
  BY <1>1, <1>3 DEF Enters
<1>5. /\ e \in Machine /\ e.stack = z /\ e.base = b /\ e.calls = Append(p.calls, f)
      /\ e.susp = p.susp /\ e.root = p.root /\ e.err = p.err
  <2>1. /\ Entered(p, z, b, f) \in Machine /\ Entered(p, z, b, f).stack = z
        /\ Entered(p, z, b, f).base = b /\ Entered(p, z, b, f).calls = Append(p.calls, f)
        /\ Entered(p, z, b, f).susp = p.susp /\ Entered(p, z, b, f).root = p.root
        /\ Entered(p, z, b, f).err = p.err
    BY EnterFacts
  <2>. QED
    BY <1>4, <2>1
<1>6. PICK n \in Nat : n = Len(p.calls)
  BY MachineFacts
<1>7. /\ Len(e.calls) = n + 1 /\ e.calls[n + 1] = f
      /\ \A i \in 1 .. n : e.calls[i] = p.calls[i]
  BY <1>5, <1>6, MachineFacts, AppendProperties
<1>8. \A k \in 1 .. l : e.stack[k] = p.stack[k]
  <2>1. \A k \in 1 .. l : k \in 1 .. u /\ k <= l
    BY <1>1
  <2>. QED
    BY <1>1, <1>3, <1>5, <2>1
<1>9. e.stack[l + 1] = OT_NULL
  <2>1. u \in 1 .. u /\ ~(u <= l)
    BY <1>1
  <2>2. z[u] = OT_NULL
    BY <1>1, <1>3, <2>1
  <2>. QED
    BY <1>1, <1>5, <2>2
<1>10. RegistersHold(e, n + 1)
  <2>1. /\ Base(e, n + 1) = b /\ b + 1 = l - 1 /\ b + 2 = l /\ b + 3 = l + 1
        /\ l - 1 \in 1 .. l /\ l \in 1 .. l /\ Len(e.stack) = l + 1
    BY <1>1, <1>3, <1>5, <1>7 DEF Base
  <2>2. e.stack[b + 1] = RootTable /\ e.stack[b + 2] = x /\ e.stack[b + 3] = OT_NULL /\ b + 3 <= Len(e.stack)
    <3>1. p.stack[l - 1] = RootTable /\ p.stack[l] = x
      BY <1>1 DEF Topped
    <3>2. e.stack[l - 1] = RootTable /\ e.stack[l] = x
      BY <1>8, <2>1, <3>1
    <3>. QED
      BY <1>9, <2>1, <3>2
  <2>. QED
    BY <1>4, <1>7, <2>1, <2>2 DEF RegistersHold, IsCall
<1>. QED
  BY <1>1, <1>3, <1>5, <1>6, <1>7, <1>8, <1>10 DEF OneMore, SameRun

\* What StartCall adds, with the argument as history; ScriptCall forgets what was pushed for the call.
Forgetting(q, t, x) == Called([q EXCEPT !.calls[Len(q.calls)].top = t], x)

LEMMA StartCallEnters ==
    ASSUME NEW p \in Machine, NEW x \in Datum, NEW t \in Nat
    PROVE  Topped(p, x) =>
              /\ \E f \in Frame :
                    /\ f.root = TRUE /\ f.top = Len(p.stack)
                    /\ Enters(p, x, f, Called(StartCall(p, TRUE), x))
              /\ \E f \in Frame :
                    /\ f.root = FALSE /\ f.top = t
                    /\ Enters(p, x, f, Forgetting(StartCall(p, FALSE), t, x))
<1>0. SUFFICES ASSUME Topped(p, x)
               PROVE  /\ \E f \in Frame :
                            /\ f.root = TRUE /\ f.top = Len(p.stack)
                            /\ Enters(p, x, f, Called(StartCall(p, TRUE), x))
                      /\ \E f \in Frame :
                            /\ f.root = FALSE /\ f.top = t
                            /\ Enters(p, x, f, Forgetting(StartCall(p, FALSE), t, x))
  OBVIOUS
<1>1. PICK l \in Nat, u \in Nat, b \in Nat : l = Len(p.stack) /\ u = l + 1 /\ b = l - 2
  <2>1. Len(p.stack) \in Nat /\ Len(p.stack) + 1 \in Nat /\ Len(p.stack) - 2 \in Nat
    BY <1>0, MachineFacts DEF Topped
  <2>. QED
    BY <1>0, <2>1 DEF Topped
<1>2. PICK z \in Seq(Slots) : z = StackResized(p.stack, u)
  BY MachineFacts, StackResizedFacts
<1>3. OT_NULL \in Datum /\ p.base \in Nat
  BY MachineFacts DEF Datum
<1>4. \E f \in Frame :
         /\ IsCall(f, p, x) /\ f.root = TRUE /\ f.top = l
         /\ Called(StartCall(p, TRUE), x) = Entered(p, z, b, f)
  <2>1. PICK g : g = [ kind |-> "script", base |-> p.base, top |-> l,
                       root |-> TRUE, arg |-> OT_NULL, result |-> OT_NULL ]
    OBVIOUS
  <2>2. PICK f : f = [g EXCEPT !.arg = x]
    OBVIOUS
  <2>3. g \in Frame
    BY <1>3, <2>1 DEF Frame
  <2>4. f \in Frame /\ IsCall(f, p, x) /\ f.root = TRUE /\ f.top = l
    BY <2>1, <2>2, <2>3 DEF Frame, IsCall
  <2>5. PICK q : q = Entered(p, z, b, g)
    OBVIOUS
  <2>6. StartCall(p, TRUE) = q
    BY <1>1, <1>2, <2>1, <2>5 DEF StartCall, EnterFrame, Entered
  <2>7. [q EXCEPT !.calls[Len(q.calls)] = f] = Entered(p, z, b, f) /\ q.calls[Len(q.calls)] = g
    BY <2>3, <2>4, <2>5, EnteredChanged
  <2>8. Called(q, x) = [q EXCEPT !.calls[Len(q.calls)] = f]
    BY <2>2, <2>7 DEF Called
  <2>. QED
    BY <2>4, <2>6, <2>7, <2>8
<1>5. \E f \in Frame :
         /\ IsCall(f, p, x) /\ f.root = FALSE /\ f.top = t
         /\ Forgetting(StartCall(p, FALSE), t, x) = Entered(p, z, b, f)
  <2>1. PICK g : g = [ kind |-> "script", base |-> p.base, top |-> l,
                       root |-> FALSE, arg |-> OT_NULL, result |-> OT_NULL ]
    OBVIOUS
  <2>2. PICK h : h = [g EXCEPT !.top = t]
    OBVIOUS
  <2>3. PICK f : f = [h EXCEPT !.arg = x]
    OBVIOUS
  <2>4. g \in Frame
    BY <1>3, <2>1 DEF Frame
  <2>5. h \in Frame /\ h.top = t /\ h.root = FALSE /\ h.kind = "script" /\ h.base = p.base /\ h.result = OT_NULL
    BY <2>1, <2>2, <2>4 DEF Frame
  <2>6. f \in Frame /\ IsCall(f, p, x) /\ f.root = FALSE /\ f.top = t
    BY <2>3, <2>5 DEF Frame, IsCall
  <2>7. PICK q : q = Entered(p, z, b, g)
    OBVIOUS
  <2>8. PICK v : v = Entered(p, z, b, h)
    OBVIOUS
  <2>9. StartCall(p, FALSE) = q
    BY <1>1, <1>2, <2>1, <2>7 DEF StartCall, EnterFrame, Entered
  <2>10. [q EXCEPT !.calls[Len(q.calls)] = h] = v /\ q.calls[Len(q.calls)] = g
    BY <2>4, <2>5, <2>7, <2>8, EnteredChanged
  <2>11. [v EXCEPT !.calls[Len(v.calls)] = f] = Entered(p, z, b, f) /\ v.calls[Len(v.calls)] = h
    BY <2>5, <2>6, <2>8, EnteredChanged
  <2>12. [q EXCEPT !.calls[Len(q.calls)].top = t] = v
    BY <2>2, <2>10
  <2>13. Called(v, x) = [v EXCEPT !.calls[Len(v.calls)] = f]
    BY <2>3, <2>11 DEF Called
  <2>. QED
    BY <2>6, <2>9, <2>11, <2>12, <2>13 DEF Forgetting
<1>. QED
  BY <1>1, <1>2, <1>4, <1>5 DEF Enters

\* p is m with something on top.
Above(p, m) ==
    /\ KeepsFrames(p, m) /\ Len(m.stack) <= Len(p.stack) - 2
    /\ \A k \in 1 .. Len(m.stack) : p.stack[k] = m.stack[k]

\* A call by a script, or by a native function through Execute.
CalledBy(m, p, f) ==
    /\ m.calls[Len(m.calls)].kind = "script" =>
          f.root = FALSE /\ Len(p.stack) = m.base + 5 /\ f.top = m.base + 3
    /\ m.calls[Len(m.calls)].kind = "native" =>
          f.root = TRUE /\ Len(p.stack) = m.base + 4 /\ f.top = m.base + 4

LEMMA CallFits ==
    ASSUME NEW m \in Machine, NEW p \in Machine, NEW x \in Datum, NEW f \in Frame, NEW e,
           Frames(m), Above(p, m), Topped(p, x), Enters(p, x, f, e), CalledBy(m, p, f)
    PROVE  Ready(e) /\ SameRun(e, m) /\ OneMore(e, m, f)
<1>1. PICK n \in Nat, b \in Nat, l \in Nat, o \in Nat :
         n = Len(m.calls) /\ n >= 1 /\ b = m.base /\ l = Len(p.stack) /\ o = Len(m.stack) /\ o >= 1
  BY MachineFacts DEF Frames
<1>2. p.calls = m.calls /\ p.base = b /\ SameRun(p, m) /\ o <= l - 2
  BY <1>1 DEF Above, KeepsFrames, SameRun
<1>3. /\ e \in Machine /\ e.base = l - 2 /\ Len(e.stack) = l + 1
      /\ \A k \in 1 .. l : e.stack[k] = p.stack[k]
      /\ OneMore(e, p, f) /\ SameRun(e, p) /\ RegistersHold(e, Len(p.calls) + 1)
  <2>1. /\ e \in Machine /\ e.base = Len(p.stack) - 2 /\ Len(e.stack) = Len(p.stack) + 1
        /\ \A k \in 1 .. Len(p.stack) : e.stack[k] = p.stack[k]
        /\ OneMore(e, p, f) /\ SameRun(e, p) /\ RegistersHold(e, Len(p.calls) + 1)
    BY ScriptEntered
  <2>. QED
    BY <1>1, <2>1
<1>4. OneMore(e, m, f) /\ SameRun(e, m) /\ RegistersHold(e, n + 1)
  BY <1>1, <1>2, <1>3 DEF OneMore, SameRun
<1>5. \A k \in 1 .. o : e.stack[k] = m.stack[k]
  <2>1. \A k \in 1 .. o : k \in 1 .. l /\ p.stack[k] = m.stack[k]
    BY <1>1, <1>2 DEF Above
  <2>. QED
    BY <1>3, <2>1
<1>6. /\ f.base = b /\ f.kind = "script" /\ Base(e, n + 1) = l - 2 /\ (n + 1) - 1 = n
      /\ n \in 1 .. n /\ e.calls[n] = m.calls[n] /\ e.calls[n + 1] = f /\ m.calls[n] \in Frame
  <2>1. f.base = b /\ f.kind = "script"
    BY <1>2 DEF Enters, IsCall
  <2>2. n \in 1 .. n /\ (n + 1) - 1 = n
    BY <1>1
  <2>3. e.calls[n] = m.calls[n] /\ e.calls[n + 1] = f /\ Len(e.calls) = n + 1
    BY <1>1, <1>4, <2>2 DEF OneMore
  <2>. QED
    BY <1>1, <1>3, <2>1, <2>2, <2>3, MachineFacts DEF Base
<1>7. NextFits(e, n + 1) /\ b + Height(m.calls[n]) <= l - 2
  <2>1. CASE m.calls[n].kind = "script"
    <3>1. f.root = FALSE /\ l = b + 5 /\ f.top = b + 3
      BY <1>1, <2>1 DEF CalledBy
    <3>. QED
      BY <1>6, <2>1, <3>1 DEF NextFits, Height
  <2>2. CASE m.calls[n].kind = "native"
    <3>1. f.root = TRUE /\ l = b + 4 /\ f.top = b + 4
      BY <1>1, <2>2 DEF CalledBy
    <3>. QED
      BY <1>6, <2>2, <3>1 DEF NextFits, Height
  <2>. QED
    BY <1>6, <2>1, <2>2 DEF Frame
<1>8. Frames(e)
  <2>1. e.calls = Append(m.calls, f) /\ f.base = m.base
    BY <1>1, <1>4, <1>6 DEF OneMore
  <2>2. Len(m.stack) <= Len(e.stack) /\ m.base + Height(m.calls[Len(m.calls)]) <= e.base
    BY <1>1, <1>2, <1>3, <1>7
  <2>3. /\ \A k \in 1 .. Len(m.stack) : e.stack[k] = m.stack[k]
        /\ NextFits(e, Len(m.calls) + 1) /\ RegistersHold(e, Len(m.calls) + 1)
    BY <1>1, <1>4, <1>5, <1>7
  <2>. QED
    BY <1>3, <2>1, <2>2, <2>3, FrameAdded
<1>9. Ready(e)
  <2>1. Len(e.stack) = e.base + 3
    BY <1>3
  <2>2. e.calls[Len(e.calls)].kind = "script"
    BY <1>1, <1>4, <1>6 DEF OneMore
  <2>. QED
    BY <1>8, <2>1, <2>2 DEF Ready
<1>. QED
  BY <1>4, <1>9

LEMMA RootsOfMore ==
    ASSUME NEW m \in Machine, NEW e \in Machine, NEW f \in Frame, OneMore(e, m, f)
    PROVE  /\ f.root = FALSE => RootsOf(e.calls) = RootsOf(m.calls)
           /\ f.root = TRUE => Cardinality(RootsOf(e.calls)) = Cardinality(RootsOf(m.calls)) + 1
<1>1. /\ m.calls \in Seq(Frame) /\ e.calls \in Seq(Frame) /\ Len(e.calls) = Len(m.calls) + 1
      /\ e.calls[Len(e.calls)] = f /\ \A i \in 1 .. Len(m.calls) : e.calls[i].root = m.calls[i].root
  BY MachineFacts DEF OneMore
<1>2. /\ e.calls[Len(e.calls)].root = TRUE =>
            Cardinality(RootsOf(e.calls)) = Cardinality(RootsOf(m.calls)) + 1
      /\ e.calls[Len(e.calls)].root = FALSE => RootsOf(e.calls) = RootsOf(m.calls)
  BY <1>1, RootsCounted
<1>. QED
  BY <1>1, <1>2

\* this and an argument are pushed.
LEMMA ArgumentsPushed ==
    ASSUME NEW m \in Machine, NEW x \in Datum
    PROVE  /\ Push(Push(m, RootTable), x) \in Machine
           /\ Above(Push(Push(m, RootTable), x), m) /\ Topped(Push(Push(m, RootTable), x), x)
           /\ Len(Push(Push(m, RootTable), x).stack) = Len(m.stack) + 2
<1>1. RootTable \in Slots /\ x \in Slots
  BY DEF Slots, Datum
<1>2. PICK q, p : q = Push(m, RootTable) /\ p = Push(q, x)
  OBVIOUS
<1>3. /\ KeepsFrames(q, m) /\ Len(q.stack) = Len(m.stack) + 1
      /\ q.stack[Len(m.stack) + 1] = RootTable
      /\ \A k \in 1 .. Len(m.stack) : q.stack[k] = m.stack[k]
  BY <1>1, <1>2, PushFacts
<1>4. q \in Machine
  BY <1>3 DEF KeepsFrames
<1>5. /\ KeepsFrames(p, q) /\ Len(p.stack) = Len(q.stack) + 1
      /\ p.stack[Len(q.stack) + 1] = x
      /\ \A k \in 1 .. Len(q.stack) : p.stack[k] = q.stack[k]
  BY <1>1, <1>2, <1>4, PushFacts
<1>6. PICK l \in Nat : l = Len(m.stack)
  BY MachineFacts
<1>7. /\ (l + 1) + 1 = l + 2 /\ l + 1 \in 1 .. l + 1 /\ \A k \in 1 .. l : k \in 1 .. l + 1
      /\ l <= (l + 2) - 2 /\ (l + 2) - 1 = l + 1 /\ l + 2 >= 2
  OBVIOUS
<1>8. p.stack[l + 1] = q.stack[l + 1] /\ \A k \in 1 .. l : p.stack[k] = q.stack[k]
  BY <1>3, <1>5, <1>6, <1>7
<1>9. p \in Machine /\ KeepsFrames(p, m) /\ Len(p.stack) = l + 2
  BY <1>3, <1>5, <1>6, <1>7 DEF KeepsFrames
<1>10. Above(p, m)
  BY <1>3, <1>6, <1>7, <1>8, <1>9 DEF Above
<1>11. Topped(p, x)
  BY <1>3, <1>5, <1>6, <1>7, <1>8, <1>9 DEF Topped
<1>. QED
  BY <1>2, <1>6, <1>9, <1>10, <1>11

\* A function of the script calls another.
ScriptCallOf(m, x) == Forgetting(StartCall(Push(Push(m, RootTable), x), FALSE), Len(m.stack), x)

LEMMA ScriptCalled ==
    ASSUME NEW m \in Machine, NEW x \in Datum, NEW e, Ready(m), e = ScriptCallOf(m, x)
    PROVE  Ready(e) /\ SameRun(e, m) /\ RootsOf(e.calls) = RootsOf(m.calls)
<1>. PICK p : p = Push(Push(m, RootTable), x)
  OBVIOUS
<1>1. PICK l \in Nat : l = Len(m.stack) /\ l = m.base + 3
  BY MachineFacts DEF Ready
<1>2. p \in Machine /\ Above(p, m) /\ Topped(p, x) /\ Len(p.stack) = l + 2
  BY <1>1, ArgumentsPushed
<1>3. PICK f \in Frame :
         f.root = FALSE /\ f.top = l /\ Enters(p, x, f, Forgetting(StartCall(p, FALSE), l, x))
  BY <1>2, StartCallEnters
<1>4. CalledBy(m, p, f)
  <2>1. l + 2 = m.base + 5
    BY <1>1, MachineFacts
  <2>. QED
    BY <1>1, <1>2, <1>3, <2>1 DEF CalledBy, Ready
<1>5. Enters(p, x, f, e) /\ Frames(m)
  <2>1. e = Forgetting(StartCall(p, FALSE), Len(m.stack), x)
    BY Zenon DEF ScriptCallOf
  <2>. QED
    BY <1>1, <1>3, <2>1 DEF Ready
<1>6. Ready(e) /\ SameRun(e, m) /\ OneMore(e, m, f)
  BY <1>2, <1>4, <1>5, CallFits
<1>7. e \in Machine
  BY <1>6 DEF Ready, Frames
<1>8. RootsOf(e.calls) = RootsOf(m.calls)
  BY <1>3, <1>6, <1>7, RootsOfMore
<1>. QED
  BY <1>6, <1>8

\* A native function, with one value on the stack, calls a function.
NativeCallOf(m, x) == Called(StartCall(Push(Push(Push(m, FunctionObject), RootTable), x), TRUE), x)

LEMMA NativeCalled ==
    ASSUME NEW m \in Machine, NEW x \in Datum, NEW e, InNative(m), Len(m.stack) = m.base + 1,
           e = NativeCallOf(m, x)
    PROVE  /\ Ready(e) /\ SameRun(e, m)
           /\ Cardinality(RootsOf(e.calls)) = Cardinality(RootsOf(m.calls)) + 1
<1>1. PICK l \in Nat : l = Len(m.stack) /\ l = m.base + 1
  BY MachineFacts
<1>2. PICK q, p : q = Push(m, FunctionObject) /\ p = Push(Push(q, RootTable), x)
  OBVIOUS
<1>3. KeepsFrames(q, m) /\ Len(q.stack) = l + 1 /\ \A k \in 1 .. l : q.stack[k] = m.stack[k]
  <2>1. FunctionObject \in Slots
    BY DEF Slots
  <2>. QED
    BY <1>1, <1>2, <2>1, PushFacts
<1>4. q \in Machine
  BY <1>3 DEF KeepsFrames
<1>5. p \in Machine /\ Above(p, q) /\ Topped(p, x) /\ Len(p.stack) = l + 3
  <2>1. p \in Machine /\ Above(p, q) /\ Topped(p, x) /\ Len(p.stack) = Len(q.stack) + 2
    BY <1>2, <1>4, ArgumentsPushed
  <2>. QED
    BY <1>3, <2>1
<1>6. Above(p, m)
  <2>1. \A k \in 1 .. l : k \in 1 .. l + 1
    OBVIOUS
  <2>2. KeepsFrames(p, q) /\ \A k \in 1 .. l + 1 : p.stack[k] = q.stack[k]
    BY <1>3, <1>5 DEF Above
  <2>3. KeepsFrames(p, m) /\ \A k \in 1 .. l : p.stack[k] = m.stack[k]
    BY <1>3, <2>1, <2>2 DEF KeepsFrames
  <2>. QED
    BY <1>1, <1>5, <2>3 DEF Above
<1>7. PICK f \in Frame :
         f.root = TRUE /\ f.top = Len(p.stack) /\ Enters(p, x, f, Called(StartCall(p, TRUE), x))
  <2>1. 0 \in Nat
    OBVIOUS
  <2>. QED
    BY <1>5, <2>1, StartCallEnters
<1>8. CalledBy(m, p, f)
  <2>1. l + 3 = m.base + 4
    BY <1>1, MachineFacts
  <2>. QED
    BY <1>1, <1>5, <1>7, <2>1 DEF CalledBy, InNative
<1>9. Enters(p, x, f, e) /\ Frames(m)
  <2>1. e = Called(StartCall(p, TRUE), x)
    BY <1>2, Zenon DEF NativeCallOf
  <2>. QED
    BY <1>7, <2>1 DEF InNative
<1>10. Ready(e) /\ SameRun(e, m) /\ OneMore(e, m, f)
  BY <1>5, <1>6, <1>8, <1>9, CallFits
<1>11. e \in Machine
  BY <1>10 DEF Ready, Frames
<1>12. Cardinality(RootsOf(e.calls)) = Cardinality(RootsOf(m.calls)) + 1
  BY <1>7, <1>10, <1>11, RootsOfMore
<1>. QED
  BY <1>10, <1>12

\* A VM that is idle is called: lv_call from outside.
RootCalled(p, x) == Called(StartCall(p, TRUE), x)

LEMMA IdleCalled ==
    ASSUME NEW m \in Machine, NEW p \in Machine, NEW x \in Datum, NEW e, IsIdle(m), KeepsFrames(p, m),
           Topped(p, x), Len(p.stack) = 3, p.stack[1] = FunctionObject, e = RootCalled(p, x)
    PROVE  Ready(e) /\ SameRun(e, m) /\ Len(e.calls) = 1 /\ Cardinality(RootsOf(e.calls)) = 1
<1>1. m.calls = <<>> /\ m.base = 0 /\ p.calls = <<>> /\ p.base = 0 /\ SameRun(p, m)
  BY DEF IsIdle, KeepsFrames, SameRun
<1>2. PICK f \in Frame : f.root = TRUE /\ f.top = 3 /\ Enters(p, x, f, e)
  <2>1. 0 \in Nat
    OBVIOUS
  <2>2. PICK f \in Frame :
           f.root = TRUE /\ f.top = Len(p.stack) /\ Enters(p, x, f, Called(StartCall(p, TRUE), x))
    BY <2>1, StartCallEnters
  <2>. QED
    BY <2>2 DEF RootCalled
<1>3. /\ e \in Machine /\ e.base = 1 /\ Len(e.stack) = 4
      /\ \A k \in 1 .. 3 : e.stack[k] = p.stack[k]
      /\ OneMore(e, p, f) /\ SameRun(e, p) /\ RegistersHold(e, 1)
  <2>1. /\ e \in Machine /\ e.base = Len(p.stack) - 2 /\ Len(e.stack) = Len(p.stack) + 1
        /\ \A k \in 1 .. Len(p.stack) : e.stack[k] = p.stack[k]
        /\ OneMore(e, p, f) /\ SameRun(e, p) /\ RegistersHold(e, Len(p.calls) + 1)
    <3>1. Topped(p, x) /\ Enters(p, x, f, e) /\ p \in Machine /\ x \in Datum /\ f \in Frame
      BY <1>2
    <3>. QED
      BY ONLY <3>1, ScriptEntered
  <2>2. Len(p.calls) + 1 = 1
    BY <1>1
  <2>. QED
    BY <2>1, <2>2
<1>4. Len(e.calls) = 1 /\ e.calls[1] = f
  BY <1>1, <1>3 DEF OneMore
<1>5. f.kind = "script" /\ f.base = 0
  BY <1>1, <1>2 DEF Enters, IsCall
<1>6. Base(e, 1) = 1
  BY <1>3, <1>4 DEF Base
<1>7. Frames(e)
  <2>1. e.stack[1] = FunctionObject /\ Len(e.stack) >= 1 /\ Len(e.calls) >= 1
    BY <1>3, <1>4
  <2>2. FirstFits(e)
    BY <1>2, <1>4, <1>5, <1>6 DEF FirstFits
  <2>3. \A i \in 2 .. Len(e.calls) : NextFits(e, i)
    BY <1>4
  <2>4. \A i \in 1 .. Len(e.calls) : i = 1
    BY <1>4
  <2>. QED
    BY <1>3, <2>1, <2>2, <2>3, <2>4 DEF Frames
<1>8. Ready(e)
  BY <1>3, <1>4, <1>5, <1>7 DEF Ready
<1>9. Cardinality(RootsOf(e.calls)) = 1
  <2>1. RootsOf(e.calls) = {1}
    <3>1. e.calls \in Seq(Frame) /\ DOMAIN e.calls = {1}
      <4>1. e.calls \in Seq(Frame) /\ DOMAIN e.calls = 1 .. 1
        BY <1>3, <1>4, MachineFacts
      <4>. QED
        BY <4>1
    <3>. QED
      BY <1>2, <1>4, <3>1 DEF RootsOf
  <2>. QED
    BY <2>1, FS_Singleton
<1>. QED
  BY <1>1, <1>3, <1>4, <1>8, <1>9 DEF SameRun

\* A frame is left.
OneLess(e, m) ==
    /\ e \in Machine /\ SameRun(e, m) /\ Len(e.calls) = Len(m.calls) - 1
    /\ \A i \in 1 .. Len(m.calls) - 1 : e.calls[i] = m.calls[i]

LEMMA RootsOfLess ==
    ASSUME NEW m \in Machine, NEW e \in Machine, OneLess(e, m), Len(m.calls) >= 1
    PROVE  /\ m.calls[Len(m.calls)].root = FALSE => RootsOf(e.calls) = RootsOf(m.calls)
           /\ m.calls[Len(m.calls)].root = TRUE =>
                 Cardinality(RootsOf(m.calls)) = Cardinality(RootsOf(e.calls)) + 1
<1>1. PICK n \in Nat : n = Len(e.calls)
  BY MachineFacts
<1>2. /\ m.calls \in Seq(Frame) /\ e.calls \in Seq(Frame) /\ Len(m.calls) = n + 1
      /\ \A i \in 1 .. n : m.calls[i] = e.calls[i]
  BY <1>1, MachineFacts DEF OneLess
<1>3. /\ m.calls[Len(m.calls)].root = TRUE =>
            Cardinality(RootsOf(m.calls)) = Cardinality(RootsOf(e.calls)) + 1
      /\ m.calls[Len(m.calls)].root = FALSE => RootsOf(m.calls) = RootsOf(e.calls)
  <2>1. Len(m.calls) = Len(e.calls) + 1 /\ \A i \in 1 .. Len(e.calls) : m.calls[i].root = e.calls[i].root
    BY <1>1, <1>2
  <2>. QED
    BY <1>2, <2>1, RootsCounted
<1>. QED
  BY <1>3

\* A frame that is not the first is left, for the one below.
LEMMA FrameLeft ==
    ASSUME NEW m \in Machine, Frames(m), Len(m.calls) > 1, m.base <= Len(m.stack),
           m.calls[Len(m.calls)].kind = "script" => Len(m.stack) = m.base + 3
    PROVE  LET e == LeaveFrame(m)
               n == Len(m.calls)
           IN  /\ OneLess(e, m) /\ Frames(e) /\ e.base = m.calls[n].base /\ Len(e.stack) = m.calls[n].top
               /\ e.calls[Len(e.calls)] = m.calls[n - 1]
               /\ m.calls[n - 1].kind = "script" =>
                     m.calls[n].root = FALSE /\ Len(e.stack) = e.base + 3
               /\ m.calls[n - 1].kind = "native" =>
                     /\ m.calls[n].kind = "script" /\ m.calls[n].root = TRUE
                     /\ Len(e.stack) = e.base + 4
<1>1. PICK n \in Nat, b \in Nat, l \in Nat : n = Len(m.calls) /\ n > 1 /\ b = m.base /\ l = Len(m.stack)
  BY MachineFacts
<1>2. PICK e : e = LeaveFrame(m)
  OBVIOUS
<1>3. /\ e \in Machine /\ SameRun(e, m) /\ Len(e.calls) = n - 1
      /\ \A i \in 1 .. n - 1 : e.calls[i] = m.calls[i]
      /\ e.base = m.calls[n].base /\ Len(e.stack) = m.calls[n].top
      /\ \A k \in 1 .. Len(e.stack) : e.stack[k] = IF k <= l THEN m.stack[k] ELSE OT_NULL
  <2>1. Len(m.calls) >= 1
    BY <1>1
  <2>. QED
    BY <1>1, <1>2, <2>1, LeaveFacts
<1>4. n \in 2 .. Len(m.calls) /\ n \in 1 .. Len(m.calls) /\ n - 1 \in 1 .. Len(m.calls) /\ n - 1 \in 1 .. n - 1
  BY <1>1
<1>5. NextFits(m, n) /\ Base(m, n) = b /\ m.calls[n - 1] \in Frame /\ m.calls[n] \in Frame
  BY <1>1, <1>4, MachineFacts DEF Frames, Base
<1>6. m.calls[n].base \in Nat /\ m.calls[n].top \in Nat
  BY <1>5 DEF Frame
<1>7. /\ m.calls[n - 1].kind = "script" =>
            m.calls[n].root = FALSE /\ Len(e.stack) = e.base + 3 /\ Len(e.stack) = b
      /\ m.calls[n - 1].kind = "native" =>
            /\ m.calls[n].kind = "script" /\ m.calls[n].root = TRUE
            /\ Len(e.stack) = e.base + 4 /\ Len(e.stack) = b + 2
  <2>1. PICK u \in Nat, k \in Nat :
           /\ u = m.calls[n].base /\ k = m.calls[n].top /\ e.base = u /\ Len(e.stack) = k
    BY <1>3, <1>6
  <2>2. /\ m.calls[n - 1].kind = "script" => m.calls[n].root = FALSE /\ b = u + 3 /\ k = b
        /\ m.calls[n - 1].kind = "native" =>
              /\ m.calls[n].kind = "script" /\ m.calls[n].root = TRUE
              /\ b = u + 2 /\ k = b + 2
    BY <1>5, <2>1 DEF NextFits
  <2>3. b = u + 2 /\ k = b + 2 => k = u + 4
    OBVIOUS
  <2>. QED
    BY ONLY <2>1, <2>2, <2>3
<1>8. Len(e.stack) <= l /\ e.base + (IF m.calls[n - 1].kind = "script" THEN 3 ELSE 0) <= Len(e.stack)
  <2>1. CASE m.calls[n - 1].kind = "script"
    BY <1>1, <1>3, <1>6, <1>7, <2>1
  <2>2. CASE m.calls[n - 1].kind = "native"
    BY <1>1, <1>3, <1>6, <1>7, <2>2
  <2>. QED
    BY <1>5, <2>1, <2>2 DEF Frame
<1>9. \A k \in 1 .. Len(e.stack) : e.stack[k] = m.stack[k]
  <2>1. Len(e.stack) \in Nat
    BY <1>3, MachineFacts
  <2>2. \A k \in 1 .. Len(e.stack) : k <= l
    BY <1>8, <2>1
  <2>. QED
    BY <1>3, <2>2
<1>10. Frames(e)
  <2>1. /\ Len(m.calls) > 1 /\ Len(e.calls) = Len(m.calls) - 1
        /\ \A i \in 1 .. Len(m.calls) - 1 : e.calls[i] = m.calls[i]
        /\ e.base = m.calls[Len(m.calls)].base /\ Len(e.stack) <= Len(m.stack)
        /\ e.base + (IF m.calls[Len(m.calls) - 1].kind = "script" THEN 3 ELSE 0) <= Len(e.stack)
    BY <1>1, <1>3, <1>8
  <2>. QED
    BY <1>3, <1>9, <2>1, FrameRemoved
<1>11. OneLess(e, m) /\ e.calls[Len(e.calls)] = m.calls[n - 1]
  BY <1>1, <1>3, <1>4 DEF OneLess
<1>. QED
  BY <1>1, <1>2, <1>3, <1>7, <1>10, <1>11

\* A script function goes back to the one that called it.
LEMMA ScriptLeft ==
    ASSUME NEW m \in Machine, Ready(m), Len(m.calls) > 1, m.calls[Len(m.calls)].root = FALSE
    PROVE  /\ Ready(LeaveFrame(m)) /\ OneLess(LeaveFrame(m), m)
           /\ RootsOf(LeaveFrame(m).calls) = RootsOf(m.calls)
<1>0. PICK e : e = LeaveFrame(m)
  OBVIOUS
<1>1. PICK n \in Nat : e = LeaveFrame(m) /\ n = Len(m.calls) /\ n > 1
  BY <1>0, MachineFacts
<1>2. Frames(m) /\ m.base <= Len(m.stack) /\ m.calls[Len(m.calls)].kind = "script" /\ Len(m.stack) = m.base + 3
  BY MachineFacts DEF Ready
<1>3. /\ OneLess(e, m) /\ Frames(e) /\ e.calls[Len(e.calls)] = m.calls[n - 1]
      /\ m.calls[n - 1].kind = "script" => Len(e.stack) = e.base + 3
      /\ m.calls[n - 1].kind = "native" => m.calls[n].root = TRUE
  BY <1>1, <1>2, FrameLeft
<1>4. m.calls[n - 1].kind = "script"
  <2>1. m.calls[n - 1] \in Frame
    BY <1>1, MachineFacts
  <2>2. m.calls[n].root # TRUE
    BY <1>1
  <2>. QED
    BY <1>3, <2>1, <2>2 DEF Frame
<1>5. Ready(e) /\ e \in Machine
  BY <1>3, <1>4 DEF Ready, Frames
<1>6. RootsOf(e.calls) = RootsOf(m.calls)
  <2>1. Len(m.calls) >= 1
    BY <1>1
  <2>. QED
    BY <1>3, <1>5, <2>1, RootsOfLess
<1>. QED
  BY <1>1, <1>3, <1>5, <1>6

\* A native function returns or fails.
LEMMA NativeLeft ==
    ASSUME NEW m \in Machine, InNative(m)
    PROVE  /\ Ready(LeaveFrame(m)) /\ OneLess(LeaveFrame(m), m)
           /\ RootsOf(LeaveFrame(m).calls) = RootsOf(m.calls)
<1>0. PICK e : e = LeaveFrame(m)
  OBVIOUS
<1>1. PICK n \in Nat : e = LeaveFrame(m) /\ n = Len(m.calls) /\ n >= 1
  BY <1>0, MachineFacts DEF InNative, Frames
<1>2. Frames(m) /\ m.base <= Len(m.stack) /\ m.calls[n].kind = "native"
  BY <1>1, MachineFacts DEF InNative
<1>3. n > 1
  <2>1. m.calls[1].kind = "script"
    BY <1>2 DEF Frames, FirstFits
  <2>. QED
    BY <1>1, <1>2, <2>1
<1>4. /\ OneLess(e, m) /\ Frames(e) /\ e.calls[Len(e.calls)] = m.calls[n - 1]
      /\ m.calls[n - 1].kind = "script" => Len(e.stack) = e.base + 3 /\ m.calls[n].root = FALSE
      /\ m.calls[n - 1].kind = "native" => m.calls[n].kind = "script"
  BY <1>1, <1>2, <1>3, FrameLeft
<1>5. m.calls[n - 1].kind = "script"
  <2>1. m.calls[n - 1] \in Frame
    BY <1>1, <1>3, MachineFacts
  <2>. QED
    BY <1>2, <1>4, <2>1 DEF Frame
<1>6. Ready(e) /\ e \in Machine
  BY <1>4, <1>5 DEF Ready, Frames
<1>7. RootsOf(e.calls) = RootsOf(m.calls)
  BY <1>1, <1>4, <1>5, <1>6, RootsOfLess
<1>. QED
  BY <1>1, <1>4, <1>6, <1>7

\* An activation that a native function made ends.
LEMMA RootLeft ==
    ASSUME NEW m \in Machine, Ready(m), Len(m.calls) > 1, m.calls[Len(m.calls)].root = TRUE
    PROVE  /\ InNative(LeaveFrame(m)) /\ OneLess(LeaveFrame(m), m)
           /\ Len(LeaveFrame(m).stack) = LeaveFrame(m).base + 4
           /\ Cardinality(RootsOf(m.calls)) = Cardinality(RootsOf(LeaveFrame(m).calls)) + 1
<1>0. PICK e : e = LeaveFrame(m)
  OBVIOUS
<1>1. PICK n \in Nat : e = LeaveFrame(m) /\ n = Len(m.calls) /\ n > 1
  BY <1>0, MachineFacts
<1>2. Frames(m) /\ m.base <= Len(m.stack) /\ m.calls[Len(m.calls)].kind = "script" /\ Len(m.stack) = m.base + 3
  BY MachineFacts DEF Ready
<1>3. /\ OneLess(e, m) /\ Frames(e) /\ e.calls[Len(e.calls)] = m.calls[n - 1]
      /\ m.calls[n - 1].kind = "script" => m.calls[n].root = FALSE
      /\ m.calls[n - 1].kind = "native" => Len(e.stack) = e.base + 4
  BY <1>1, <1>2, FrameLeft
<1>4. m.calls[n - 1].kind = "native"
  <2>1. m.calls[n - 1] \in Frame
    BY <1>1, MachineFacts
  <2>2. m.calls[n].root # FALSE
    BY <1>1
  <2>. QED
    BY <1>3, <2>1, <2>2 DEF Frame
<1>5. e \in Machine /\ e.base \in Nat
  BY <1>3, MachineFacts DEF OneLess
<1>6. InNative(e) /\ Len(e.stack) = e.base + 4
  BY <1>3, <1>4, <1>5 DEF InNative
<1>7. Cardinality(RootsOf(m.calls)) = Cardinality(RootsOf(e.calls)) + 1
  <2>1. Len(m.calls) >= 1
    BY <1>1
  <2>. QED
    BY <1>3, <1>5, <2>1, RootsOfLess
<1>. QED
  BY <1>1, <1>3, <1>6, <1>7

\* The activation that was made from outside ends.
LEMMA LastLeft ==
    ASSUME NEW m \in Machine, Ready(m), Len(m.calls) = 1
    PROVE  LET e == LeaveFrame(m)
           IN  /\ e \in Machine /\ SameRun(e, m) /\ e.calls = <<>> /\ e.base = 0
               /\ Len(e.stack) = 3 /\ e.stack[1] = FunctionObject
<1>1. PICK e : e = LeaveFrame(m)
  OBVIOUS
<1>2. /\ e \in Machine /\ SameRun(e, m) /\ Len(e.calls) = 0
      /\ e.base = m.calls[1].base /\ Len(e.stack) = m.calls[1].top
      /\ \A k \in 1 .. Len(e.stack) :
            e.stack[k] = IF k <= Len(m.stack) THEN m.stack[k] ELSE OT_NULL
  <2>1. Len(m.calls) >= 1
    OBVIOUS
  <2>2. /\ e \in Machine /\ SameRun(e, m)
        /\ Len(e.calls) = Len(m.calls) - 1
        /\ e.base = m.calls[Len(m.calls)].base /\ Len(e.stack) = m.calls[Len(m.calls)].top
        /\ \A k \in 1 .. Len(e.stack) :
              e.stack[k] = IF k <= Len(m.stack) THEN m.stack[k] ELSE OT_NULL
    BY <1>1, <2>1, LeaveFacts
  <2>. QED
    BY <2>2
<1>3. m.calls[1].base = 0 /\ m.calls[1].top = 3 /\ m.stack[1] = FunctionObject /\ Len(m.stack) >= 1
  BY DEF Ready, Frames, FirstFits
<1>4. Len(e.stack) = 3 /\ e.base = 0
  BY <1>2, <1>3
<1>5. e.stack[1] = FunctionObject
  <2>1. 1 \in 1 .. Len(e.stack) /\ 1 <= Len(m.stack)
    BY <1>3, <1>4
  <2>. QED
    BY <1>2, <1>3, <2>1
<1>6. e.calls = <<>>
  BY <1>2, MachineFacts
<1>. QED
  BY <1>1, <1>2, <1>4, <1>5, <1>6

LEMMA OnStack ==
    /\ \A x \in Datum : x \in Slots
    /\ FunctionObject \in Slots
BY DEF Slots

LEMMA SameFrames ==
    ASSUME NEW m \in Machine, NEW e \in Machine, e.stack = m.stack, e.base = m.base, e.calls = m.calls
    PROVE  /\ Frames(m) => Frames(e)
           /\ Ready(m) => Ready(e)
           /\ InNative(m) => InNative(e)
<1>1. \A i \in 1 .. Len(m.calls) : Base(e, i) = Base(m, i)
  BY DEF Base
<1>2. Frames(m) => Frames(e)
  <2>1. SUFFICES ASSUME Frames(m) PROVE Frames(e)
    OBVIOUS
  <2>2. Len(m.calls) \in Nat /\ Len(m.calls) >= 1 /\ 1 \in 1 .. Len(m.calls)
    BY <2>1, MachineFacts DEF Frames
  <2>3. FirstFits(e)
    BY <1>1, <2>1, <2>2 DEF Frames, FirstFits
  <2>4. \A i \in 2 .. Len(m.calls) : NextFits(e, i)
    BY <1>1, <2>1, <2>2 DEF Frames, NextFits
  <2>5. \A i \in 1 .. Len(m.calls) : RegistersHold(e, i)
    BY <1>1, <2>1 DEF Frames, RegistersHold
  <2>6. \A i \in 1 .. Len(m.calls), j \in 1 .. Len(m.calls) :
           i < j => Base(e, i) + Height(e.calls[i]) <= Base(e, j)
    BY <1>1, <2>1 DEF Frames
  <2>. QED
    BY <2>1, <2>3, <2>4, <2>5, <2>6 DEF Frames
<1>. QED
  BY <1>2 DEF Ready, InNative

\* What is pushed and popped above a native function.
LEMMA NativeStays ==
    ASSUME NEW m \in Machine, NEW e \in Machine, InNative(m), KeepsFrames(e, m), m.base <= Len(e.stack),
           \A k \in 1 .. m.base : e.stack[k] = m.stack[k]
    PROVE  InNative(e)
<1>1. e.base = m.base /\ e.calls = m.calls
  BY DEF KeepsFrames
<1>2. Frames(m) /\ m.calls[Len(m.calls)].kind = "native"
  BY DEF InNative
<1>3. RegistersHold(e, Len(m.calls))
  BY <1>1, <1>2 DEF RegistersHold
<1>4. Frames(e)
  BY <1>1, <1>2, <1>3, FrameKept
<1>. QED
  BY <1>1, <1>2, <1>4, MachineFacts DEF InNative

LEMMA NativePops ==
    ASSUME NEW m \in Machine, NEW n \in Nat, InNative(m), m.base + n <= Len(m.stack)
    PROVE  InNative(Pop(m, n)) /\ KeepsFrames(Pop(m, n), m)
<1>1. PICK b \in Nat, l \in Nat : b = m.base /\ l = Len(m.stack) /\ b + n <= l
  BY MachineFacts
<1>2. n \in 0 .. l /\ b <= l - n /\ \A k \in 1 .. b : k \in 1 .. l - n
  BY <1>1
<1>3. PICK e : e = Pop(m, n)
  OBVIOUS
<1>4. KeepsFrames(e, m) /\ Len(e.stack) = l - n /\ \A k \in 1 .. l - n : e.stack[k] = m.stack[k]
  BY <1>1, <1>2, <1>3, PopFacts
<1>5. e \in Machine /\ m.base <= Len(e.stack) /\ \A k \in 1 .. m.base : e.stack[k] = m.stack[k]
  BY <1>1, <1>2, <1>4 DEF KeepsFrames
<1>. QED
  BY <1>3, <1>4, <1>5, NativeStays

LEMMA NativePushes ==
    ASSUME NEW m \in Machine, NEW x \in Datum, InNative(m)
    PROVE  /\ InNative(Push(m, x)) /\ KeepsFrames(Push(m, x), m) /\ GetUp(Push(m, x)) = x
<1>1. PICK b \in Nat, l \in Nat : b = m.base /\ l = Len(m.stack) /\ b <= l
  BY MachineFacts DEF InNative
<1>2. PICK e : e = Push(m, x)
  OBVIOUS
<1>3. KeepsFrames(e, m) /\ Len(e.stack) = l + 1 /\ e.stack[l + 1] = x /\ \A k \in 1 .. l : e.stack[k] = m.stack[k]
  BY <1>1, <1>2, OnStack, PushFacts
<1>4. b <= l + 1 /\ \A k \in 1 .. b : k \in 1 .. l
  BY <1>1
<1>5. e \in Machine /\ m.base <= Len(e.stack) /\ \A k \in 1 .. m.base : e.stack[k] = m.stack[k]
  BY <1>1, <1>3, <1>4 DEF KeepsFrames
<1>6. GetUp(e) = x
  BY <1>3 DEF GetUp, Last
<1>. QED
  BY <1>2, <1>3, <1>5, <1>6, NativeStays

\* The result register of the script on top is written.
GivenTo(e, m, x) ==
    LET n == Len(m.calls)
    IN  /\ e \in Machine /\ e.base = m.base /\ Len(e.stack) = Len(m.stack) /\ Len(e.calls) = n
        /\ \A k \in 1 .. m.base + 2 : e.stack[k] = m.stack[k]
        /\ e.stack[m.base + 3] = x
        /\ \A i \in 1 .. n - 1 : e.calls[i] = m.calls[i]
        /\ e.calls[n].kind = m.calls[n].kind /\ e.calls[n].base = m.calls[n].base
        /\ e.calls[n].top = m.calls[n].top /\ e.calls[n].root = m.calls[n].root
        /\ e.calls[n].arg = m.calls[n].arg /\ e.calls[n].result = x

LEMMA GivenFits ==
    ASSUME NEW m \in Machine, NEW e \in Machine, NEW x \in Datum, Ready(m), GivenTo(e, m, x)
    PROVE  Ready(e) /\ RootsOf(e.calls) = RootsOf(m.calls)
<1>1. PICK n \in Nat, b \in Nat, l \in Nat :
         n = Len(m.calls) /\ n >= 1 /\ b = m.base /\ l = Len(m.stack) /\ l = b + 3
  BY MachineFacts DEF Ready, Frames
<1>2. /\ e.base = b /\ Len(e.stack) = b + 3 /\ Len(e.calls) = n
      /\ \A k \in 1 .. b + 2 : e.stack[k] = m.stack[k]
      /\ e.stack[b + 3] = x
      /\ \A i \in 1 .. n - 1 : e.calls[i] = m.calls[i]
      /\ e.calls[n].kind = m.calls[n].kind /\ e.calls[n].base = m.calls[n].base
      /\ e.calls[n].top = m.calls[n].top /\ e.calls[n].root = m.calls[n].root
      /\ e.calls[n].arg = m.calls[n].arg /\ e.calls[n].result = x
  BY <1>1 DEF GivenTo
<1>3. Frames(m) /\ m.calls[n].kind = "script" /\ n \in 1 .. n
  BY <1>1 DEF Ready
<1>4. RegistersHold(m, n)
  BY <1>1, <1>3 DEF Frames
<1>5. RegistersHold(e, n)
  <2>1. Base(m, n) = b /\ Base(e, n) = b
    BY <1>1, <1>2 DEF Base
  <2>2. b + 1 \in 1 .. b + 2 /\ b + 2 \in 1 .. b + 2
    OBVIOUS
  <2>3. e.stack[b + 1] = m.stack[b + 1] /\ e.stack[b + 2] = m.stack[b + 2]
    BY <1>2, <2>2
  <2>4. m.stack[b + 1] = RootTable /\ m.stack[b + 2] = m.calls[n].arg
    BY <1>3, <1>4, <2>1 DEF RegistersHold
  <2>. QED
    BY <1>2, <2>1, <2>3, <2>4 DEF RegistersHold
<1>6. Frames(e)
  <2>1. \A k \in 1 .. b : k \in 1 .. b + 2
    OBVIOUS
  <2>2. \A k \in 1 .. m.base : e.stack[k] = m.stack[k]
    BY <1>1, <1>2, <2>1
  <2>3. m.base <= Len(e.stack) /\ e.base = m.base /\ Len(e.calls) = Len(m.calls)
    BY <1>1, <1>2
  <2>. QED
    BY <1>1, <1>2, <1>3, <1>5, <2>2, <2>3, FrameKept
<1>7. Ready(e)
  BY <1>2, <1>3, <1>6 DEF Ready
<1>8. RootsOf(e.calls) = RootsOf(m.calls)
  <2>1. m.calls \in Seq(Frame) /\ e.calls \in Seq(Frame) /\ Len(e.calls) = Len(m.calls)
    BY <1>1, <1>2, MachineFacts
  <2>2. ASSUME NEW i \in 1 .. n PROVE e.calls[i].root = m.calls[i].root
    <3>1. i = n \/ i \in 1 .. n - 1
      OBVIOUS
    <3>. QED
      BY <1>2, <3>1
  <2>. QED
    BY <1>1, <2>1, <2>2, SameRoots
<1>. QED
  BY <1>7, <1>8

LEMMA StackWritten ==
    ASSUME NEW s \in Seq(Slots), NEW u \in 1 .. Len(s), NEW x \in Slots
    PROVE  /\ [s EXCEPT ![u] = x] \in Seq(Slots) /\ Len([s EXCEPT ![u] = x]) = Len(s)
           /\ [s EXCEPT ![u] = x][u] = x
           /\ \A k \in 1 .. Len(s) : k # u => [s EXCEPT ![u] = x][k] = s[k]
<1>1. DOMAIN s = 1 .. Len(s) /\ Len(s) \in Nat /\ s \in [1 .. Len(s) -> Slots]
  BY LenProperties
<1>2. [s EXCEPT ![u] = x] \in [1 .. Len(s) -> Slots]
  BY <1>1
<1>. QED
  BY <1>1, <1>2

\* The result register of the function on top of m, as StoreResult writes it.
LEMMA ResultStored ==
    ASSUME NEW m \in Machine, NEW x \in Datum, Ready(m)
    PROVE  /\ GivenTo(Given(StoreResult(m, x), x), m, x)
           /\ SameRun(Given(StoreResult(m, x), x), m)
<1>1. PICK n \in Nat, b \in Nat, l \in Nat :
         n = Len(m.calls) /\ n >= 1 /\ b = m.base /\ l = Len(m.stack) /\ l = b + 3
  BY MachineFacts DEF Ready, Frames
<1>2. PICK u \in Nat : u = b + 3
  OBVIOUS
<1>3. m.stack \in Seq(Slots) /\ x \in Slots /\ u \in 1 .. l /\ n \in 1 .. n
  BY <1>1, <1>2, OnStack, MachineFacts
<1>4. PICK s : s = [m.stack EXCEPT ![u] = x]
  OBVIOUS
<1>5. /\ s \in Seq(Slots) /\ Len(s) = l /\ s[u] = x
      /\ \A k \in 1 .. l : k # u => s[k] = m.stack[k]
  <2>1. u \in 1 .. Len(m.stack)
    BY <1>1, <1>3
  <2>2. /\ s \in Seq(Slots) /\ Len(s) = Len(m.stack) /\ s[u] = x
        /\ \A k \in 1 .. Len(m.stack) : k # u => s[k] = m.stack[k]
    BY <1>3, <1>4, <2>1, StackWritten
  <2>. QED
    BY <1>1, <2>2
<1>6. PICK q : q = StoreResult(m, x)
  OBVIOUS
<1>7. q = [m EXCEPT !.stack = s]
  BY <1>1, <1>2, <1>4, <1>6 DEF StoreResult
<1>8. q.stack = s /\ KeepsFrames(q, m) /\ q \in Machine
  BY <1>5, <1>7, StackChanged DEF KeepsFrames
<1>9. m.calls \in Seq(Frame) /\ m.calls[n] \in Frame /\ DOMAIN m.calls = 1 .. n
  BY <1>1, <1>3, MachineFacts
<1>10. PICK f : f = [m.calls[n] EXCEPT !.result = x]
  OBVIOUS
<1>11. /\ f \in Frame /\ f.kind = m.calls[n].kind /\ f.base = m.calls[n].base /\ f.top = m.calls[n].top
       /\ f.root = m.calls[n].root /\ f.arg = m.calls[n].arg /\ f.result = x
  BY <1>9, <1>10 DEF Frame
<1>12. PICK c : c = [m.calls EXCEPT ![n] = f]
  OBVIOUS
<1>13. c \in Seq(Frame) /\ Len(c) = n /\ c[n] = f /\ \A i \in 1 .. n - 1 : c[i] = m.calls[i]
  BY <1>1, <1>3, <1>9, <1>11, <1>12
<1>14. PICK e : e = Given(q, x)
  OBVIOUS
<1>15. e = [q EXCEPT !.calls = c]
  BY <1>1, <1>8, <1>10, <1>12, <1>14 DEF Given, KeepsFrames
<1>16. e \in Machine /\ e.calls = c /\ e.stack = s /\ e.base = b /\ SameRun(e, m)
  BY <1>1, <1>8, <1>13, <1>15 DEF Machine, KeepsFrames, SameRun
<1>17. \A k \in 1 .. b + 2 : s[k] = m.stack[k]
  <2>1. \A k \in 1 .. b + 2 : k \in 1 .. l /\ k # u
    BY <1>1, <1>2
  <2>. QED
    BY <1>5, <2>1
<1>18. GivenTo(e, m, x)
  BY <1>1, <1>2, <1>5, <1>11, <1>13, <1>16, <1>17 DEF GivenTo
<1>. QED
  BY <1>6, <1>14, <1>16, <1>18

LEMMA ResultFits ==
    ASSUME NEW m \in Machine, NEW x \in Datum, Ready(m)
    PROVE  /\ Ready(Given(StoreResult(m, x), x)) /\ SameRun(Given(StoreResult(m, x), x), m)
           /\ RootsOf(Given(StoreResult(m, x), x).calls) = RootsOf(m.calls)
<1>1. PICK e : e = Given(StoreResult(m, x), x)
  OBVIOUS
<1>2. GivenTo(e, m, x) /\ SameRun(e, m)
  BY <1>1, ResultStored
<1>3. e \in Machine
  BY <1>2 DEF GivenTo
<1>4. Ready(e) /\ RootsOf(e.calls) = RootsOf(m.calls)
  BY <1>2, <1>3, GivenFits
<1>. QED
  BY <1>1, <1>2, <1>4

\* A native function returns x, which it pushed.
LEMMA NativeReturned ==
    ASSUME NEW w \in Machine, NEW x \in Datum, InNative(w)
    PROVE  LET p == Push(w, x)
               e == Given(NativeReturns(p, GetUp(p)), x)
           IN  Ready(e) /\ SameRun(e, w) /\ RootsOf(e.calls) = RootsOf(w.calls)
<1>1. PICK p : p = Push(w, x)
  OBVIOUS
<1>2. InNative(p) /\ KeepsFrames(p, w) /\ GetUp(p) = x /\ p \in Machine
  BY <1>1, NativePushes DEF KeepsFrames
<1>3. PICK m : m = LeaveFrame(p)
  OBVIOUS
<1>4. Ready(m) /\ OneLess(m, p) /\ RootsOf(m.calls) = RootsOf(p.calls) /\ m \in Machine
  BY <1>2, <1>3, NativeLeft DEF OneLess
<1>5. PICK e : e = Given(StoreResult(m, x), x)
  OBVIOUS
<1>6. Ready(e) /\ SameRun(e, m) /\ RootsOf(e.calls) = RootsOf(m.calls)
  BY <1>4, <1>5, ResultFits
<1>7. e = Given(NativeReturns(p, GetUp(p)), x)
  BY <1>2, <1>3, <1>5 DEF NativeReturns
<1>8. SameRun(e, w) /\ RootsOf(e.calls) = RootsOf(w.calls)
  BY <1>2, <1>4, <1>6 DEF SameRun, OneLess, KeepsFrames
<1>. QED
  BY <1>1, <1>6, <1>7, <1>8

\* It returns 0, or null.
LEMMA NativeReturnedNull ==
    ASSUME NEW w \in Machine, NEW x \in Datum, InNative(w)
    PROVE  LET e == Given(NativeReturns(w, x), x)
           IN  Ready(e) /\ SameRun(e, w) /\ RootsOf(e.calls) = RootsOf(w.calls)
<1>1. PICK m : m = LeaveFrame(w)
  OBVIOUS
<1>2. Ready(m) /\ OneLess(m, w) /\ RootsOf(m.calls) = RootsOf(w.calls) /\ m \in Machine
  BY <1>1, NativeLeft DEF OneLess
<1>3. PICK e : e = Given(StoreResult(m, x), x)
  OBVIOUS
<1>4. Ready(e) /\ SameRun(e, m) /\ RootsOf(e.calls) = RootsOf(m.calls)
  BY <1>2, <1>3, ResultFits
<1>5. e = Given(NativeReturns(w, x), x)
  BY <1>1, <1>3 DEF NativeReturns
<1>. QED
  BY <1>2, <1>4, <1>5 DEF SameRun, OneLess

LEMMA ErrChanged ==
    ASSUME NEW m \in Machine, NEW y \in Trouble
    PROVE  LET e == [m EXCEPT !.err = y]
           IN  /\ e \in Machine /\ e.stack = m.stack /\ e.base = m.base /\ e.calls = m.calls
               /\ e.susp = m.susp /\ e.root = m.root /\ e.err = y
BY DEF Machine

\* It fails.
LEMMA NativeFailed ==
    ASSUME NEW w \in Machine, NEW y \in Trouble, InNative(w)
    PROVE  LET e == [LeaveFrame(w) EXCEPT !.err = y]
           IN  /\ Ready(e) /\ e.susp = w.susp /\ e.root = w.root /\ e.err = y
               /\ RootsOf(e.calls) = RootsOf(w.calls)
<1>1. PICK m : m = LeaveFrame(w)
  OBVIOUS
<1>2. Ready(m) /\ OneLess(m, w) /\ RootsOf(m.calls) = RootsOf(w.calls) /\ m \in Machine
  BY <1>1, NativeLeft DEF OneLess
<1>3. PICK e : e = [m EXCEPT !.err = y]
  OBVIOUS
<1>4. /\ e \in Machine /\ e.stack = m.stack /\ e.base = m.base /\ e.calls = m.calls
      /\ e.susp = m.susp /\ e.root = m.root /\ e.err = y
  BY <1>2, <1>3, ErrChanged
<1>5. Ready(e)
  <2>1. e \in Machine /\ e.stack = m.stack /\ e.base = m.base /\ e.calls = m.calls /\ Ready(m) /\ m \in Machine
    BY <1>2, <1>4
  <2>. QED
    BY ONLY <2>1, SameFrames
<1>. QED
  BY <1>1, <1>2, <1>3, <1>4, <1>5 DEF OneLess, SameRun

\* A VM that waits at suspend, and what it is woken with.
IsAsleep(m) ==
    /\ Ready(m) /\ m.susp = TRUE /\ \A i \in 1 .. Len(m.calls) : m.calls[i].kind = "script"
    /\ m.root = m.calls[Len(m.calls)].root

WokenUp(q, r) == [q EXCEPT !.calls[Len(q.calls)].root = r, !.susp = FALSE]

LEMMA WokenFits ==
    ASSUME NEW m \in Machine, NEW x \in Datum, IsAsleep(m)
    PROVE  LET e == Given(WokenUp(StoreResult(m, x), m.root), x)
           IN  /\ Ready(e) /\ e.susp = FALSE /\ e.err = m.err
               /\ RootsOf(e.calls) = RootsOf(m.calls)
<1>1. PICK v : v = [m EXCEPT !.susp = FALSE]
  OBVIOUS
<1>2. /\ v \in Machine /\ v.stack = m.stack /\ v.base = m.base /\ v.calls = m.calls
      /\ v.susp = FALSE /\ v.root = m.root /\ v.err = m.err
  BY <1>1 DEF Machine
<1>3. Ready(m) /\ Ready(v)
  <2>1. v \in Machine /\ v.stack = m.stack /\ v.base = m.base /\ v.calls = m.calls /\ Ready(m)
    BY <1>2 DEF IsAsleep
  <2>. QED
    BY ONLY <2>1, m \in Machine, SameFrames
<1>4. PICK q : q = StoreResult(m, x)
  OBVIOUS
<1>5. q.calls = m.calls /\ q \in Machine
  <2>1. PICK n \in Nat, b \in Nat, l \in Nat, u \in Nat :
           b = m.base /\ l = Len(m.stack) /\ l = b + 3 /\ u = b + 3
    BY <1>3, MachineFacts DEF Ready
  <2>2. m.stack \in Seq(Slots) /\ x \in Slots /\ u \in 1 .. l
    BY <2>1, OnStack, MachineFacts
  <2>3. [m.stack EXCEPT ![u] = x] \in Seq(Slots)
    BY <2>1, <2>2, StackWritten
  <2>4. q = [m EXCEPT !.stack = [m.stack EXCEPT ![u] = x]]
    BY <1>4, <2>1 DEF StoreResult
  <2>. QED
    BY <2>3, <2>4, StackChanged DEF KeepsFrames
<1>6. WokenUp(q, m.root) = StoreResult(v, x)
  <2>1. PICK n \in Nat : n = Len(m.calls) /\ n >= 1
    BY <1>3, MachineFacts DEF Ready, Frames
  <2>2. m.calls \in Seq(Frame) /\ n \in 1 .. n /\ m.calls[n] \in Frame /\ m.calls[n].root = m.root
    BY <2>1, MachineFacts DEF IsAsleep
  <2>3. [m.calls[n] EXCEPT !.root = m.root] = m.calls[n]
    BY <2>2 DEF Frame
  <2>4. [m.calls EXCEPT ![n] = m.calls[n]] = m.calls
    BY <2>2
  <2>5. WokenUp(q, m.root) = [q EXCEPT !.calls = m.calls, !.susp = FALSE]
    BY <1>5, <2>1, <2>3, <2>4 DEF WokenUp
  <2>6. [q EXCEPT !.calls = m.calls, !.susp = FALSE] = StoreResult(v, x)
    BY <1>1, <1>2, <1>4 DEF StoreResult, Machine
  <2>. QED
    BY <2>5, <2>6
<1>7. PICK e : e = Given(StoreResult(v, x), x)
  OBVIOUS
<1>8. Ready(e) /\ SameRun(e, v) /\ RootsOf(e.calls) = RootsOf(v.calls)
  BY <1>2, <1>3, <1>7, ResultFits
<1>. QED
  BY <1>2, <1>4, <1>6, <1>7, <1>8 DEF SameRun

----------------------------------------------------------------------------
(* Threads: an activation ends.                                            *)

LEMMA PopPush ==
    ASSUME NEW m \in Machine, NEW x \in Slots
    PROVE  Pop(Push(m, x), 1) = m
<1>1. PICK l \in Nat, s \in Seq(Slots) : s = m.stack /\ l = Len(s)
  BY MachineFacts
<1>2. PICK a \in Seq(Slots) :
         a = Append(s, x) /\ Len(a) = l + 1 /\ \A k \in 1 .. l : a[k] = s[k]
  <2>1. /\ Append(s, x) \in Seq(Slots) /\ Len(Append(s, x)) = Len(s) + 1
        /\ \A k \in 1 .. Len(s) : Append(s, x)[k] = s[k]
    BY AppendProperties
  <2>. QED
    BY <1>1, <2>1
<1>3. (l + 1) - 1 = l /\ l \in 0 .. Len(a)
  BY <1>2
<1>4. PICK z \in Seq(Slots) : z = SubSeq(a, 1, l) /\ Len(z) = l /\ \A k \in 1 .. l : z[k] = a[k]
  BY <1>2, <1>3, StackPrefix
<1>5. z = s
  <2>1. z = [k \in 1 .. l |-> z[k]] /\ s = [k \in 1 .. l |-> s[k]]
    <3>1. z \in [1 .. l -> Slots] /\ s \in [1 .. l -> Slots]
      BY <1>1, <1>4, LenProperties
    <3>. QED
      BY <3>1
  <2>2. \A k \in 1 .. l : z[k] = s[k]
    BY <1>2, <1>4
  <2>. QED
    BY <2>1, <2>2
<1>6. Push(m, x) = [m EXCEPT !.stack = a]
  BY <1>1, <1>2 DEF Push
<1>7. Pop(Push(m, x), 1) = [m EXCEPT !.stack = z]
  <2>0. [m EXCEPT !.stack = a].stack = a /\ KeepsFrames([m EXCEPT !.stack = a], m)
    BY StackChanged
  <2>1. PICK q : q = [m EXCEPT !.stack = a] /\ q.stack = a /\ q \in Machine
    BY <2>0 DEF KeepsFrames
  <2>2. Pop(q, 1) = [q EXCEPT !.stack = z]
    BY <1>2, <1>3, <1>4, <2>1 DEF Pop
  <2>3. [q EXCEPT !.stack = z] = [m EXCEPT !.stack = z]
    BY <2>1 DEF Machine
  <2>. QED
    BY <1>6, <2>1, <2>2, <2>3
<1>. QED
  BY <1>1, <1>5, <1>7 DEF Machine

\* The last frame has been left.
IsDone(m) ==
    /\ m \in Machine /\ m.calls = <<>> /\ m.base = 0 /\ m.susp = FALSE
    /\ Len(m.stack) = 3 /\ m.stack[1] = FunctionObject

LEMMA BecomesIdle ==
    ASSUME NEW m \in Machine, m.calls = <<>>, m.base = 0, m.susp = FALSE,
           Len(m.stack) = 1, m.stack[1] = FunctionObject
    PROVE  IsIdle(m)
<1>1. m.stack \in Seq(Slots)
  BY MachineFacts
<1>2. m.stack = <<FunctionObject>>
  BY <1>1
<1>. QED
  BY <1>2 DEF IsIdle

\* What lv_call and lv_wakeupvm leave before the result.
Remaining(m, by) == IF by.params > 0 /\ ~m.susp THEN Pop(m, by.params) ELSE m

IsOutside(by) == by.params = 2 \/ (by.params = 0 /\ by.via # "call")

LEMMA SetTopIdle ==
    ASSUME NEW m \in Machine, m.calls = <<>>, m.base = 0, m.susp = FALSE,
           Len(m.stack) >= 1, m.stack[1] = FunctionObject
    PROVE  IsIdle(SetTop(m, 1)) /\ SameRun(SetTop(m, 1), m)
<1>1. PICK e : e = SetTop(m, 1)
  OBVIOUS
<1>2. /\ KeepsFrames(e, m) /\ Len(e.stack) = m.base + 1
      /\ \A k \in 1 .. m.base + 1 : e.stack[k] = IF k <= Len(m.stack) THEN m.stack[k] ELSE OT_NULL
  BY <1>1, SetTopFacts
<1>3. 1 \in 1 .. m.base + 1 /\ Len(e.stack) = 1 /\ 1 <= Len(m.stack)
  BY <1>2
<1>4. e.stack[1] = FunctionObject
  BY <1>2, <1>3
<1>5. /\ e \in Machine /\ e.calls = <<>> /\ e.base = 0 /\ e.susp = FALSE /\ SameRun(e, m)
  BY <1>2 DEF KeepsFrames, SameRun
<1>. QED
  BY <1>1, <1>3, <1>4, <1>5, BecomesIdle

LEMMA PoppedWhenDone ==
    ASSUME NEW m, NEW by, NEW n \in {1, 3}, m \in Machine, m.calls = <<>>, m.base = 0, m.susp = FALSE,
           Len(m.stack) = n, m.stack[1] = FunctionObject, NEW x \in Datum, n = 1 \/ by.via # "call"
    PROVE  IsIdle(Popped(Push(m, x), by)) /\ SameRun(Popped(Push(m, x), by), m)
<1>1. Pop(Push(m, x), 1) = m
  BY OnStack, PopPush
<1>2. Push(m, x).calls = <<>>
  BY OnStack, PushFacts DEF KeepsFrames
<1>3. CASE by.via # "call"
  <2>1. Popped(Push(m, x), by) = SetTop(m, 1)
    BY <1>1, <1>2, <1>3 DEF Popped
  <2>2. Len(m.stack) >= 1
    OBVIOUS
  <2>3. IsIdle(SetTop(m, 1)) /\ SameRun(SetTop(m, 1), m)
    BY <2>2, SetTopIdle
  <2>. QED
    BY <2>1, <2>3
<1>4. CASE by.via = "call"
  <2>1. Popped(Push(m, x), by) = m /\ Len(m.stack) = 1
    BY <1>1, <1>4 DEF Popped
  <2>. QED
    BY <2>1, BecomesIdle DEF SameRun
<1>. QED
  BY <1>3, <1>4

LEMMA DonePops ==
    ASSUME NEW m \in Machine, IsDone(m)
    PROVE  LET e == Pop(m, 2)
           IN  /\ e \in Machine /\ e.calls = <<>> /\ e.base = 0 /\ e.susp = FALSE /\ SameRun(e, m)
               /\ Len(e.stack) = 1 /\ e.stack[1] = FunctionObject
<1>1. 2 \in 0 .. Len(m.stack) /\ Len(m.stack) - 2 = 1 /\ 1 \in 1 .. Len(m.stack) - 2
  BY DEF IsDone
<1>2. PICK e : e = Pop(m, 2)
  OBVIOUS
<1>3. /\ KeepsFrames(e, m) /\ Len(e.stack) = Len(m.stack) - 2
      /\ \A k \in 1 .. Len(m.stack) - 2 : e.stack[k] = m.stack[k]
  BY <1>1, <1>2, PopFacts
<1>. QED
  BY <1>1, <1>2, <1>3 DEF KeepsFrames, SameRun, IsDone

\* Whatever called or woke the VM finds it idle when its last function returns,
LEMMA Ended ==
    ASSUME NEW m \in Machine, NEW by, NEW x \in Datum, IsDone(m), IsOutside(by)
    PROVE  LET e == Popped(Push(Remaining(m, by), x), by)
           IN  IsIdle(e) /\ SameRun(e, m)
<1>1. ~m.susp
  BY DEF IsDone
<1>2. CASE by.params = 2
  <2>1. PICK q : q = Pop(m, 2)
    OBVIOUS
  <2>2. Remaining(m, by) = q
    BY <1>1, <1>2, <2>1 DEF Remaining
  <2>3. /\ q \in Machine /\ q.calls = <<>> /\ q.base = 0 /\ q.susp = FALSE /\ SameRun(q, m)
        /\ Len(q.stack) = 1 /\ q.stack[1] = FunctionObject
    BY <2>1, DonePops
  <2>4. IsIdle(Popped(Push(q, x), by)) /\ SameRun(Popped(Push(q, x), by), q)
    BY <2>3, PoppedWhenDone
  <2>. QED
    BY <2>2, <2>3, <2>4 DEF SameRun
<1>3. CASE by.params = 0 /\ by.via # "call"
  <2>1. Remaining(m, by) = m
    BY <1>3 DEF Remaining
  <2>2. /\ m.calls = <<>> /\ m.base = 0 /\ m.susp = FALSE /\ Len(m.stack) = 3 /\ m.stack[1] = FunctionObject
    BY DEF IsDone
  <2>3. IsIdle(Popped(Push(m, x), by)) /\ SameRun(Popped(Push(m, x), by), m)
    BY <1>3, <2>2, PoppedWhenDone
  <2>. QED
    BY <2>1, <2>3
<1>. QED
  BY <1>2, <1>3 DEF IsOutside

\* and when an error has left it.
LEMMA EndedBadly ==
    ASSUME NEW m \in Machine, NEW by, IsDone(m), IsOutside(by)
    PROVE  LET failed == IF by.params > 0 THEN Pop(m, by.params) ELSE m
           IN  /\ by.via = "call" => IsIdle(failed)
               /\ by.via # "call" => IsIdle(SetTop(failed, 1))
<1>1. PICK q : q = IF by.params > 0 THEN Pop(m, by.params) ELSE m
  OBVIOUS
<1>2. /\ q \in Machine /\ q.calls = <<>> /\ q.base = 0 /\ q.susp = FALSE
      /\ Len(q.stack) \in {1, 3} /\ q.stack[1] = FunctionObject
      /\ by.via = "call" => Len(q.stack) = 1
  <2>1. CASE by.params = 2
    <3>1. q = Pop(m, 2)
      BY <1>1, <2>1
    <3>. QED
      BY <3>1, DonePops
  <2>2. CASE by.params = 0 /\ by.via # "call"
    <3>1. q = m
      BY <1>1, <2>2
    <3>. QED
      BY <2>2, <3>1 DEF IsDone
  <2>. QED
    BY <2>1, <2>2 DEF IsOutside
<1>3. by.via = "call" => IsIdle(q)
  BY <1>2, BecomesIdle
<1>4. IsIdle(SetTop(q, 1))
  <2>1. Len(q.stack) >= 1
    BY <1>2
  <2>. QED
    BY <1>2, <2>1, SetTopIdle
<1>. QED
  BY <1>1, <1>3, <1>4

\* A function that suspends leaves its VM asleep.
LEMMA Slept ==
    ASSUME NEW v \in Machine, NEW by, NEW x \in Datum, Ready(v),
           \A i \in 1 .. Len(v.calls) : v.calls[i].kind = "script"
    PROVE  LET m == [v EXCEPT !.susp = TRUE, !.root = Last(v.calls).root]
               e == Popped(Push(Remaining(m, by), x), by)
           IN  IsAsleep(e) /\ e.err = v.err /\ e.calls = v.calls /\ e.calls # <<>>
<1>1. PICK n \in Nat : n = Len(v.calls) /\ n >= 1
  BY MachineFacts DEF Ready, Frames
<1>2. v.calls[n] \in Frame
  BY <1>1, MachineFacts
<1>3. PICK m : m = [v EXCEPT !.susp = TRUE, !.root = Last(v.calls).root]
  OBVIOUS
<1>4. /\ m \in Machine /\ m.stack = v.stack /\ m.base = v.base /\ m.calls = v.calls
      /\ m.susp = TRUE /\ m.root = v.calls[n].root /\ m.err = v.err
  <2>1. PICK r : r = v.calls[n].root
    OBVIOUS
  <2>2. r \in BOOLEAN /\ r = Last(v.calls).root
    BY <1>1, <1>2, <2>1 DEF Frame, Last
  <2>3. m = [v EXCEPT !.susp = TRUE, !.root = r]
    BY <1>3, <2>2
  <2>. QED
    BY <2>1, <2>2, <2>3 DEF Machine
<1>5. Ready(m)
  <2>1. m \in Machine /\ m.stack = v.stack /\ m.base = v.base /\ m.calls = v.calls /\ Ready(v) /\ v \in Machine
    BY <1>4
  <2>. QED
    BY ONLY <2>1, SameFrames
<1>6. IsAsleep(m)
  BY <1>1, <1>4, <1>5 DEF IsAsleep
<1>7. m.calls # <<>>
  BY <1>1, <1>4
<1>8. Popped(Push(Remaining(m, by), x), by) = m
  <2>1. Remaining(m, by) = m
    BY <1>4 DEF Remaining
  <2>2. Pop(Push(m, x), 1) = m
    BY <1>4, OnStack, PopPush
  <2>3. Push(m, x).calls # <<>>
    BY <1>4, <1>7, OnStack, PushFacts DEF KeepsFrames
  <2>. QED
    BY <2>1, <2>2, <2>3 DEF Popped
<1>. QED
  BY <1>3, <1>4, <1>6, <1>7, <1>8

----------------------------------------------------------------------------
(* Threads: who is on the C++ stack.                                       *)

Act == [vm : VM, via : {"host", "native", "call", "wakeup", "keep"}, params : {0, 2}]

Acts(c, t) == {i \in DOMAIN c : c[i].vm = t}

\* An activation: the first is the host's, a native function calls a function of
\* the VM it runs in, and the others are of VMs that were not running.
ActFits(c, i) ==
    /\ i = 1 => c[i].via = "host" /\ c[i].vm = RootVM
    /\ i # 1 => c[i].via # "host"
    /\ c[i].via = "native" => c[i - 1].vm = c[i].vm /\ c[i].params = 2
    /\ c[i].via = "call" => c[i].params = 2
    /\ c[i].via \in {"wakeup", "keep"} => c[i].params = 0
    /\ c[i].via \in {"call", "wakeup", "keep"} => \A j \in 1 .. i - 1 : c[j].vm # c[i].vm

CppFits(c) == c \in Seq(Act) /\ \A i \in 1 .. Len(c) : ActFits(c, i)

VMFits(m) ==
    /\ m \in Machine /\ (IsIdle(m) \/ Ready(m) \/ InNative(m))
    /\ m.susp = TRUE => IsAsleep(m)

\* A VM runs when it is on the C++ stack, with a root frame for each activation.
RunsOn(m, c, t) ==
    /\ m.calls # <<>> /\ m.susp = FALSE => Acts(c, t) # {}
    /\ Acts(c, t) # {} =>
          /\ m.calls # <<>> /\ m.susp = FALSE
          /\ Cardinality(RootsOf(m.calls)) = Cardinality(Acts(c, t))
          /\ t = c[Len(c)].vm => Ready(m)
          /\ t # c[Len(c)].vm => InNative(m)

Turns(v, c, md, r) ==
    /\ v \in [VM -> Machine] /\ \A t \in VM : VMFits(v[t]) /\ RunsOn(v[t], c, t)
    /\ CppFits(c) /\ md \in {"run", "raise"} /\ r \in Trouble
    /\ md = "raise" => c # <<>> /\ v[c[Len(c)].vm].err = r

LEMMA ActsAdded ==
    ASSUME NEW d \in Seq(Act), NEW a \in Act, NEW t
    PROVE  /\ IsFiniteSet(Acts(d, t)) /\ Cardinality(Acts(d, t)) \in Nat
           /\ a.vm # t => Acts(Append(d, a), t) = Acts(d, t)
           /\ a.vm = t => /\ Acts(Append(d, a), t) = Acts(d, t) \cup {Len(d) + 1}
                          /\ Cardinality(Acts(Append(d, a), t)) = Cardinality(Acts(d, t)) + 1
<1>1. PICK n \in Nat, c \in Seq(Act) :
         /\ n = Len(d) /\ c = Append(d, a) /\ DOMAIN d = 1 .. n /\ DOMAIN c = 1 .. n + 1
         /\ c[n + 1] = a /\ \A i \in 1 .. n : c[i] = d[i]
  <2>1. /\ Append(d, a) \in Seq(Act) /\ Len(Append(d, a)) = Len(d) + 1
        /\ Append(d, a)[Len(d) + 1] = a /\ \A i \in 1 .. Len(d) : Append(d, a)[i] = d[i]
    BY AppendProperties
  <2>2. Len(d) \in Nat /\ DOMAIN d = 1 .. Len(d) /\ DOMAIN Append(d, a) = 1 .. Len(d) + 1
    BY <2>1
  <2>. QED
    BY <2>1, <2>2
<1>2. n + 1 \notin 1 .. n /\ n + 1 \in 1 .. n + 1 /\ \A i \in 1 .. n + 1 : i \in 1 .. n \/ i = n + 1
  OBVIOUS
<1>3. \A i \in 1 .. n : i \in 1 .. n + 1
  OBVIOUS
<1>4. IsFiniteSet(Acts(d, t)) /\ Cardinality(Acts(d, t)) \in Nat
  <2>1. Acts(d, t) \subseteq 1 .. n
    BY <1>1 DEF Acts
  <2>2. IsFiniteSet(1 .. n)
    BY FS_Interval
  <2>. QED
    BY <2>1, <2>2, FS_Subset, FS_CardinalityType
<1>5. CASE a.vm = t
  <2>1. Acts(c, t) = Acts(d, t) \cup {n + 1} /\ n + 1 \notin Acts(d, t)
    BY <1>1, <1>2, <1>3, <1>5 DEF Acts
  <2>2. PICK S : S = Acts(d, t) /\ IsFiniteSet(S)
    BY <1>4
  <2>3. Cardinality(Acts(c, t)) = Cardinality(Acts(d, t)) + 1
    <3>1. Cardinality(S \cup {n + 1}) = Cardinality(S) + 1
      BY <2>1, <2>2, FS_AddElement
    <3>. QED
      BY <2>1, <2>2, <3>1
  <2>. QED
    BY <1>1, <1>4, <1>5, <2>1, <2>3
<1>6. CASE a.vm # t
  <2>1. Acts(c, t) = Acts(d, t)
    BY <1>1, <1>2, <1>3, <1>6 DEF Acts
  <2>. QED
    BY <1>1, <1>4, <1>6, <2>1
<1>. QED
  BY <1>5, <1>6

LEMMA ActGrows ==
    ASSUME NEW d \in Seq(Act), NEW a \in Act
    PROVE  /\ Acts(Append(d, a), a.vm) # {}
           /\ Cardinality(Acts(Append(d, a), a.vm)) = Cardinality(Acts(d, a.vm)) + 1
<1>1. PICK t : t = a.vm
  OBVIOUS
<1>2. /\ Acts(Append(d, a), t) = Acts(d, t) \cup {Len(d) + 1}
      /\ Cardinality(Acts(Append(d, a), t)) = Cardinality(Acts(d, t)) + 1
  BY <1>1, ActsAdded
<1>. QED
  BY <1>1, <1>2

LEMMA CppAdded ==
    ASSUME NEW d \in Seq(Act), NEW a \in Act
    PROVE  CppFits(Append(d, a)) <=> CppFits(d) /\ ActFits(Append(d, a), Len(d) + 1)
<1>1. PICK n \in Nat, c \in Seq(Act) :
         /\ n = Len(d) /\ c = Append(d, a) /\ Len(c) = n + 1
         /\ c[n + 1] = a /\ \A i \in 1 .. n : c[i] = d[i]
  <2>1. /\ Append(d, a) \in Seq(Act) /\ Len(Append(d, a)) = Len(d) + 1
        /\ Append(d, a)[Len(d) + 1] = a /\ \A i \in 1 .. Len(d) : Append(d, a)[i] = d[i]
    BY AppendProperties
  <2>2. Len(d) \in Nat
    OBVIOUS
  <2>. QED
    BY <2>1, <2>2
<1>2. ASSUME NEW i \in 1 .. n PROVE ActFits(c, i) <=> ActFits(d, i)
  <2>1. c[i] = d[i] /\ \A j \in 1 .. i - 1 : c[j] = d[j]
    BY <1>1
  <2>2. i # 1 => c[i - 1] = d[i - 1]
    BY <1>1
  <2>3. CASE i = 1
    BY <2>1, <2>3 DEF ActFits
  <2>4. CASE i # 1
    BY <2>1, <2>2, <2>4 DEF ActFits
  <2>. QED
    BY <2>3, <2>4
<1>3. \A i \in 1 .. n + 1 : i \in 1 .. n \/ i = n + 1
  OBVIOUS
<1>4. n + 1 \in 1 .. n + 1 /\ \A i \in 1 .. n : i \in 1 .. n + 1
  OBVIOUS
<1>5. (\A i \in 1 .. n + 1 : ActFits(c, i)) <=> (\A i \in 1 .. n : ActFits(d, i)) /\ ActFits(c, n + 1)
  BY <1>2, <1>3, <1>4
<1>. QED
  BY <1>1, <1>5 DEF CppFits

\* The VM that runs.
LEMMA RunnerFacts ==
    ASSUME NEW v, NEW c, NEW md, NEW r, Turns(v, c, md, r), c # <<>>
    PROVE  /\ c[Len(c)].vm \in VM /\ v[c[Len(c)].vm] \in Machine /\ Ready(v[c[Len(c)].vm])
           /\ v[c[Len(c)].vm].susp = FALSE /\ c[Len(c)] \in Act
           /\ Cardinality(RootsOf(v[c[Len(c)].vm].calls)) = Cardinality(Acts(c, c[Len(c)].vm))
<1>1. c \in Seq(Act) /\ Len(c) \in 1 .. Len(c) /\ DOMAIN c = 1 .. Len(c)
  BY DEF Turns, CppFits
<1>2. PICK R : R = c[Len(c)].vm
  OBVIOUS
<1>3. c[Len(c)] \in Act /\ R \in VM
  <2>1. c[Len(c)] \in Act
    BY <1>1
  <2>. QED
    BY <1>2, <2>1 DEF Act
<1>4. Len(c) \in Acts(c, R)
  BY <1>1, <1>2 DEF Acts
<1>5. v[R] \in Machine /\ RunsOn(v[R], c, R)
  BY <1>3 DEF Turns
<1>6. Ready(v[R]) /\ v[R].susp = FALSE /\ Cardinality(RootsOf(v[R].calls)) = Cardinality(Acts(c, R))
  BY <1>2, <1>4, <1>5 DEF RunsOn
<1>. QED
  BY <1>2, <1>3, <1>5, <1>6

\* A VM after a step, for the part of the invariant that is about it.
LEMMA ReadyRuns ==
    ASSUME NEW e \in Machine, NEW c, NEW t, Ready(e), e.susp = FALSE, t = c[Len(c)].vm, Acts(c, t) # {},
           Cardinality(RootsOf(e.calls)) = Cardinality(Acts(c, t))
    PROVE  VMFits(e) /\ RunsOn(e, c, t)
<1>1. e.calls # <<>> /\ e.susp # TRUE
  <2>1. Len(e.calls) >= 1 /\ Len(<<>>) = 0
    BY DEF Ready, Frames
  <2>2. e.calls # <<>>
    BY <2>1
  <2>3. e.susp # TRUE
    OBVIOUS
  <2>. QED
    BY <2>2, <2>3
<1>. QED
  BY <1>1 DEF VMFits, RunsOn

LEMMA WaitingRuns ==
    ASSUME NEW e \in Machine, NEW c, NEW t, InNative(e), e.susp = FALSE, t # c[Len(c)].vm, Acts(c, t) # {},
           Cardinality(RootsOf(e.calls)) = Cardinality(Acts(c, t))
    PROVE  VMFits(e) /\ RunsOn(e, c, t)
<1>1. e.calls # <<>> /\ e.susp # TRUE
  <2>1. Len(e.calls) >= 1 /\ Len(<<>>) = 0
    BY DEF InNative, Frames
  <2>2. e.calls # <<>>
    BY <2>1
  <2>3. e.susp # TRUE
    OBVIOUS
  <2>. QED
    BY <2>2, <2>3
<1>. QED
  BY <1>1 DEF VMFits, RunsOn

LEMMA RestingRuns ==
    ASSUME NEW e \in Machine, NEW c, NEW t, IsIdle(e) \/ IsAsleep(e), Acts(c, t) = {}
    PROVE  VMFits(e) /\ RunsOn(e, c, t)
<1>1. CASE IsIdle(e)
  BY <1>1 DEF VMFits, RunsOn, IsIdle
<1>2. CASE IsAsleep(e)
  BY <1>2 DEF VMFits, RunsOn, IsAsleep
<1>. QED
  BY <1>1, <1>2

----------------------------------------------------------------------------
(* Threads: the steps on all VMs.                                          *)

\* What a step leaves to be told of an error.
Told(m, md, r) == md \in {"run", "raise"} /\ r \in Trouble /\ (md = "raise" => m.err = r)

\* The VM that runs goes on.
LEMMA LocalStep ==
    ASSUME NEW v, NEW c, NEW md, NEW r, NEW e \in Machine, NEW md1, NEW r1, NEW R,
           Turns(v, c, md, r), c # <<>>, R = c[Len(c)].vm, Ready(e), e.susp = FALSE,
           RootsOf(e.calls) = RootsOf(v[R].calls), Told(e, md1, r1)
    PROVE  Turns([v EXCEPT ![R] = e], c, md1, r1)
<1>1. /\ R \in VM /\ v[R] \in Machine
      /\ Cardinality(RootsOf(v[R].calls)) = Cardinality(Acts(c, R))
  BY RunnerFacts
<1>2. v \in [VM -> Machine] /\ CppFits(c)
  BY DEF Turns
<1>3. PICK w : w = [v EXCEPT ![R] = e]
  OBVIOUS
<1>4. w \in [VM -> Machine] /\ w[R] = e /\ \A t \in VM : t # R => w[t] = v[t]
  BY <1>1, <1>2, <1>3
<1>5. Acts(c, R) # {}
  <2>1. Len(c) \in DOMAIN c
    BY <1>2 DEF CppFits
  <2>. QED
    BY <2>1 DEF Acts
<1>6. VMFits(e) /\ RunsOn(e, c, R)
  BY <1>1, <1>5, ReadyRuns
<1>7. \A t \in VM : VMFits(w[t]) /\ RunsOn(w[t], c, t)
  <2>1. ASSUME NEW t \in VM PROVE VMFits(w[t]) /\ RunsOn(w[t], c, t)
    <3>1. CASE t = R
      BY <1>4, <1>6, <3>1
    <3>2. CASE t # R
      BY <1>4, <3>2 DEF Turns
    <3>. QED
      BY <3>1, <3>2
  <2>. QED
    BY <2>1
<1>8. md1 \in {"run", "raise"} /\ r1 \in Trouble /\ (md1 = "raise" => w[c[Len(c)].vm].err = r1)
  BY <1>4 DEF Told
<1>. QED
  BY <1>2, <1>3, <1>4, <1>7, <1>8 DEF Turns

LEMMA AddedFacts ==
    ASSUME NEW d \in Seq(Act), NEW a \in Act
    PROVE  /\ Append(d, a) \in Seq(Act) /\ Append(d, a) # <<>> /\ Len(Append(d, a)) = Len(d) + 1
           /\ Append(d, a)[Len(Append(d, a))] = a /\ Append(d, a)[Len(d) + 1] = a
           /\ \A i \in 1 .. Len(d) : Append(d, a)[i] = d[i]
           /\ Len(d) \in Nat
BY AppendProperties

LEMMA LastActs ==
    ASSUME NEW d \in Seq(Act), d # <<>>
    PROVE  Len(d) \in 1 .. Len(d) /\ d[Len(d)] \in Act /\ Len(d) \in Acts(d, d[Len(d)].vm)
<1>1. Len(d) \in 1 .. Len(d) /\ DOMAIN d = 1 .. Len(d)
  OBVIOUS
<1>. QED
  BY <1>1 DEF Acts

\* A native function of the VM that runs calls a function.
LEMMA NativeAct ==
    ASSUME NEW v, NEW c, NEW md, NEW r, NEW e \in Machine, NEW R, NEW a \in Act, NEW md1, NEW r1,
           Turns(v, c, md, r), c # <<>>, R = c[Len(c)].vm, Ready(e), e.susp = FALSE,
           Cardinality(RootsOf(e.calls)) = Cardinality(RootsOf(v[R].calls)) + 1, Told(e, md1, r1),
           a.vm = R, a.via = "native", a.params = 2
    PROVE  Turns([v EXCEPT ![R] = e], Append(c, a), md1, r1)
<1>1. /\ R \in VM /\ v[R] \in Machine
      /\ Cardinality(RootsOf(v[R].calls)) = Cardinality(Acts(c, R))
  BY RunnerFacts
<1>2. v \in [VM -> Machine] /\ CppFits(c) /\ c \in Seq(Act)
  BY DEF Turns, CppFits
<1>3. PICK w : w = [v EXCEPT ![R] = e]
  OBVIOUS
<1>4. w \in [VM -> Machine] /\ w[R] = e /\ \A t \in VM : t # R => w[t] = v[t]
  BY <1>1, <1>2, <1>3
<1>5. PICK d \in Seq(Act) :
         /\ d = Append(c, a) /\ d # <<>> /\ d[Len(d)] = a /\ d[Len(c) + 1] = a
         /\ \A i \in 1 .. Len(c) : d[i] = c[i]
  <2>1. /\ Append(c, a) \in Seq(Act) /\ Append(c, a) # <<>>
        /\ Append(c, a)[Len(Append(c, a))] = a /\ Append(c, a)[Len(c) + 1] = a
        /\ \A i \in 1 .. Len(c) : Append(c, a)[i] = c[i]
    BY <1>2, AddedFacts
  <2>. QED
    BY <2>1
<1>6. Acts(d, R) # {} /\ Cardinality(Acts(d, R)) = Cardinality(Acts(c, R)) + 1
  BY <1>2, <1>5, ActGrows
<1>7. VMFits(e) /\ RunsOn(e, d, R)
  <2>1. R = d[Len(d)].vm /\ Cardinality(RootsOf(e.calls)) = Cardinality(Acts(d, R))
    BY <1>1, <1>5, <1>6
  <2>. QED
    BY <1>6, <2>1, ReadyRuns
<1>8. \A t \in VM : VMFits(w[t]) /\ RunsOn(w[t], d, t)
  <2>1. ASSUME NEW t \in VM PROVE VMFits(w[t]) /\ RunsOn(w[t], d, t)
    <3>1. CASE t = R
      BY <1>4, <1>7, <3>1
    <3>2. CASE t # R
      <4>1. Acts(d, t) = Acts(c, t)
        BY <1>2, <1>5, <3>2, ActsAdded
      <4>2. VMFits(v[t]) /\ RunsOn(v[t], c, t) /\ w[t] = v[t]
        BY <1>4, <3>2 DEF Turns
      <4>3. d[Len(d)].vm = c[Len(c)].vm
        BY <1>5
      <4>. QED
        BY <4>1, <4>2, <4>3 DEF RunsOn
    <3>. QED
      BY <3>1, <3>2
  <2>. QED
    BY <2>1
<1>9. CppFits(d)
  <2>1. ActFits(d, Len(c) + 1)
    <3>1. Len(c) \in 1 .. Len(c) /\ (Len(c) + 1) - 1 = Len(c) /\ Len(c) + 1 # 1
      BY <1>2, LastActs
    <3>. QED
      BY <1>5, <3>1 DEF ActFits
  <2>. QED
    BY <1>2, <1>5, <2>1, CppAdded
<1>10. md1 \in {"run", "raise"} /\ r1 \in Trouble /\ (md1 = "raise" => w[d[Len(d)].vm].err = r1)
  BY <1>4, <1>5 DEF Told
<1>. QED
  BY <1>3, <1>4, <1>5, <1>8, <1>9, <1>10 DEF Turns

\* A thread that did not run is called or woken.
LEMMA ThreadAct ==
    ASSUME NEW v, NEW c, NEW md, NEW r, NEW w \in Machine, NEW e \in Machine, NEW R, NEW t \in VM,
           NEW a \in Act, NEW md1, NEW r1,
           Turns(v, c, md, r), c # <<>>, R = c[Len(c)].vm, Acts(c, t) = {},
           InNative(w), w.susp = FALSE, RootsOf(w.calls) = RootsOf(v[R].calls),
           Ready(e), e.susp = FALSE, Cardinality(RootsOf(e.calls)) = 1, Told(e, md1, r1),
           a.vm = t, a.via \in {"call", "wakeup", "keep"}, a.params = IF a.via = "call" THEN 2 ELSE 0
    PROVE  Turns([v EXCEPT ![R] = w, ![t] = e], Append(c, a), md1, r1)
<1>1. /\ R \in VM /\ v[R] \in Machine
      /\ Cardinality(RootsOf(v[R].calls)) = Cardinality(Acts(c, R))
  BY RunnerFacts
<1>2. v \in [VM -> Machine] /\ CppFits(c) /\ c \in Seq(Act)
  BY DEF Turns, CppFits
<1>3. Acts(c, R) # {} /\ t # R
  BY <1>2, LastActs
<1>4. PICK u : u = [v EXCEPT ![R] = w, ![t] = e]
  OBVIOUS
<1>5. u \in [VM -> Machine] /\ u[R] = w /\ u[t] = e /\ \A s \in VM : s # R /\ s # t => u[s] = v[s]
  BY <1>1, <1>2, <1>3, <1>4
<1>6. PICK d \in Seq(Act) :
         /\ d = Append(c, a) /\ d # <<>> /\ d[Len(d)] = a /\ d[Len(c) + 1] = a
         /\ \A i \in 1 .. Len(c) : d[i] = c[i]
  <2>1. /\ Append(c, a) \in Seq(Act) /\ Append(c, a) # <<>>
        /\ Append(c, a)[Len(Append(c, a))] = a /\ Append(c, a)[Len(c) + 1] = a
        /\ \A i \in 1 .. Len(c) : Append(c, a)[i] = c[i]
    BY <1>2, AddedFacts
  <2>. QED
    BY <2>1
<1>7. VMFits(e) /\ RunsOn(e, d, t)
  <2>1. Acts(d, t) # {} /\ Cardinality(Acts(d, t)) = Cardinality(Acts(c, t)) + 1
    BY <1>2, <1>6, ActGrows
  <2>2. Cardinality(Acts(c, t)) = 0
    BY FS_EmptySet
  <2>3. t = d[Len(d)].vm /\ Cardinality(RootsOf(e.calls)) = Cardinality(Acts(d, t))
    BY <1>6, <2>1, <2>2
  <2>. QED
    BY <2>1, <2>3, ReadyRuns
<1>8. VMFits(w) /\ RunsOn(w, d, R)
  <2>1. Acts(d, R) = Acts(c, R)
    BY <1>2, <1>3, <1>6, ActsAdded
  <2>2. R # d[Len(d)].vm /\ Cardinality(RootsOf(w.calls)) = Cardinality(Acts(d, R))
    BY <1>1, <1>3, <1>6, <2>1
  <2>. QED
    BY <1>3, <2>1, <2>2, WaitingRuns
<1>9. \A s \in VM : VMFits(u[s]) /\ RunsOn(u[s], d, s)
  <2>1. ASSUME NEW s \in VM PROVE VMFits(u[s]) /\ RunsOn(u[s], d, s)
    <3>1. CASE s = R
      BY <1>5, <1>8, <3>1
    <3>2. CASE s = t
      BY <1>5, <1>7, <3>2
    <3>3. CASE s # R /\ s # t
      <4>1. Acts(d, s) = Acts(c, s)
        BY <1>2, <1>6, <3>3, ActsAdded
      <4>2. VMFits(v[s]) /\ RunsOn(v[s], c, s) /\ u[s] = v[s]
        BY <1>5, <3>3 DEF Turns
      <4>3. s # d[Len(d)].vm /\ s # c[Len(c)].vm
        BY <1>6, <3>3
      <4>. QED
        BY <4>1, <4>2, <4>3 DEF RunsOn
    <3>. QED
      BY <3>1, <3>2, <3>3
  <2>. QED
    BY <2>1
<1>10. CppFits(d)
  <2>1. ActFits(d, Len(c) + 1)
    <3>1. Len(c) \in 1 .. Len(c) /\ (Len(c) + 1) - 1 = Len(c) /\ Len(c) + 1 # 1
      BY <1>2, LastActs
    <3>2. \A j \in 1 .. Len(c) : c[j].vm # t
      BY <1>2 DEF Acts
    <3>3. \A j \in 1 .. Len(c) : d[j].vm # t
      BY <1>6, <3>2
    <3>. QED
      BY <1>6, <3>1, <3>3 DEF ActFits
  <2>. QED
    BY <1>2, <1>6, <2>1, CppAdded
<1>11. md1 \in {"run", "raise"} /\ r1 \in Trouble /\ (md1 = "raise" => u[d[Len(d)].vm].err = r1)
  BY <1>5, <1>6 DEF Told
<1>. QED
  BY <1>4, <1>5, <1>6, <1>9, <1>10, <1>11 DEF Turns

\* The host calls or wakes its VM.
LEMMA HostAct ==
    ASSUME NEW v, NEW md, NEW r, NEW e \in Machine, NEW a \in Act, NEW md1, NEW r1,
           Turns(v, <<>>, md, r), Ready(e), e.susp = FALSE, Cardinality(RootsOf(e.calls)) = 1,
           Told(e, md1, r1), a.vm = RootVM, a.via = "host"
    PROVE  Turns([v EXCEPT ![RootVM] = e], Append(<<>>, a), md1, r1)
<1>1. RootVM \in VM /\ <<>> \in Seq(Act)
  BY DEF VM
<1>2. v \in [VM -> Machine] /\ CppFits(<<>>)
  BY DEF Turns
<1>3. PICK u : u = [v EXCEPT ![RootVM] = e]
  OBVIOUS
<1>4. u \in [VM -> Machine] /\ u[RootVM] = e /\ \A s \in VM : s # RootVM => u[s] = v[s]
  BY <1>1, <1>2, <1>3
<1>5. PICK d \in Seq(Act) :
         d = Append(<<>>, a) /\ d # <<>> /\ d[Len(d)] = a /\ d[Len(<<>>) + 1] = a
  BY <1>1, AddedFacts
<1>6. \A s : Acts(<<>>, s) = {}
  BY DEF Acts
<1>7. VMFits(e) /\ RunsOn(e, d, RootVM)
  <2>1. /\ Acts(d, RootVM) # {}
        /\ Cardinality(Acts(d, RootVM)) = Cardinality(Acts(<<>>, RootVM)) + 1
    BY <1>1, <1>5, ActGrows
  <2>2. Cardinality(Acts(<<>>, RootVM)) = 0
    BY <1>6, FS_EmptySet
  <2>3. RootVM = d[Len(d)].vm /\ Cardinality(RootsOf(e.calls)) = Cardinality(Acts(d, RootVM))
    BY <1>5, <2>1, <2>2
  <2>. QED
    BY <2>1, <2>3, ReadyRuns
<1>8. \A s \in VM : VMFits(u[s]) /\ RunsOn(u[s], d, s)
  <2>1. ASSUME NEW s \in VM PROVE VMFits(u[s]) /\ RunsOn(u[s], d, s)
    <3>1. CASE s = RootVM
      BY <1>4, <1>7, <3>1
    <3>2. CASE s # RootVM
      <4>1. Acts(d, s) = Acts(<<>>, s)
        BY <1>1, <1>5, <3>2, ActsAdded
      <4>2. VMFits(v[s]) /\ RunsOn(v[s], <<>>, s) /\ u[s] = v[s]
        BY <1>4, <3>2 DEF Turns
      <4>. QED
        BY <1>6, <4>1, <4>2 DEF RunsOn
    <3>. QED
      BY <3>1, <3>2
  <2>. QED
    BY <2>1
<1>9. CppFits(d)
  <2>1. ActFits(d, Len(<<>>) + 1)
    <3>1. Len(<<>>) + 1 = 1
      OBVIOUS
    <3>. QED
      BY <1>5, <3>1 DEF ActFits
  <2>. QED
    BY <1>1, <1>2, <1>5, <2>1, CppAdded
<1>10. md1 \in {"run", "raise"} /\ r1 \in Trouble /\ (md1 = "raise" => u[d[Len(d)].vm].err = r1)
  BY <1>4, <1>5 DEF Told
<1>. QED
  BY <1>3, <1>4, <1>5, <1>8, <1>9, <1>10 DEF Turns

\* An activation that a native function made ends, and the function too.
LEMMA NativeActEnds ==
    ASSUME NEW v, NEW d \in Seq(Act), NEW a \in Act, NEW md, NEW r, NEW e \in Machine, NEW R,
           NEW md1, NEW r1,
           Turns(v, Append(d, a), md, r), R = a.vm, a.via = "native", Ready(e), e.susp = FALSE,
           Cardinality(RootsOf(v[R].calls)) = Cardinality(RootsOf(e.calls)) + 1, Told(e, md1, r1)
    PROVE  Turns([v EXCEPT ![R] = e], d, md1, r1) /\ d # <<>> /\ d[Len(d)].vm = R
<1>1. PICK c \in Seq(Act) :
         /\ c = Append(d, a) /\ c # <<>> /\ c[Len(c)] = a /\ c[Len(d) + 1] = a
         /\ \A i \in 1 .. Len(d) : c[i] = d[i]
  <2>1. /\ Append(d, a) \in Seq(Act) /\ Append(d, a) # <<>>
        /\ Append(d, a)[Len(Append(d, a))] = a /\ Append(d, a)[Len(d) + 1] = a
        /\ \A i \in 1 .. Len(d) : Append(d, a)[i] = d[i]
    BY AddedFacts
  <2>. QED
    BY <2>1
<1>2. /\ R \in VM /\ v[R] \in Machine /\ Turns(v, c, md, r)
      /\ Cardinality(RootsOf(v[R].calls)) = Cardinality(Acts(c, R))
  BY <1>1, RunnerFacts
<1>3. v \in [VM -> Machine] /\ CppFits(d) /\ ActFits(c, Len(d) + 1)
  BY <1>1, <1>2, CppAdded DEF Turns
<1>4. d # <<>> /\ d[Len(d)].vm = R
  <2>1. Len(d) + 1 # 1
    BY <1>1, <1>3 DEF ActFits
  <2>2. d # <<>>
    BY <2>1
  <2>3. Len(d) \in 1 .. Len(d) /\ (Len(d) + 1) - 1 = Len(d)
    BY <2>2, LastActs
  <2>4. c[Len(d)].vm = R
    BY <1>1, <1>3, <2>3 DEF ActFits
  <2>. QED
    BY <1>1, <2>2, <2>3, <2>4
<1>5. PICK w : w = [v EXCEPT ![R] = e]
  OBVIOUS
<1>6. w \in [VM -> Machine] /\ w[R] = e /\ \A t \in VM : t # R => w[t] = v[t]
  BY <1>2, <1>3, <1>5
<1>7. VMFits(e) /\ RunsOn(e, d, R)
  <2>1. Acts(d, R) # {}
    BY <1>4, LastActs
  <2>2. Cardinality(Acts(c, R)) = Cardinality(Acts(d, R)) + 1 /\ Cardinality(Acts(d, R)) \in Nat
    BY <1>1, ActGrows, ActsAdded
  <2>3. Cardinality(RootsOf(e.calls)) \in Nat
    BY MachineFacts, RootsFinite
  <2>4. Cardinality(RootsOf(e.calls)) = Cardinality(Acts(d, R))
    BY <1>2, <2>2, <2>3
  <2>. QED
    BY <1>4, <2>1, <2>4, ReadyRuns
<1>8. \A t \in VM : VMFits(w[t]) /\ RunsOn(w[t], d, t)
  <2>1. ASSUME NEW t \in VM PROVE VMFits(w[t]) /\ RunsOn(w[t], d, t)
    <3>1. CASE t = R
      BY <1>6, <1>7, <3>1
    <3>2. CASE t # R
      <4>1. Acts(c, t) = Acts(d, t)
        BY <1>1, <3>2, ActsAdded
      <4>2. VMFits(v[t]) /\ RunsOn(v[t], c, t) /\ w[t] = v[t]
        BY <1>2, <1>6, <3>2 DEF Turns
      <4>3. d[Len(d)].vm = c[Len(c)].vm
        BY <1>1, <1>4
      <4>. QED
        BY <4>1, <4>2, <4>3 DEF RunsOn
    <3>. QED
      BY <3>1, <3>2
  <2>. QED
    BY <2>1
<1>9. md1 \in {"run", "raise"} /\ r1 \in Trouble /\ (md1 = "raise" => w[d[Len(d)].vm].err = r1)
  BY <1>4, <1>6 DEF Told
<1>. QED
  BY <1>3, <1>4, <1>5, <1>6, <1>8, <1>9 DEF Turns

\* A thread goes back to the VM that waits for it.
LEMMA ThreadActEnds ==
    ASSUME NEW v, NEW d \in Seq(Act), NEW a \in Act, NEW md, NEW r, NEW e \in Machine, NEW w \in Machine,
           NEW t, NEW W, NEW md1, NEW r1,
           Turns(v, Append(d, a), md, r), t = a.vm, a.via \in {"call", "wakeup", "keep"},
           d # <<>>, W = d[Len(d)].vm, IsIdle(e) \/ IsAsleep(e), Ready(w), w.susp = FALSE,
           RootsOf(w.calls) = RootsOf(v[W].calls), Told(w, md1, r1)
    PROVE  Turns([v EXCEPT ![t] = e, ![W] = w], d, md1, r1)
<1>1. PICK c \in Seq(Act) :
         /\ c = Append(d, a) /\ c # <<>> /\ c[Len(c)] = a /\ c[Len(d) + 1] = a
         /\ \A i \in 1 .. Len(d) : c[i] = d[i]
  <2>1. /\ Append(d, a) \in Seq(Act) /\ Append(d, a) # <<>>
        /\ Append(d, a)[Len(Append(d, a))] = a /\ Append(d, a)[Len(d) + 1] = a
        /\ \A i \in 1 .. Len(d) : Append(d, a)[i] = d[i]
    BY AddedFacts
  <2>. QED
    BY <2>1
<1>2. t \in VM /\ Turns(v, c, md, r)
  BY <1>1 DEF Act
<1>3. v \in [VM -> Machine] /\ CppFits(d) /\ ActFits(c, Len(d) + 1)
  BY <1>1, <1>2, CppAdded DEF Turns
<1>4. Len(d) \in 1 .. Len(d) /\ Len(d) \in Acts(d, W) /\ W \in VM
  <2>1. Len(d) \in 1 .. Len(d) /\ d[Len(d)] \in Act /\ Len(d) \in Acts(d, W)
    BY LastActs
  <2>. QED
    BY <2>1 DEF Act
<1>5. Acts(d, t) = {} /\ W # t
  <2>1. \A j \in 1 .. (Len(d) + 1) - 1 : c[j].vm # t
    BY <1>1, <1>3 DEF ActFits
  <2>2. (Len(d) + 1) - 1 = Len(d)
    OBVIOUS
  <2>3. \A j \in 1 .. Len(d) : d[j].vm # t
    BY <1>1, <2>1, <2>2
  <2>. QED
    BY <1>4, <2>3 DEF Acts
<1>6. PICK u : u = [v EXCEPT ![t] = e, ![W] = w]
  OBVIOUS
<1>7. u \in [VM -> Machine] /\ u[t] = e /\ u[W] = w /\ \A s \in VM : s # t /\ s # W => u[s] = v[s]
  BY <1>2, <1>3, <1>4, <1>5, <1>6
<1>8. VMFits(e) /\ RunsOn(e, d, t)
  BY <1>5, RestingRuns
<1>9. Acts(c, W) = Acts(d, W)
  BY <1>1, <1>5, ActsAdded
<1>10. VMFits(w) /\ RunsOn(w, d, W)
  <2>1. RunsOn(v[W], c, W) /\ Acts(c, W) # {}
    BY <1>2, <1>4, <1>9 DEF Turns
  <2>2. Cardinality(RootsOf(v[W].calls)) = Cardinality(Acts(c, W))
    BY <2>1 DEF RunsOn
  <2>3. Acts(d, W) # {} /\ Cardinality(RootsOf(w.calls)) = Cardinality(Acts(d, W))
    BY <1>9, <2>1, <2>2
  <2>. QED
    BY <2>3, ReadyRuns
<1>11. \A s \in VM : VMFits(u[s]) /\ RunsOn(u[s], d, s)
  <2>1. ASSUME NEW s \in VM PROVE VMFits(u[s]) /\ RunsOn(u[s], d, s)
    <3>1. CASE s = t
      BY <1>7, <1>8, <3>1
    <3>2. CASE s = W
      BY <1>7, <1>10, <3>2
    <3>3. CASE s # t /\ s # W
      <4>1. Acts(c, s) = Acts(d, s)
        BY <1>1, <3>3, ActsAdded
      <4>2. VMFits(v[s]) /\ RunsOn(v[s], c, s) /\ u[s] = v[s]
        BY <1>2, <1>7, <3>3 DEF Turns
      <4>3. s # d[Len(d)].vm /\ s # c[Len(c)].vm
        BY <1>1, <3>3
      <4>. QED
        BY <4>1, <4>2, <4>3 DEF RunsOn
    <3>. QED
      BY <3>1, <3>2, <3>3
  <2>. QED
    BY <2>1
<1>12. md1 \in {"run", "raise"} /\ r1 \in Trouble /\ (md1 = "raise" => u[d[Len(d)].vm].err = r1)
  BY <1>7 DEF Told
<1>. QED
  BY <1>3, <1>6, <1>7, <1>11, <1>12 DEF Turns

\* The host gets control back.
LEMMA HostActEnds ==
    ASSUME NEW v, NEW d \in Seq(Act), NEW a \in Act, NEW md, NEW r, NEW e \in Machine, NEW t, NEW r1,
           Turns(v, Append(d, a), md, r), t = a.vm, a.via = "host", IsIdle(e) \/ IsAsleep(e),
           r1 \in Trouble
    PROVE  Turns([v EXCEPT ![t] = e], d, "run", r1) /\ t = RootVM /\ d = <<>>
<1>1. PICK c \in Seq(Act) :
         /\ c = Append(d, a) /\ c # <<>> /\ c[Len(c)] = a /\ c[Len(d) + 1] = a
         /\ \A i \in 1 .. Len(d) : c[i] = d[i]
  <2>1. /\ Append(d, a) \in Seq(Act) /\ Append(d, a) # <<>>
        /\ Append(d, a)[Len(Append(d, a))] = a /\ Append(d, a)[Len(d) + 1] = a
        /\ \A i \in 1 .. Len(d) : Append(d, a)[i] = d[i]
    BY AddedFacts
  <2>. QED
    BY <2>1
<1>2. t \in VM /\ Turns(v, c, md, r)
  BY <1>1 DEF Act
<1>3. v \in [VM -> Machine] /\ CppFits(d) /\ ActFits(c, Len(d) + 1)
  BY <1>1, <1>2, CppAdded DEF Turns
<1>4. d = <<>> /\ t = RootVM
  <2>1. Len(d) + 1 = 1
    BY <1>1, <1>3 DEF ActFits
  <2>. QED
    BY <1>1, <1>3, <2>1 DEF ActFits
<1>5. \A s : Acts(d, s) = {}
  BY <1>4 DEF Acts
<1>6. PICK u : u = [v EXCEPT ![t] = e]
  OBVIOUS
<1>7. u \in [VM -> Machine] /\ u[t] = e /\ \A s \in VM : s # t => u[s] = v[s]
  BY <1>2, <1>3, <1>6
<1>8. VMFits(e) /\ RunsOn(e, d, t)
  BY <1>5, RestingRuns
<1>9. \A s \in VM : VMFits(u[s]) /\ RunsOn(u[s], d, s)
  <2>1. ASSUME NEW s \in VM PROVE VMFits(u[s]) /\ RunsOn(u[s], d, s)
    <3>1. CASE s = t
      BY <1>7, <1>8, <3>1
    <3>2. CASE s # t
      <4>1. Acts(c, s) = Acts(d, s)
        BY <1>1, <3>2, ActsAdded
      <4>2. VMFits(v[s]) /\ RunsOn(v[s], c, s) /\ u[s] = v[s]
        BY <1>2, <1>7, <3>2 DEF Turns
      <4>. QED
        BY <1>5, <4>1, <4>2 DEF RunsOn
    <3>. QED
      BY <3>1, <3>2
  <2>. QED
    BY <2>1
<1>. QED
  BY <1>3, <1>4, <1>6, <1>7, <1>9 DEF Turns

LEMMA SeveralIsMore == \A n \in Nat : n >= 1 /\ n # 1 => n > 1
OBVIOUS

\* A root frame on top is the first frame, unless a native function called it.
LEMMA RootIndex ==
    ASSUME NEW v, NEW d \in Seq(Act), NEW a \in Act, NEW md, NEW r, NEW m,
           Turns(v, Append(d, a), md, r), m = v[a.vm], m.calls[Len(m.calls)].root = TRUE
    PROVE  /\ a.via = "native" => Len(m.calls) > 1
           /\ a.via # "native" => Len(m.calls) = 1
<1>1. PICK c \in Seq(Act) :
         /\ c = Append(d, a) /\ c # <<>> /\ c[Len(c)] = a /\ c[Len(d) + 1] = a
         /\ \A i \in 1 .. Len(d) : c[i] = d[i]
  <2>1. /\ Append(d, a) \in Seq(Act) /\ Append(d, a) # <<>>
        /\ Append(d, a)[Len(Append(d, a))] = a /\ Append(d, a)[Len(d) + 1] = a
        /\ \A i \in 1 .. Len(d) : Append(d, a)[i] = d[i]
    BY AddedFacts
  <2>. QED
    BY <2>1
<1>2. PICK R : R = a.vm
  OBVIOUS
<1>3. /\ R \in VM /\ m \in Machine /\ Ready(m) /\ Turns(v, c, md, r)
      /\ Cardinality(RootsOf(m.calls)) = Cardinality(Acts(c, R))
  <2>1. Turns(v, c, md, r) /\ c # <<>>
    BY <1>1
  <2>2. /\ c[Len(c)].vm \in VM /\ v[c[Len(c)].vm] \in Machine /\ Ready(v[c[Len(c)].vm])
        /\ Cardinality(RootsOf(v[c[Len(c)].vm].calls)) = Cardinality(Acts(c, c[Len(c)].vm))
    BY ONLY <2>1, RunnerFacts
  <2>3. c[Len(c)].vm = R /\ v[R] = m
    BY <1>1, <1>2
  <2>. QED
    BY <2>1, <2>2, <2>3
<1>4. ActFits(c, Len(d) + 1)
  BY <1>1, <1>3, CppAdded DEF Turns
<1>5. /\ Cardinality(Acts(c, R)) = Cardinality(Acts(d, R)) + 1 /\ Cardinality(Acts(d, R)) \in Nat
      /\ IsFiniteSet(Acts(d, R))
  BY <1>1, <1>2, ActGrows, ActsAdded
<1>6. PICK n \in Nat : n = Len(m.calls) /\ n >= 1 /\ DOMAIN m.calls = 1 .. n
  <2>1. Len(m.calls) >= 1
    BY <1>3 DEF Ready, Frames
  <2>. QED
    BY <1>3, <2>1, MachineFacts, LenProperties
<1>7. 1 \in RootsOf(m.calls) /\ n \in RootsOf(m.calls) /\ RootsOf(m.calls) \subseteq 1 .. n
  <2>1. m.calls[1].root = TRUE
    BY <1>3 DEF Ready, Frames, FirstFits
  <2>. QED
    BY <1>6, <2>1 DEF RootsOf
<1>8. CASE a.via = "native"
  <2>1. Len(d) + 1 # 1
    BY <1>1, <1>4, <1>8 DEF ActFits
  <2>2. d # <<>>
    BY <2>1
  <2>3. Len(d) \in 1 .. Len(d) /\ (Len(d) + 1) - 1 = Len(d)
    BY <2>2, LastActs
  <2>4. d[Len(d)].vm = R
    BY <1>1, <1>2, <1>4, <1>8, <2>3 DEF ActFits
  <2>5. Acts(d, R) # {}
    BY <2>2, <2>4, LastActs
  <2>6. Cardinality(Acts(d, R)) # 0
    BY <1>5, <2>5, FS_EmptySet
  <2>7. n # 1
    <3>1. SUFFICES ASSUME n = 1 PROVE FALSE
      OBVIOUS
    <3>2. RootsOf(m.calls) = {1}
      BY <1>7, <3>1
    <3>3. Cardinality(RootsOf(m.calls)) = 1
      BY <3>2, FS_Singleton
    <3>. QED
      BY <1>3, <1>5, <2>6, <3>3
  <2>8. Len(m.calls) > 1
    <3>1. n > 1
      BY <1>6, <2>7, SeveralIsMore
    <3>. QED
      BY ONLY <1>6, <3>1
  <2>. QED
    BY <1>8, <2>8
<1>9. CASE a.via # "native"
  <2>1. a.via \in {"host", "call", "wakeup", "keep"}
    BY <1>9 DEF Act
  <2>2. Acts(d, R) = {}
    <3>1. CASE a.via = "host"
      <4>1. Len(d) + 1 = 1
        BY <1>1, <1>4, <3>1 DEF ActFits
      <4>2. DOMAIN d = 1 .. 0
        BY <4>1
      <4>. QED
        BY <4>2 DEF Acts
    <3>2. CASE a.via # "host"
      <4>1. \A j \in 1 .. (Len(d) + 1) - 1 : c[j].vm # R
        BY <1>1, <1>2, <1>4, <2>1, <3>2 DEF ActFits
      <4>2. (Len(d) + 1) - 1 = Len(d)
        OBVIOUS
      <4>3. \A j \in 1 .. Len(d) : d[j].vm # R
        BY <1>1, <4>1, <4>2
      <4>. QED
        BY <4>3 DEF Acts
    <3>. QED
      BY <3>1, <3>2
  <2>3. Cardinality(RootsOf(m.calls)) = 1
    BY <1>3, <1>5, <2>2, FS_EmptySet
  <2>4. PICK x : RootsOf(m.calls) = {x}
    <3>1. m.calls \in Seq(Frame)
      BY <1>3, MachineFacts
    <3>. QED
      BY <2>3, <3>1, RootsFinite, FS_Singleton
  <2>5. n = 1
    BY <1>7, <2>4
  <2>. QED
    BY <1>6, <1>9, <2>5
<1>. QED
  BY <1>8, <1>9

\* A VM that is asleep has one root frame.
LEMMA AsleepRoots ==
    ASSUME NEW m \in Machine, IsAsleep(m)
    PROVE  Cardinality(RootsOf(m.calls)) = 1 /\ m.calls # <<>>
<1>1. PICK n \in Nat : n = Len(m.calls) /\ n >= 1 /\ DOMAIN m.calls = 1 .. n
  <2>1. Len(m.calls) >= 1
    BY DEF IsAsleep, Ready, Frames
  <2>. QED
    BY <2>1, MachineFacts, LenProperties
<1>2. Frames(m) /\ \A i \in 1 .. n : m.calls[i].kind = "script"
  BY <1>1 DEF IsAsleep, Ready
<1>3. m.calls[1].root = TRUE
  BY <1>2 DEF Frames, FirstFits
<1>4. ASSUME NEW i \in 2 .. n PROVE m.calls[i].root = FALSE
  <2>1. i - 1 \in 1 .. n /\ NextFits(m, i)
    BY <1>1, <1>2 DEF Frames
  <2>. QED
    BY <1>2, <2>1 DEF NextFits
<1>5. RootsOf(m.calls) = {1}
  <2>1. \A i \in 1 .. n : i = 1 \/ i \in 2 .. n
    OBVIOUS
  <2>2. \A i \in 2 .. n : m.calls[i].root # TRUE
    BY <1>4
  <2>3. 1 \in 1 .. n
    BY <1>1
  <2>. QED
    BY <1>1, <1>3, <2>1, <2>2, <2>3 DEF RootsOf
<1>6. m.calls # <<>>
  BY <1>1
<1>. QED
  BY <1>5, <1>6, FS_Singleton

----------------------------------------------------------------------------
(* Threads: every action keeps the invariant.                              *)

TurnsInv == Turns(vm, cpp, mode, raised)

LEMMA RunnerIsReady ==
    ASSUME TurnsInv, cpp # <<>>
    PROVE  /\ Runner = cpp[Len(cpp)].vm /\ Runner \in VM /\ vm[Runner] \in Machine /\ Ready(vm[Runner])
           /\ vm[Runner].susp = FALSE /\ Last(cpp) \in Act /\ cpp \in Seq(Act) /\ vm \in [VM -> Machine]
           /\ raised \in Trouble /\ (mode = "raise" => vm[Runner].err = raised)
<1>1. Runner = cpp[Len(cpp)].vm /\ Last(cpp) = cpp[Len(cpp)]
  BY DEF Runner, Last
<1>2. Turns(vm, cpp, mode, raised)
  BY DEF TurnsInv
<1>3. /\ cpp[Len(cpp)].vm \in VM /\ vm[cpp[Len(cpp)].vm] \in Machine /\ Ready(vm[cpp[Len(cpp)].vm])
      /\ vm[cpp[Len(cpp)].vm].susp = FALSE /\ cpp[Len(cpp)] \in Act
  BY <1>2, RunnerFacts
<1>4. cpp \in Seq(Act) /\ vm \in [VM -> Machine]
  BY <1>2 DEF Turns, CppFits
<1>5. raised \in Trouble /\ (mode = "raise" => vm[cpp[Len(cpp)].vm].err = raised)
  BY <1>2 DEF Turns
<1>. QED
  BY <1>1, <1>3, <1>4, <1>5

\* The VM that runs becomes e.
LEMMA RunnerSteps ==
    ASSUME TurnsInv, cpp # <<>>, NEW e \in Machine, Ready(e), e.susp = FALSE,
           RootsOf(e.calls) = RootsOf(vm[Runner].calls), Told(e, mode, raised)',
           vm' = [vm EXCEPT ![Runner] = e], UNCHANGED cpp
    PROVE  TurnsInv'
<1>1. PICK md1, r1 : md1 = mode' /\ r1 = raised'
  OBVIOUS
<1>2. Told(e, md1, r1)
  BY <1>1 DEF Told
<1>3. Runner = cpp[Len(cpp)].vm
  BY RunnerIsReady
<1>4. Turns([vm EXCEPT ![Runner] = e], cpp, md1, r1)
  BY <1>2, <1>3, LocalStep DEF TurnsInv
<1>. QED
  BY <1>1, <1>4 DEF TurnsInv, Turns, VMFits, RunsOn

LEMMA ReadyIsMore ==
    ASSUME NEW m \in Machine, Ready(m)
    PROVE  /\ Len(m.calls) >= 1 /\ Last(m.calls) = m.calls[Len(m.calls)] /\ m.calls # <<>>
           /\ Last(m.calls) \in Frame
           /\ Last(m.calls).root # TRUE => Last(m.calls).root = FALSE /\ Len(m.calls) > 1
<1>1. Len(m.calls) >= 1 /\ Len(m.calls) \in Nat
  BY MachineFacts DEF Ready, Frames
<1>2. Last(m.calls) = m.calls[Len(m.calls)] /\ m.calls # <<>>
  BY <1>1 DEF Last
<1>3. Last(m.calls) \in Frame
  <2>1. Len(m.calls) \in 1 .. Len(m.calls)
    BY <1>1
  <2>. QED
    BY <1>2, <2>1, MachineFacts
<1>4. ASSUME Last(m.calls).root # TRUE PROVE Last(m.calls).root = FALSE /\ Len(m.calls) > 1
  <2>1. m.calls[1].root = TRUE
    BY DEF Ready, Frames, FirstFits
  <2>2. Len(m.calls) # 1
    BY <1>2, <1>4, <2>1
  <2>3. Last(m.calls).root \in BOOLEAN
    BY <1>3 DEF Frame
  <2>. QED
    BY <1>1, <1>4, <2>2, <2>3, SeveralIsMore
<1>. QED
  BY <1>1, <1>2, <1>3, <1>4

LEMMA ScriptCallTurns ==
    ASSUME TurnsInv, NEW x \in Arg, ScriptCall(x)
    PROVE  TurnsInv'
<1>1. PICK m : m = vm[Runner]
  OBVIOUS
<1>2. cpp # <<>> /\ mode = "run" /\ UNCHANGED <<cpp, mode, raised>>
  BY DEF ScriptCall, Runs
<1>3. m \in Machine /\ Ready(m) /\ m.susp = FALSE /\ raised \in Trouble
  BY <1>1, <1>2, RunnerIsReady
<1>4. vm' = [vm EXCEPT ![Runner] = ScriptCallOf(vm[Runner], x)]
  BY DEF ScriptCall, ScriptCallOf, Forgetting
<1>5. PICK e : e = ScriptCallOf(m, x)
  OBVIOUS
<1>6. Ready(e) /\ SameRun(e, m) /\ RootsOf(e.calls) = RootsOf(m.calls)
  BY <1>3, <1>5, ScriptCalled DEF Datum
<1>7. e \in Machine /\ e.susp = FALSE
  BY <1>3, <1>6 DEF Ready, Frames, SameRun
<1>8. Told(e, mode, raised)'
  BY <1>2, <1>3 DEF Told
<1>. QED
  BY <1>1, <1>2, <1>4, <1>5, <1>6, <1>7, <1>8, RunnerSteps

LEMMA ThrowTurns ==
    ASSUME TurnsInv, NEW x \in Trouble, cpp # <<>>, Raise(Runner, vm[Runner], x)
    PROVE  TurnsInv'
<1>1. PICK m, e : m = vm[Runner] /\ e = [m EXCEPT !.err = x]
  OBVIOUS
<1>2. m \in Machine /\ Ready(m) /\ m.susp = FALSE
  BY <1>1, RunnerIsReady
<1>3. /\ e \in Machine /\ e.stack = m.stack /\ e.base = m.base /\ e.calls = m.calls /\ e.susp = m.susp
      /\ e.err = x
  BY <1>1, <1>2, ErrChanged
<1>4. Ready(e)
  BY <1>2, <1>3, SameFrames
<1>5. vm' = [vm EXCEPT ![Runner] = e] /\ mode' = "raise" /\ raised' = x /\ UNCHANGED cpp
  BY <1>1 DEF Raise
<1>6. Told(e, mode, raised)'
  BY <1>3, <1>5 DEF Told
<1>. QED
  BY <1>1, <1>2, <1>3, <1>4, <1>5, <1>6, RunnerSteps

LEMMA CatchTurns ==
    ASSUME TurnsInv, Catch
    PROVE  TurnsInv'
<1>1. cpp # <<>>
  BY DEF Catch, TurnsInv, Turns
<1>2. PICK m, e : m = vm[Runner] /\ e = [m EXCEPT !.err = OT_NULL]
  OBVIOUS
<1>3. m \in Machine /\ Ready(m) /\ m.susp = FALSE /\ vm \in [VM -> Machine] /\ Runner \in VM
  BY <1>1, <1>2, RunnerIsReady
<1>4. OT_NULL \in Trouble
  BY DEF Trouble, Datum
<1>5. /\ e \in Machine /\ e.stack = m.stack /\ e.base = m.base /\ e.calls = m.calls /\ e.susp = m.susp
  BY <1>2, <1>3, <1>4, ErrChanged
<1>6. Ready(e)
  BY <1>3, <1>5, SameFrames
<1>7. vm' = [vm EXCEPT ![Runner] = e] /\ mode' = "run" /\ raised' = OT_NULL /\ UNCHANGED cpp
  BY <1>2 DEF Catch
<1>8. Told(e, mode, raised)'
  BY <1>4, <1>7 DEF Told
<1>. QED
  BY <1>1, <1>2, <1>3, <1>5, <1>6, <1>7, <1>8, RunnerSteps

\* A new activation, of t.
LEMMA ActivatedFacts ==
    ASSUME NEW t \in VM, NEW via \in {"host", "native", "call", "wakeup", "keep"}, NEW params \in {0, 2}
    PROVE  Activated(t, via, params) =>
              \E a \in Act : a.vm = t /\ a.via = via /\ a.params = params /\ cpp' = Append(cpp, a)
<1>1. PICK a : a = [vm |-> t, via |-> via, params |-> params]
  OBVIOUS
<1>2. a \in Act /\ a.vm = t /\ a.via = via /\ a.params = params
  BY <1>1 DEF Act
<1>3. Activated(t, via, params) => cpp' = Append(cpp, a)
  BY <1>1 DEF Activated
<1>. QED
  BY <1>2, <1>3

LEMMA NativeCallsTurns ==
    ASSUME TurnsInv, NEW x \in Arg, NativeCalls(x)
    PROVE  TurnsInv'
<1>1. PICK m, w, e : m = vm[Runner] /\ w = EnterNative(m, <<RootTable>>) /\ e = NativeCallOf(w, x)
  OBVIOUS
<1>2. cpp # <<>> /\ mode = "run" /\ UNCHANGED <<mode, raised>> /\ Activated(Runner, "native", 2)
  BY DEF NativeCalls, Runs
<1>3. m \in Machine /\ Ready(m) /\ m.susp = FALSE /\ raised \in Trouble /\ Runner \in VM
  BY <1>1, <1>2, RunnerIsReady
<1>4. /\ InNative(w) /\ Len(w.stack) = w.base + 1 /\ RootsOf(w.calls) = RootsOf(m.calls)
      /\ w.susp = FALSE
  <2>1. PICK args : args = <<RootTable>>
    OBVIOUS
  <2>2. args \in Seq(Datum) /\ Len(args) = 1
    BY <2>1 DEF Datum
  <2>3. Len(args) >= 1 /\ w = EnterNative(m, args)
    BY <1>1, <2>1, <2>2
  <2>4. /\ InNative(w) /\ w.base = Len(m.stack) /\ Len(w.stack) = Len(m.stack) + Len(args)
        /\ RootsOf(w.calls) = RootsOf(m.calls) /\ w.susp = m.susp
    BY <1>3, <2>2, <2>3, NativeEntered
  <2>. QED
    BY <1>3, <2>2, <2>4
<1>5. /\ Ready(e) /\ SameRun(e, w)
      /\ Cardinality(RootsOf(e.calls)) = Cardinality(RootsOf(m.calls)) + 1
  <2>1. w \in Machine /\ x \in Datum
    BY <1>4 DEF InNative, Frames, Datum
  <2>. QED
    BY <1>1, <1>4, <2>1, NativeCalled
<1>6. e \in Machine /\ e.susp = FALSE
  BY <1>4, <1>5 DEF Ready, Frames, SameRun
<1>7. PICK a \in Act : a.vm = Runner /\ a.via = "native" /\ a.params = 2 /\ cpp' = Append(cpp, a)
  BY <1>2, <1>3, ActivatedFacts
<1>8. vm' = [vm EXCEPT ![Runner] = e]
  <2>1. vm' = [vm EXCEPT ![Runner] = NativeCallOf(EnterNative(vm[Runner], <<RootTable>>), x)]
    BY DEF NativeCalls, NativeCallOf
  <2>. QED
    BY <1>1, <2>1
<1>9. Told(e, mode, raised)
  BY <1>2, <1>3 DEF Told
<1>10. Runner = cpp[Len(cpp)].vm
  BY <1>2, RunnerIsReady
<1>11. Turns([vm EXCEPT ![Runner] = e], Append(cpp, a), mode, raised)
  BY <1>1, <1>2, <1>5, <1>6, <1>7, <1>9, <1>10, NativeAct DEF TurnsInv
<1>. QED
  BY <1>2, <1>7, <1>8, <1>11 DEF TurnsInv, Turns, VMFits, RunsOn

\* The activation on top, and the ones below.
LEMMA TopActivation ==
    ASSUME NEW c \in Seq(Act), c # <<>>
    PROVE  /\ Front(c) \in Seq(Act) /\ Last(c) \in Act /\ c = Append(Front(c), Last(c))
           /\ Front(c) # <<>> => c[Len(c) - 1] = Front(c)[Len(Front(c))]
<1>1. PICK n \in Nat : n = Len(c) - 1 /\ Len(c) = n + 1 /\ n \in 0 .. Len(c)
  <2>1. Len(c) \in Nat /\ Len(c) >= 1
    BY LastActs
  <2>2. Len(c) - 1 \in Nat /\ Len(c) = (Len(c) - 1) + 1 /\ Len(c) - 1 \in 0 .. Len(c)
    BY <2>1
  <2>. QED
    BY <2>2
<1>2. PICK d : d = Front(c)
  OBVIOUS
<1>3. d = SubSeq(c, 1, n)
  BY <1>1, <1>2 DEF Front
<1>4. d \in Seq(Act) /\ Len(d) = n /\ \A k \in 1 .. n : d[k] = c[k]
  BY <1>1, <1>3, StackPrefix
<1>5. Last(c) = c[n + 1] /\ Last(c) \in Act
  <2>1. n + 1 \in 1 .. Len(c)
    BY <1>1
  <2>. QED
    BY <1>1, <2>1 DEF Last
<1>6. c = Append(d, Last(c))
  <2>1. PICK e : e = Append(d, Last(c))
    OBVIOUS
  <2>2. e \in Seq(Act) /\ Len(e) = n + 1 /\ e[n + 1] = c[n + 1] /\ \A k \in 1 .. n : e[k] = c[k]
    BY <1>4, <1>5, <2>1, AppendProperties
  <2>3. \A k \in 1 .. n + 1 : e[k] = c[k]
    <3>1. \A k \in 1 .. n + 1 : k = n + 1 \/ k \in 1 .. n
      OBVIOUS
    <3>. QED
      BY <2>2, <3>1
  <2>4. e = c
    BY <1>1, <2>2, <2>3, SeqEqual
  <2>. QED
    BY <2>1, <2>4
<1>7. ASSUME d # <<>> PROVE c[Len(c) - 1] = d[Len(d)]
  <2>1. n \in 1 .. n
    BY <1>4, <1>7, EmptySeq
  <2>. QED
    BY <1>1, <1>4, <2>1
<1>. QED
  BY <1>2, <1>4, <1>5, <1>6, <1>7

\* The VM that called or woke up the one that runs.
LEMMA WaiterFacts ==
    ASSUME NEW v, NEW d \in Seq(Act), NEW a \in Act, NEW md, NEW r,
           Turns(v, Append(d, a), md, r), a.via \in {"call", "wakeup", "keep"}
    PROVE  /\ d # <<>> /\ d[Len(d)].vm # a.vm /\ d[Len(d)].vm \in VM
           /\ v[d[Len(d)].vm] \in Machine /\ InNative(v[d[Len(d)].vm]) /\ v[d[Len(d)].vm].susp = FALSE
<1>1. PICK c \in Seq(Act) :
         /\ c = Append(d, a) /\ c[Len(c)] = a /\ c[Len(d) + 1] = a
         /\ \A i \in 1 .. Len(d) : c[i] = d[i]
  <2>1. /\ Append(d, a) \in Seq(Act)
        /\ Append(d, a)[Len(Append(d, a))] = a /\ Append(d, a)[Len(d) + 1] = a
        /\ \A i \in 1 .. Len(d) : Append(d, a)[i] = d[i]
    BY AddedFacts
  <2>. QED
    BY <2>1
<1>2. ActFits(c, Len(d) + 1)
  BY <1>1, CppAdded DEF Turns
<1>3. Len(d) + 1 # 1
  BY <1>1, <1>2 DEF ActFits
<1>4. d # <<>>
  BY <1>3
<1>5. PICK W : W = d[Len(d)].vm
  OBVIOUS
<1>6. Len(d) \in 1 .. Len(d) /\ d[Len(d)] \in Act
  BY <1>4, LastActs
<1>7. W \in VM /\ c[Len(d)].vm = W
  BY <1>1, <1>5, <1>6 DEF Act
<1>8. W # a.vm
  <2>1. \A j \in 1 .. (Len(d) + 1) - 1 : c[j].vm # a.vm
    BY <1>1, <1>2 DEF ActFits
  <2>2. (Len(d) + 1) - 1 = Len(d)
    OBVIOUS
  <2>. QED
    BY <1>6, <1>7, <2>1, <2>2
<1>9. Acts(c, W) # {}
  <2>1. DOMAIN c = 1 .. Len(d) + 1
    BY <1>1, AddedFacts, LenProperties
  <2>2. Len(d) \in DOMAIN c
    BY <1>6, <2>1
  <2>. QED
    BY <1>7, <2>2 DEF Acts
<1>10. v[W] \in Machine /\ RunsOn(v[W], c, W)
  BY <1>1, <1>7 DEF Turns
<1>11. InNative(v[W]) /\ v[W].susp = FALSE
  BY <1>1, <1>8, <1>9, <1>10 DEF RunsOn
<1>. QED
  BY <1>4, <1>5, <1>7, <1>8, <1>10, <1>11

LEMMA PushedUp ==
    ASSUME NEW q \in Machine, NEW x \in Datum
    PROVE  Push(q, x) \in Machine /\ GetUp(Push(q, x)) = x
<1>1. x \in Slots
  BY OnStack
<1>2. /\ Push(q, x) \in Machine /\ Len(Push(q, x).stack) = Len(q.stack) + 1
      /\ Push(q, x).stack[Len(q.stack) + 1] = x
  BY <1>1, PushFacts DEF KeepsFrames
<1>. QED
  BY <1>2 DEF GetUp, Last

\* m is the VM that ran, when its activation by ends with x; old is it before.
Ending(m, old, by, x) ==
    /\ m \in Machine /\ Remaining(m, by) \in Machine
    /\ by.via = "native" =>
          /\ InNative(m) /\ m.susp = FALSE /\ Len(m.stack) = m.base + 4
          /\ Cardinality(RootsOf(old.calls)) = Cardinality(RootsOf(m.calls)) + 1
    /\ by.via # "native" =>
          \/ IsIdle(Popped(Push(Remaining(m, by), x), by))
          \/ IsAsleep(Popped(Push(Remaining(m, by), x), by))

LEMMA SucceedsTurns ==
    ASSUME TurnsInv, cpp # <<>>, NEW m, NEW x \in Datum, Succeeds(m, x), raised' = raised,
           Ending(m, vm[Runner], Last(cpp), x)
    PROVE  TurnsInv'
<1>1. PICK d \in Seq(Act), a \in Act : d = Front(cpp) /\ a = Last(cpp) /\ cpp = Append(d, a)
  BY TopActivation, RunnerIsReady
<1>2. PICK R, q : R = Runner /\ q = Push(Remaining(m, a), x)
  OBVIOUS
<1>3. R = a.vm /\ raised \in Trouble
  BY <1>1, <1>2, RunnerIsReady DEF Runner
<1>4. m \in Machine /\ Remaining(m, a) \in Machine /\ GetUp(q) = x
  BY <1>1, <1>2, PushedUp DEF Ending
<1>5. mode' = "run" /\ cpp' = d
  BY <1>1 DEF Succeeds
<1>6. Turns(vm, Append(d, a), mode, raised)
  BY <1>1 DEF TurnsInv
<1>7. CASE a.via = "host"
  <2>1. PICK e : e = Popped(q, a)
    OBVIOUS
  <2>2. IsIdle(e) \/ IsAsleep(e)
    BY <1>1, <1>2, <1>7, <2>1 DEF Ending
  <2>3. e \in Machine
    BY <2>2 DEF IsIdle, IsAsleep, Ready, Frames
  <2>4. vm' = [vm EXCEPT ![R] = e]
    BY <1>1, <1>2, <1>3, <1>7, <2>1 DEF Succeeds, Remaining
  <2>5. Turns([vm EXCEPT ![R] = e], d, "run", raised)
    BY <1>3, <1>6, <1>7, <2>2, <2>3, HostActEnds
  <2>. QED
    BY <1>5, <2>4, <2>5 DEF TurnsInv
<1>8. CASE a.via = "native"
  <2>1. PICK n, e : n = Remaining(m, a) /\ e = Given(NativeReturns(q, GetUp(q)), x)
    OBVIOUS
  <2>2. /\ InNative(m) /\ m.susp = FALSE /\ Len(m.stack) = m.base + 4
        /\ Cardinality(RootsOf(vm[R].calls)) = Cardinality(RootsOf(m.calls)) + 1
    BY <1>1, <1>2, <1>8 DEF Ending
  <2>3. a.params = 2
    <3>1. ActFits(Append(d, a), Len(d) + 1) /\ Append(d, a)[Len(d) + 1] = a
      BY <1>6, CppAdded, AddedFacts DEF Turns
    <3>. QED
      BY <1>8, <3>1 DEF ActFits
  <2>4. n = Pop(m, 2)
    BY <2>1, <2>2, <2>3 DEF Remaining
  <2>5. InNative(n) /\ KeepsFrames(n, m)
    <3>1. 2 \in Nat /\ m.base + 2 <= Len(m.stack)
      BY <1>4, <2>2, MachineFacts
    <3>. QED
      BY <1>4, <2>2, <2>4, <3>1, NativePops
  <2>6. n \in Machine /\ n.susp = FALSE /\ n.calls = m.calls
    BY <2>2, <2>5 DEF KeepsFrames
  <2>7. Ready(e) /\ SameRun(e, n) /\ RootsOf(e.calls) = RootsOf(n.calls)
    <3>1. PICK u : u = Push(n, x)
      OBVIOUS
    <3>2. e = Given(NativeReturns(u, GetUp(u)), x)
      BY <1>2, <2>1, <3>1
    <3>. QED
      BY <2>5, <2>6, <3>1, <3>2, NativeReturned
  <2>8. e \in Machine /\ e.susp = FALSE /\ Told(e, "run", raised)
    BY <1>3, <2>6, <2>7 DEF Ready, Frames, SameRun, Told
  <2>9. vm' = [vm EXCEPT ![R] = e]
    BY <1>1, <1>2, <1>3, <1>8, <2>1 DEF Succeeds, Remaining
  <2>10. Turns([vm EXCEPT ![R] = e], d, "run", raised)
    <3>1. Cardinality(RootsOf(vm[R].calls)) = Cardinality(RootsOf(e.calls)) + 1
      BY <2>2, <2>6, <2>7
    <3>2. Ready(e)
      BY <2>7
    <3>. QED
      BY <1>3, <1>6, <1>8, <2>8, <3>1, <3>2, NativeActEnds
  <2>. QED
    BY <1>3, <1>5, <2>9, <2>10 DEF TurnsInv
<1>9. CASE a.via \in {"call", "wakeup", "keep"}
  <2>1. PICK W : W = d[Len(d)].vm
    OBVIOUS
  <2>2. /\ d # <<>> /\ W # R /\ W \in VM /\ vm[W] \in Machine /\ InNative(vm[W]) /\ vm[W].susp = FALSE
    BY <1>3, <1>6, <1>9, <2>1, WaiterFacts
  <2>3. Waiter = W
    BY <1>1, <2>1, <2>2, TopActivation, RunnerIsReady DEF Waiter
  <2>4. PICK e, u, w : e = Popped(q, a) /\ u = Push(vm[W], x) /\ w = Given(NativeReturns(u, GetUp(u)), x)
    OBVIOUS
  <2>5. IsIdle(e) \/ IsAsleep(e)
    BY <1>1, <1>2, <1>9, <2>4 DEF Ending
  <2>6. e \in Machine
    BY <2>5 DEF IsIdle, IsAsleep, Ready, Frames
  <2>7. Ready(w) /\ SameRun(w, vm[W]) /\ RootsOf(w.calls) = RootsOf(vm[W].calls)
    BY <2>2, <2>4, NativeReturned
  <2>8. w \in Machine /\ w.susp = FALSE /\ Told(w, "run", raised)
    BY <1>3, <2>2, <2>7 DEF Ready, Frames, SameRun, Told
  <2>9. vm' = [vm EXCEPT ![R] = e, ![W] = w]
    BY <1>1, <1>2, <1>3, <1>4, <1>9, <2>3, <2>4 DEF Succeeds, Remaining
  <2>10. Turns([vm EXCEPT ![R] = e, ![W] = w], d, "run", raised)
    BY <1>3, <1>6, <1>9, <2>1, <2>2, <2>5, <2>6, <2>7, <2>8, ThreadActEnds
  <2>. QED
    BY <1>3, <1>5, <2>9, <2>10 DEF TurnsInv
<1>. QED
  BY <1>7, <1>8, <1>9 DEF Act

LEMMA TopIsOutside ==
    ASSUME NEW v, NEW d \in Seq(Act), NEW a \in Act, NEW md, NEW r, Turns(v, Append(d, a), md, r)
    PROVE  /\ a.via # "native" => IsOutside(a)
           /\ a.via = "native" => a.params = 2
<1>1. ActFits(Append(d, a), Len(d) + 1) /\ Append(d, a)[Len(d) + 1] = a
  BY CppAdded, AddedFacts DEF Turns
<1>. QED
  BY <1>1 DEF ActFits, IsOutside, Act

\* m is the VM that ran, when an error left its activation by.
Failing(m, old, by) ==
    /\ m \in Machine
    /\ by.via = "native" =>
          /\ InNative(m) /\ m.susp = FALSE /\ Len(m.stack) = m.base + 4
          /\ Cardinality(RootsOf(old.calls)) = Cardinality(RootsOf(m.calls)) + 1
    /\ by.via # "native" => IsDone(m)

LEMMA FailsTurns ==
    ASSUME TurnsInv, cpp # <<>>, mode = "raise", NEW m, Fails(m), m.err = raised,
           Failing(m, vm[Runner], Last(cpp))
    PROVE  TurnsInv'
<1>1. PICK d \in Seq(Act), a \in Act : d = Front(cpp) /\ a = Last(cpp) /\ cpp = Append(d, a)
  BY TopActivation, RunnerIsReady
<1>2. PICK R : R = Runner
  OBVIOUS
<1>3. R = a.vm /\ raised \in Trouble /\ OT_NULL \in Trouble /\ OT_NULL \in Datum
  BY <1>1, <1>2, RunnerIsReady DEF Runner, Trouble, Datum
<1>4. m \in Machine
  BY DEF Failing
<1>5. PICK failed : failed = IF a.params > 0 THEN Pop(m, a.params) ELSE m
  OBVIOUS
<1>7. Turns(vm, Append(d, a), mode, raised) /\ cpp' = d
  BY <1>1 DEF TurnsInv, Fails
<1>8. CASE a.via = "native"
  <2>1. PICK e : e = [LeaveFrame(failed) EXCEPT !.err = raised]
    OBVIOUS
  <2>2. /\ InNative(m) /\ m.susp = FALSE /\ Len(m.stack) = m.base + 4
        /\ Cardinality(RootsOf(vm[R].calls)) = Cardinality(RootsOf(m.calls)) + 1
    BY <1>1, <1>2, <1>8 DEF Failing
  <2>3. failed = Pop(m, 2)
    <3>1. a.params = 2
      BY <1>7, <1>8, TopIsOutside
    <3>. QED
      BY <1>5, <3>1
  <2>4. InNative(failed) /\ KeepsFrames(failed, m)
    <3>1. 2 \in Nat /\ m.base + 2 <= Len(m.stack)
      BY <1>4, <2>2, MachineFacts
    <3>. QED
      BY <1>4, <2>2, <2>3, <3>1, NativePops
  <2>5. failed \in Machine /\ failed.susp = FALSE /\ failed.calls = m.calls /\ failed.err = raised
    BY <2>2, <2>4 DEF KeepsFrames
  <2>8. Ready(e) /\ e.susp = FALSE /\ e.err = raised /\ RootsOf(e.calls) = RootsOf(failed.calls)
    BY <1>3, <2>1, <2>4, <2>5, NativeFailed
  <2>9. e \in Machine /\ Told(e, "raise", raised)
    BY <1>3, <2>8 DEF Ready, Frames, Told
  <2>10. vm' = [vm EXCEPT ![R] = e] /\ UNCHANGED <<mode, raised>>
    <3>1. e = LeaveFrame(failed)
      <4>1. Len(failed.calls) >= 1
        BY <2>4, <2>5 DEF InNative, Frames
      <4>2. LeaveFrame(failed) \in Machine /\ SameRun(LeaveFrame(failed), failed)
        BY <2>5, <4>1, LeaveFacts
      <4>. QED
        BY <2>1, <2>5, <4>2 DEF SameRun, Machine
    <3>. QED
      BY <1>1, <1>2, <1>3, <1>5, <1>8, <3>1 DEF Fails
  <2>11. Turns([vm EXCEPT ![R] = e], d, "raise", raised)
    <3>1. Cardinality(RootsOf(vm[R].calls)) = Cardinality(RootsOf(e.calls)) + 1
      BY <2>2, <2>5, <2>8
    <3>2. Ready(e) /\ e.susp = FALSE
      BY <2>8
    <3>. QED
      BY <1>3, <1>7, <1>8, <2>9, <3>1, <3>2, NativeActEnds
  <2>. QED
    BY <1>7, <2>10, <2>11 DEF TurnsInv
<1>9. CASE a.via # "native"
  <2>1. IsDone(m) /\ IsOutside(a)
    BY <1>1, <1>7, <1>9, TopIsOutside DEF Failing
  <2>2. (a.via = "call" => IsIdle(failed)) /\ (a.via # "call" => IsIdle(SetTop(failed, 1)))
    BY <1>4, <1>5, <2>1, EndedBadly
  <2>3. CASE a.via = "host"
    <3>1. PICK e : e = SetTop(failed, 1)
      OBVIOUS
    <3>2. IsIdle(e) /\ e \in Machine
      BY <2>2, <2>3, <3>1 DEF IsIdle
    <3>3. vm' = [vm EXCEPT ![R] = e] /\ mode' = "run" /\ raised' = OT_NULL
      BY <1>1, <1>2, <1>3, <1>5, <2>3, <3>1 DEF Fails
    <3>4. Turns([vm EXCEPT ![R] = e], d, "run", OT_NULL)
      BY <1>3, <1>7, <2>3, <3>2, HostActEnds
    <3>. QED
      BY <1>7, <3>3, <3>4 DEF TurnsInv
  <2>4. CASE a.via \in {"call", "wakeup", "keep"}
    <3>1. PICK W : W = d[Len(d)].vm
      OBVIOUS
    <3>2. /\ d # <<>> /\ W # R /\ W \in VM /\ vm[W] \in Machine /\ InNative(vm[W])
          /\ vm[W].susp = FALSE
      BY <1>3, <1>7, <2>4, <3>1, WaiterFacts
    <3>3. Waiter = W
      BY <1>1, <3>1, <3>2, TopActivation, RunnerIsReady DEF Waiter
    <3>4. PICK e : e = IF a.via = "call" THEN failed ELSE SetTop(failed, 1)
      OBVIOUS
    <3>5. IsIdle(e) /\ e \in Machine
      BY <2>2, <3>4 DEF IsIdle
    <3>6. CASE a.via # "keep"
      <4>1. PICK w : w = [LeaveFrame(vm[W]) EXCEPT !.err = raised]
        OBVIOUS
      <4>2. Ready(w) /\ w.susp = FALSE /\ w.err = raised /\ RootsOf(w.calls) = RootsOf(vm[W].calls)
        BY <1>3, <3>2, <4>1, NativeFailed
      <4>3. w \in Machine /\ Told(w, "raise", raised)
        BY <1>3, <4>2 DEF Ready, Frames, Told
      <4>4. vm' = [vm EXCEPT ![R] = e, ![W] = w] /\ UNCHANGED <<mode, raised>>
        BY <1>1, <1>2, <1>3, <1>5, <2>4, <3>3, <3>4, <3>6, <4>1 DEF Fails
      <4>5. Turns([vm EXCEPT ![R] = e, ![W] = w], d, "raise", raised)
        BY <1>3, <1>7, <2>4, <3>1, <3>2, <3>5, <4>2, <4>3, ThreadActEnds
      <4>. QED
        BY <1>7, <4>4, <4>5 DEF TurnsInv
    <3>7. CASE a.via = "keep"
      <4>1. PICK w : w = Given(NativeReturns(vm[W], OT_NULL), OT_NULL)
        OBVIOUS
      <4>2. Ready(w) /\ SameRun(w, vm[W]) /\ RootsOf(w.calls) = RootsOf(vm[W].calls)
        BY <1>3, <3>2, <4>1, NativeReturnedNull
      <4>3. w \in Machine /\ w.susp = FALSE /\ Told(w, "run", OT_NULL)
        BY <1>3, <3>2, <4>2 DEF Ready, Frames, SameRun, Told
      <4>4. vm' = [vm EXCEPT ![R] = e, ![W] = w] /\ mode' = "run" /\ raised' = OT_NULL
        BY <1>1, <1>2, <1>3, <1>5, <3>2, <3>3, <3>4, <3>7, <4>1 DEF Fails
      <4>5. Turns([vm EXCEPT ![R] = e, ![W] = w], d, "run", OT_NULL)
        BY <1>3, <1>7, <2>4, <3>1, <3>2, <3>5, <4>2, <4>3, ThreadActEnds
      <4>. QED
        BY <1>7, <4>4, <4>5 DEF TurnsInv
    <3>. QED
      BY <3>6, <3>7
  <2>. QED
    BY <1>9, <2>3, <2>4 DEF Act
<1>. QED
  BY <1>8, <1>9

\* A frame with a root is left.
LEMMA RootEnds ==
    ASSUME TurnsInv, cpp # <<>>, NEW v, v = vm[Runner], Last(v.calls).root = TRUE,
           NEW m, m = LeaveFrame(v)
    PROVE  Failing(m, v, Last(cpp)) /\ m.err = v.err
<1>1. PICK d \in Seq(Act), a \in Act : d = Front(cpp) /\ a = Last(cpp) /\ cpp = Append(d, a)
  BY TopActivation, RunnerIsReady
<1>2. v = vm[a.vm] /\ v \in Machine /\ Ready(v) /\ v.susp = FALSE
  BY <1>1, RunnerIsReady DEF Runner
<1>3. Turns(vm, Append(d, a), mode, raised)
  BY <1>1 DEF TurnsInv
<1>4. v.calls[Len(v.calls)].root = TRUE /\ Len(v.calls) >= 1
  BY <1>2, ReadyIsMore
<1>5. CASE a.via = "native"
  <2>1. Len(v.calls) > 1
    BY <1>2, <1>3, <1>4, <1>5, RootIndex
  <2>2. /\ InNative(m) /\ OneLess(m, v) /\ Len(m.stack) = m.base + 4
        /\ Cardinality(RootsOf(v.calls)) = Cardinality(RootsOf(m.calls)) + 1
    BY <1>2, <1>4, <2>1, RootLeft
  <2>. QED
    BY <1>1, <1>2, <1>5, <2>2 DEF Failing, OneLess, SameRun
<1>6. CASE a.via # "native"
  <2>1. Len(v.calls) = 1
    BY <1>2, <1>3, <1>4, <1>6, RootIndex
  <2>2. /\ m \in Machine /\ SameRun(m, v) /\ m.calls = <<>> /\ m.base = 0
        /\ Len(m.stack) = 3 /\ m.stack[1] = FunctionObject
    BY <1>2, <2>1, LastLeft
  <2>. QED
    BY <1>1, <1>2, <1>6, <2>2 DEF Failing, IsDone, SameRun
<1>. QED
  BY <1>5, <1>6

LEMMA FailingEnds ==
    ASSUME TurnsInv, cpp # <<>>, NEW m, NEW x \in Datum, Failing(m, vm[Runner], Last(cpp))
    PROVE  Ending(m, vm[Runner], Last(cpp), x)
<1>1. PICK d \in Seq(Act), a \in Act : d = Front(cpp) /\ a = Last(cpp) /\ cpp = Append(d, a)
  BY TopActivation, RunnerIsReady
<1>2. Turns(vm, Append(d, a), mode, raised) /\ m \in Machine
  BY <1>1 DEF TurnsInv, Failing
<1>3. CASE a.via = "native"
  <2>1. InNative(m) /\ m.susp = FALSE /\ Len(m.stack) = m.base + 4 /\ a.params = 2
    BY <1>1, <1>2, <1>3, TopIsOutside DEF Failing
  <2>2. Remaining(m, a) = Pop(m, 2)
    BY <2>1 DEF Remaining
  <2>3. Pop(m, 2) \in Machine
    <3>1. 2 \in Nat /\ m.base + 2 <= Len(m.stack)
      BY <1>2, <2>1, MachineFacts
    <3>. QED
      BY <1>2, <2>1, <3>1, NativePops DEF KeepsFrames
  <2>. QED
    BY <1>1, <1>3, <2>2, <2>3 DEF Failing, Ending
<1>4. CASE a.via # "native"
  <2>1. IsDone(m) /\ IsOutside(a)
    BY <1>1, <1>2, <1>4, TopIsOutside DEF Failing
  <2>2. Remaining(m, a) \in Machine
    <3>1. CASE a.params = 2
      <4>1. Remaining(m, a) = Pop(m, 2)
        BY <2>1, <3>1 DEF Remaining, IsDone
      <4>. QED
        BY <1>2, <2>1, <4>1, DonePops
    <3>2. CASE a.params = 0
      BY <1>2, <3>2 DEF Remaining
    <3>. QED
      BY <2>1, <3>1, <3>2 DEF IsOutside
  <2>3. IsIdle(Popped(Push(Remaining(m, a), x), a))
    BY <1>2, <2>1, Ended
  <2>. QED
    BY <1>1, <1>2, <1>4, <2>2, <2>3 DEF Ending
<1>. QED
  BY <1>3, <1>4

LEMMA ReturnTurns ==
    ASSUME TurnsInv, NEW x \in Value, Return(x)
    PROVE  TurnsInv'
<1>1. PICK v, m : v = vm[Runner] /\ m = LeaveFrame(v)
  OBVIOUS
<1>2. cpp # <<>> /\ mode = "run" /\ UNCHANGED raised /\ x \in Datum
  BY DEF Return, Runs, Datum
<1>3. v \in Machine /\ Ready(v) /\ v.susp = FALSE /\ raised \in Trouble
  BY <1>1, <1>2, RunnerIsReady
<1>4. CASE Last(v.calls).root = TRUE
  <2>1. Succeeds(m, x)
    BY <1>1, <1>4 DEF Return
  <2>2. Failing(m, vm[Runner], Last(cpp))
    BY <1>1, <1>2, <1>4, RootEnds
  <2>3. Ending(m, vm[Runner], Last(cpp), x)
    BY <1>2, <2>2, FailingEnds
  <2>. QED
    BY <1>2, <2>1, <2>3, SucceedsTurns
<1>5. CASE Last(v.calls).root # TRUE
  <2>1. Last(v.calls).root = FALSE /\ Len(v.calls) > 1 /\ v.calls[Len(v.calls)].root = FALSE
    BY <1>3, <1>5, ReadyIsMore
  <2>2. PICK e : e = Given(StoreResult(m, x), x)
    OBVIOUS
  <2>3. Ready(m) /\ OneLess(m, v) /\ RootsOf(m.calls) = RootsOf(v.calls)
    BY <1>1, <1>3, <2>1, ScriptLeft
  <2>4. m \in Machine /\ m.susp = FALSE
    BY <1>3, <2>3 DEF OneLess, SameRun
  <2>5. Ready(e) /\ SameRun(e, m) /\ RootsOf(e.calls) = RootsOf(m.calls)
    BY <1>2, <2>2, <2>3, <2>4, ResultFits
  <2>6. e \in Machine /\ e.susp = FALSE
    BY <2>4, <2>5 DEF Ready, Frames, SameRun
  <2>7. vm' = [vm EXCEPT ![Runner] = e] /\ UNCHANGED <<cpp, mode>>
    BY <1>1, <2>1, <2>2 DEF Return
  <2>8. Told(e, mode, raised)'
    BY <1>2, <1>3, <2>7 DEF Told
  <2>9. RootsOf(e.calls) = RootsOf(vm[Runner].calls)
    BY <1>1, <2>3, <2>5
  <2>. QED
    BY <1>2, <2>5, <2>6, <2>7, <2>8, <2>9, RunnerSteps
<1>. QED
  BY <1>4, <1>5

LEMMA UnwindTurns ==
    ASSUME TurnsInv, Unwind
    PROVE  TurnsInv'
<1>1. PICK v, m : v = vm[Runner] /\ m = LeaveFrame(v)
  OBVIOUS
<1>2. cpp # <<>> /\ mode = "raise"
  BY DEF Unwind, TurnsInv, Turns
<1>3. v \in Machine /\ Ready(v) /\ v.susp = FALSE /\ raised \in Trouble /\ v.err = raised
  BY <1>1, <1>2, RunnerIsReady
<1>4. CASE Last(v.calls).root = TRUE
  <2>1. Fails(m)
    BY <1>1, <1>2, <1>4 DEF Unwind
  <2>2. Failing(m, vm[Runner], Last(cpp)) /\ m.err = raised
    BY <1>1, <1>2, <1>3, <1>4, RootEnds
  <2>. QED
    BY <1>2, <2>1, <2>2, FailsTurns
<1>5. CASE Last(v.calls).root # TRUE
  <2>1. Last(v.calls).root = FALSE /\ Len(v.calls) > 1 /\ v.calls[Len(v.calls)].root = FALSE
    BY <1>3, <1>5, ReadyIsMore
  <2>2. Ready(m) /\ OneLess(m, v) /\ RootsOf(m.calls) = RootsOf(v.calls)
    BY <1>1, <1>3, <2>1, ScriptLeft
  <2>3. m \in Machine /\ m.susp = FALSE /\ m.err = raised
    BY <1>3, <2>2 DEF OneLess, SameRun
  <2>4. vm' = [vm EXCEPT ![Runner] = m] /\ UNCHANGED <<cpp, mode, raised>>
    BY <1>1, <2>1 DEF Unwind
  <2>5. Told(m, mode, raised)'
    BY <1>2, <1>3, <2>3, <2>4 DEF Told
  <2>. QED
    BY <1>1, <1>2, <2>2, <2>3, <2>4, <2>5, RunnerSteps
<1>. QED
  BY <1>4, <1>5

\* A VM may suspend when its only activation was made from outside and no
\* native function of it is waiting.
LEMMA MaySuspend ==
    ASSUME TurnsInv, cpp # <<>>, NEW v, v = vm[Runner], _nnativecalls(Runner) + 1 = 2
    PROVE  /\ Last(cpp).via # "native"
           /\ \A i \in 1 .. Len(v.calls) : v.calls[i].kind = "script"
<1>1. PICK natives : natives = {i \in DOMAIN v.calls : v.calls[i].kind = "native"}
  OBVIOUS
<1>2. PICK R : R = Runner
  OBVIOUS
<1>3. PICK d \in Seq(Act), a \in Act : d = Front(cpp) /\ a = Last(cpp) /\ cpp = Append(d, a)
  BY TopActivation, RunnerIsReady
<1>4. R = a.vm /\ v \in Machine /\ DOMAIN v.calls = 1 .. Len(v.calls) /\ Len(v.calls) \in Nat
  <2>1. R = a.vm /\ v \in Machine
    BY <1>2, <1>3, RunnerIsReady DEF Runner
  <2>. QED
    BY <2>1, MachineFacts, LenProperties
<1>5. PICK c \in Seq(Act) : c = Append(d, a) /\ c # <<>> /\ c[Len(c)] = a /\ Len(c) = Len(d) + 1
  BY AddedFacts
<1>6. Len(c) \in Acts(c, R) /\ IsFiniteSet(Acts(c, R)) /\ Cardinality(Acts(c, R)) \in Nat
  BY <1>4, <1>5, LastActs, ActsAdded, AddedFacts
<1>7. IsFiniteSet(natives) /\ Cardinality(natives) \in Nat
  <2>1. PICK n \in Nat : n = Len(v.calls)
    BY <1>4
  <2>2. natives \subseteq 1 .. n
    BY <1>1, <1>4, <2>1
  <2>3. IsFiniteSet(1 .. n)
    BY FS_Interval
  <2>. QED
    BY <2>2, <2>3, FS_Subset, FS_CardinalityType
<1>8. _nnativecalls(R) = Cardinality(Acts(c, R)) + Cardinality(natives)
  BY <1>1, <1>2, <1>3, <1>5 DEF _nnativecalls, Quantify, Acts
<1>9. Cardinality(Acts(c, R)) = 1 /\ Cardinality(natives) = 0
  <2>1. Cardinality(Acts(c, R)) # 0
    BY <1>6, FS_EmptySet
  <2>. QED
    BY <1>2, <1>6, <1>7, <1>8, <2>1
<1>10. natives = {}
  BY <1>7, <1>9, FS_EmptySet
<1>11. \A i \in 1 .. Len(v.calls) : v.calls[i].kind = "script"
  BY <1>1, <1>4, <1>10, MachineFacts DEF Frame
<1>12. a.via # "native"
  <2>1. SUFFICES ASSUME a.via = "native" PROVE FALSE
    OBVIOUS
  <2>2. ActFits(c, Len(d) + 1) /\ c[Len(d) + 1] = a
    BY <1>3, <1>5, CppAdded, AddedFacts DEF TurnsInv, Turns
  <2>3. Len(d) + 1 # 1
    BY <2>1, <2>2 DEF ActFits
  <2>4. Len(d) \in 1 .. Len(d) + 1 /\ (Len(d) + 1) - 1 = Len(d)
    BY <2>3
  <2>5. c[Len(d)].vm = R
    BY <1>4, <2>1, <2>2, <2>4 DEF ActFits
  <2>6. Len(d) \in Acts(c, R)
    <3>1. DOMAIN c = 1 .. Len(d) + 1
      BY <1>5, LenProperties
    <3>. QED
      BY <2>4, <2>5, <3>1 DEF Acts
  <2>7. PICK u : Acts(c, R) = {u}
    BY <1>6, <1>9, FS_Singleton
  <2>8. Len(d) = Len(d) + 1
    BY <1>5, <1>6, <2>6, <2>7
  <2>. QED
    BY <2>8
<1>. QED
  BY <1>3, <1>11, <1>12

LEMMA SuspendTurns ==
    ASSUME TurnsInv, NEW x \in Value, Suspend(x)
    PROVE  TurnsInv'
<1>1. PICK v : v = vm[Runner]
  OBVIOUS
<1>2. cpp # <<>> /\ mode = "run" /\ x \in Datum /\ Refused \in Trouble
  BY DEF Suspend, Runs, Datum, Trouble
<1>3. v \in Machine /\ Ready(v) /\ v.susp = FALSE
  BY <1>1, <1>2, RunnerIsReady
<1>4. CASE _nnativecalls(Runner) + 1 = 2
  <2>1. PICK m : m = [v EXCEPT !.susp = TRUE, !.root = Last(v.calls).root]
    OBVIOUS
  <2>2. Succeeds(m, x) /\ UNCHANGED raised
    BY <1>1, <1>3, <1>4, <2>1 DEF Suspend
  <2>3. Last(cpp).via # "native" /\ \A i \in 1 .. Len(v.calls) : v.calls[i].kind = "script"
    BY <1>1, <1>2, <1>4, MaySuspend
  <2>4. m \in Machine /\ m.susp = TRUE
    <3>1. Last(v.calls).root \in BOOLEAN
      BY <1>3, ReadyIsMore DEF Frame
    <3>. QED
      BY <1>3, <2>1, <3>1 DEF Machine
  <2>5. PICK by : by = Last(cpp)
    OBVIOUS
  <2>6. Remaining(m, by) = m
    BY <2>4 DEF Remaining
  <2>7. IsAsleep(Popped(Push(Remaining(m, by), x), by))
    BY <1>2, <1>3, <2>1, <2>3, Slept
  <2>8. Ending(m, vm[Runner], Last(cpp), x)
    BY <2>3, <2>4, <2>5, <2>6, <2>7 DEF Ending
  <2>. QED
    BY <1>2, <2>2, <2>8, SucceedsTurns
<1>5. CASE _nnativecalls(Runner) + 1 # 2
  <2>1. Raise(Runner, vm[Runner], Refused)
    BY <1>5 DEF Suspend
  <2>. QED
    BY <1>2, <2>1, ThrowTurns
<1>. QED
  BY <1>4, <1>5

\* The state of a VM tells what is on its stack.
LEMMA StateFits ==
    ASSUME TurnsInv, NEW t \in VM
    PROVE  /\ vm[t] \in Machine /\ vm[t].susp \in BOOLEAN
           /\ lv_getvmstate(t) = "idle" => IsIdle(vm[t])
           /\ lv_getvmstate(t) = "suspended" => IsAsleep(vm[t])
           /\ vm[t].susp = TRUE \/ vm[t].calls = <<>> => Acts(cpp, t) = {}
<1>1. PICK m : m = vm[t]
  OBVIOUS
<1>2. VMFits(m) /\ RunsOn(m, cpp, t) /\ m \in Machine
  BY <1>1 DEF TurnsInv, Turns, VMFits
<1>3. m.susp \in BOOLEAN
  BY <1>2 DEF Machine
<1>4. ASSUME m.calls = <<>> PROVE IsIdle(m)
  <2>1. Len(m.calls) = 0
    BY <1>4
  <2>. QED
    BY <1>2, <2>1 DEF VMFits, Ready, InNative, Frames
<1>5. lv_getvmstate(t) = "idle" => m.calls = <<>>
  BY <1>1 DEF lv_getvmstate
<1>6. lv_getvmstate(t) = "suspended" => m.susp = TRUE
  BY <1>1, <1>3 DEF lv_getvmstate
<1>7. m.susp = TRUE => IsAsleep(m)
  BY <1>2 DEF VMFits
<1>8. m.susp = TRUE \/ m.calls = <<>> => Acts(cpp, t) = {}
  BY <1>2, <1>3 DEF RunsOn
<1>. QED
  BY <1>1, <1>2, <1>3, <1>4, <1>5, <1>6, <1>7, <1>8

LEMMA WokenByNothing ==
    ASSUME NEW m
    PROVE  lv_wakeupvm(m, FALSE) = WokenUp(StoreResult(m, OT_NULL), m.root)
BY DEF lv_wakeupvm, WokenUp

LEMMA HostCallsTurns ==
    ASSUME TurnsInv, NEW x \in Arg, HostCalls(x)
    PROVE  TurnsInv'
<1>1. PICK m, p, e : m = vm[RootVM] /\ p = Push(Push(m, RootTable), x) /\ e = RootCalled(p, x)
  OBVIOUS
<1>2. /\ cpp = <<>> /\ lv_getvmstate(RootVM) = "idle" /\ Activated(RootVM, "host", 2)
      /\ UNCHANGED <<mode, raised>>
  BY DEF HostCalls
<1>3. RootVM \in VM /\ x \in Datum
  BY DEF VM, Datum
<1>4. m \in Machine /\ IsIdle(m)
  BY <1>1, <1>2, <1>3, StateFits
<1>5. mode = "run" /\ raised \in Trouble /\ Turns(vm, <<>>, mode, raised)
  BY <1>2 DEF TurnsInv, Turns
<1>6. p \in Machine /\ KeepsFrames(p, m) /\ Topped(p, x) /\ Len(p.stack) = 3 /\ p.stack[1] = FunctionObject
  <2>1. p \in Machine /\ Above(p, m) /\ Topped(p, x) /\ Len(p.stack) = Len(m.stack) + 2
    BY <1>1, <1>3, <1>4, ArgumentsPushed
  <2>2. Len(m.stack) = 1 /\ m.stack[1] = FunctionObject
    BY <1>4 DEF IsIdle
  <2>3. 1 \in 1 .. Len(m.stack)
    BY <2>2
  <2>4. p.stack[1] = m.stack[1] /\ KeepsFrames(p, m)
    BY <2>1, <2>3 DEF Above
  <2>. QED
    BY <2>1, <2>2, <2>4
<1>7. Ready(e) /\ SameRun(e, m) /\ Cardinality(RootsOf(e.calls)) = 1
  BY <1>1, <1>3, <1>4, <1>6, IdleCalled
<1>8. e \in Machine /\ e.susp = FALSE /\ Told(e, "run", raised)
  BY <1>4, <1>5, <1>7 DEF Ready, Frames, SameRun, IsIdle, Told
<1>9. PICK a \in Act : a.vm = RootVM /\ a.via = "host" /\ a.params = 2 /\ cpp' = Append(cpp, a)
  BY <1>2, <1>3, ActivatedFacts
<1>10. vm' = [vm EXCEPT ![RootVM] = e]
  <2>1. vm' = [vm EXCEPT ![RootVM] = RootCalled(Push(Push(vm[RootVM], RootTable), x), x)]
    BY DEF HostCalls, RootCalled
  <2>. QED
    BY <1>1, <2>1
<1>11. Turns([vm EXCEPT ![RootVM] = e], Append(<<>>, a), "run", raised)
  BY <1>5, <1>7, <1>8, <1>9, HostAct
<1>. QED
  BY <1>2, <1>5, <1>9, <1>10, <1>11 DEF TurnsInv

LEMMA HostWakesUpTurns ==
    ASSUME TurnsInv, HostWakesUp
    PROVE  TurnsInv'
<1>1. PICK m, e : m = vm[RootVM] /\ e = Given(WokenUp(StoreResult(m, OT_NULL), m.root), OT_NULL)
  OBVIOUS
<1>2. /\ cpp = <<>> /\ lv_getvmstate(RootVM) = "suspended" /\ Activated(RootVM, "host", 0)
      /\ UNCHANGED <<mode, raised>>
  BY DEF HostWakesUp
<1>3. RootVM \in VM /\ OT_NULL \in Datum
  BY DEF VM, Datum
<1>4. m \in Machine /\ IsAsleep(m)
  BY <1>1, <1>2, <1>3, StateFits
<1>5. mode = "run" /\ raised \in Trouble /\ Turns(vm, <<>>, mode, raised)
  BY <1>2 DEF TurnsInv, Turns
<1>6. Ready(e) /\ e.susp = FALSE /\ RootsOf(e.calls) = RootsOf(m.calls)
  BY <1>1, <1>3, <1>4, WokenFits
<1>7. Cardinality(RootsOf(e.calls)) = 1
  BY <1>4, <1>6, AsleepRoots
<1>8. e \in Machine /\ Told(e, "run", raised)
  BY <1>5, <1>6 DEF Ready, Frames, Told
<1>9. PICK a \in Act : a.vm = RootVM /\ a.via = "host" /\ a.params = 0 /\ cpp' = Append(cpp, a)
  BY <1>2, <1>3, ActivatedFacts
<1>10. vm' = [vm EXCEPT ![RootVM] = e]
  <2>1. vm' = [vm EXCEPT ![RootVM] = Given(lv_wakeupvm(vm[RootVM], FALSE), OT_NULL)]
    BY DEF HostWakesUp
  <2>. QED
    BY <1>1, <2>1, WokenByNothing
<1>11. Turns([vm EXCEPT ![RootVM] = e], Append(<<>>, a), "run", raised)
  BY <1>5, <1>6, <1>7, <1>8, <1>9, HostAct
<1>. QED
  BY <1>2, <1>5, <1>9, <1>10, <1>11 DEF TurnsInv

\* The VM that runs waits in a native function.
LEMMA NativeWaits ==
    ASSUME NEW m \in Machine, NEW args \in Seq(Datum), NEW w, Ready(m), Len(args) >= 1, m.susp = FALSE,
           w = EnterNative(m, args)
    PROVE  /\ w \in Machine /\ InNative(w) /\ w.susp = FALSE /\ w.err = m.err
           /\ RootsOf(w.calls) = RootsOf(m.calls)
           /\ \A k \in 1 .. Len(args) : stack_get(w, k) = args[k]
<1>1. /\ InNative(w) /\ w.base = Len(m.stack) /\ Len(w.stack) = Len(m.stack) + Len(args)
      /\ \A k \in 1 .. Len(args) : w.stack[Len(m.stack) + k] = args[k]
      /\ RootsOf(w.calls) = RootsOf(m.calls) /\ w.susp = m.susp /\ w.err = m.err
  BY NativeEntered
<1>2. w \in Machine
  BY <1>1 DEF InNative, Frames
<1>3. \A k \in 1 .. Len(args) : stack_get(w, k) = args[k]
  BY <1>1 DEF stack_get
<1>. QED
  BY <1>1, <1>2, <1>3

LEMMA ArgumentsOf ==
    ASSUME NEW t \in Datum, NEW x \in Datum
    PROVE  /\ <<t>> \o <<x>> \in Seq(Datum) /\ Len(<<t>> \o <<x>>) = 2 /\ (<<t>> \o <<x>>)[2] = x
           /\ <<t, x>> \in Seq(Datum) /\ Len(<<t, x>>) = 2 /\ <<t, x>>[2] = x
           /\ <<t>> \o <<>> \in Seq(Datum) /\ Len(<<t>> \o <<>>) = 1
OBVIOUS

\* The value a thread is woken with is pushed, stored and popped.
LEMMA StorePop ==
    ASSUME NEW m \in Machine, NEW x \in Datum, Ready(m)
    PROVE  Pop(StoreResult(Push(m, x), x), 1) = StoreResult(m, x)
<1>1. PICK l \in Nat : l = Len(m.stack) /\ l = m.base + 3 /\ l \in 1 .. l
  BY MachineFacts DEF Ready
<1>2. PICK s \in Seq(Slots) : s = m.stack
  BY MachineFacts
<1>3. x \in Slots
  BY OnStack
<1>4. PICK z : z = Append(s, x)
  OBVIOUS
<1>5. z \in Seq(Slots) /\ Len(z) = l + 1 /\ z[l + 1] = x /\ \A k \in 1 .. l : z[k] = s[k]
  <2>1. /\ Append(s, x) \in Seq(Slots) /\ Len(Append(s, x)) = Len(s) + 1
        /\ Append(s, x)[Len(s) + 1] = x /\ \A k \in 1 .. Len(s) : Append(s, x)[k] = s[k]
    BY <1>3, AppendProperties
  <2>. QED
    BY <1>1, <1>2, <1>4, <2>1
<1>6. PICK y : y = [z EXCEPT ![l] = x]
  OBVIOUS
<1>7. y \in Seq(Slots) /\ Len(y) = l + 1 /\ y[l] = x /\ \A k \in 1 .. l + 1 : k # l => y[k] = z[k]
  <2>1. l \in 1 .. Len(z)
    BY <1>1, <1>5
  <2>. QED
    BY <1>3, <1>5, <1>6, <2>1, StackWritten
<1>8. PICK u : u = [s EXCEPT ![l] = x]
  OBVIOUS
<1>9. u \in Seq(Slots) /\ Len(u) = l /\ u[l] = x /\ \A k \in 1 .. l : k # l => u[k] = s[k]
  <2>1. l \in 1 .. Len(s) /\ Len(s) = l
    BY <1>1, <1>2
  <2>. QED
    BY <1>3, <1>8, <2>1, StackWritten
<1>10. SubSeq(y, 1, l) = u
  <2>1. l \in 0 .. Len(y)
    BY <1>7
  <2>2. /\ SubSeq(y, 1, l) \in Seq(Slots) /\ Len(SubSeq(y, 1, l)) = l
        /\ \A k \in 1 .. l : SubSeq(y, 1, l)[k] = y[k]
    BY <1>7, <2>1, StackPrefix
  <2>3. \A k \in 1 .. l : y[k] = u[k]
    BY <1>5, <1>7, <1>9
  <2>. QED
    BY <1>9, <2>2, <2>3, SeqEqual
<1>11. StoreResult(m, x) = [m EXCEPT !.stack = u]
  BY <1>1, <1>2, <1>8 DEF StoreResult
<1>12. StoreResult(Push(m, x), x) = [m EXCEPT !.stack = y]
  BY <1>1, <1>2, <1>4, <1>6 DEF StoreResult, Push, Machine
<1>13. Pop([m EXCEPT !.stack = y], 1) = [m EXCEPT !.stack = SubSeq(y, 1, l)]
  <2>1. Len(y) - 1 = l
    BY <1>7
  <2>. QED
    BY <2>1 DEF Pop, Machine
<1>. QED
  BY <1>10, <1>11, <1>12, <1>13

\* What a thread that is woken has: x in its result register.
Awake(m, x) == Given(WokenUp(StoreResult(m, x), m.root), x)

LEMMA WokenByValue ==
    ASSUME NEW m \in Machine, NEW x \in Datum, NEW p, Ready(m), p = Push(m, x)
    PROVE  /\ WokenUp(Pop(StoreResult(p, GetUp(p)), 1), p.root) = WokenUp(StoreResult(m, x), m.root)
           /\ p.root = m.root
<1>1. GetUp(p) = x
  BY PushedUp
<1>2. p.root = m.root
  BY DEF Push, Machine
<1>3. Pop(StoreResult(p, GetUp(p)), 1) = StoreResult(m, x)
  BY <1>1, StorePop
<1>. QED
  BY <1>2, <1>3

\* The VM that runs has called or woken a thread.
Hands(w, e, t, via) ==
    /\ vm' = [vm EXCEPT ![Runner] = w, ![t] = e]
    /\ \E a \in Act :
          /\ a.vm = t /\ a.via = via /\ a.params = (IF via = "call" THEN 2 ELSE 0)
          /\ cpp' = Append(cpp, a)

LEMMA HandsTurns ==
    ASSUME TurnsInv, cpp # <<>>, NEW w \in Machine, NEW e \in Machine, NEW t \in VM,
           NEW via \in {"call", "wakeup", "keep"}, Hands(w, e, t, via), Acts(cpp, t) = {},
           InNative(w), w.susp = FALSE, RootsOf(w.calls) = RootsOf(vm[Runner].calls),
           Ready(e), e.susp = FALSE, Cardinality(RootsOf(e.calls)) = 1, Told(e, mode, raised)'
    PROVE  TurnsInv'
<1>1. PICK md1, r1, R : md1 = mode' /\ r1 = raised' /\ R = Runner
  OBVIOUS
<1>2. Told(e, md1, r1)
  BY <1>1 DEF Told
<1>3. R = cpp[Len(cpp)].vm
  BY <1>1, RunnerIsReady
<1>4. PICK a \in Act :
         /\ a.vm = t /\ a.via = via /\ a.params = (IF via = "call" THEN 2 ELSE 0)
         /\ cpp' = Append(cpp, a)
  BY DEF Hands
<1>5. vm' = [vm EXCEPT ![R] = w, ![t] = e]
  BY <1>1 DEF Hands
<1>6. a.params = IF a.via = "call" THEN 2 ELSE 0
  BY <1>4
<1>7. a.via \in {"call", "wakeup", "keep"} /\ RootsOf(w.calls) = RootsOf(vm[R].calls)
  BY <1>1, <1>4
<1>8. Turns([vm EXCEPT ![R] = w, ![t] = e], Append(cpp, a), md1, r1)
  BY <1>2, <1>3, <1>4, <1>6, <1>7, ThreadAct DEF TurnsInv
<1>. QED
  BY <1>1, <1>4, <1>5, <1>8 DEF TurnsInv

\* The thread t, asleep, gets x or null.
LEMMA WakeupTurns ==
    ASSUME TurnsInv, cpp # <<>>, NEW w \in Machine, NEW m \in Machine, NEW t \in Thread,
           NEW x \in Datum, NEW via \in {"wakeup", "keep"},
           lv_getvmstate(t) = "suspended", m = vm[t] \/ (mode' = "raise" /\ IsAsleep(m)),
           mode' \in {"run", "raise"}, raised' \in Trouble, mode' = "raise" => m.err = raised',
           InNative(w), w.susp = FALSE, RootsOf(w.calls) = RootsOf(vm[Runner].calls),
           Hands(w, Awake(m, x), t, via)
    PROVE  TurnsInv'
<1>1. t \in VM
  BY DEF VM
<1>2. IsAsleep(vm[t]) /\ Acts(cpp, t) = {}
  <2>1. vm[t] \in Machine /\ IsAsleep(vm[t]) /\ (vm[t].susp = TRUE \/ vm[t].calls = <<>> => Acts(cpp, t) = {})
    BY <1>1, StateFits
  <2>2. vm[t].susp = TRUE
    BY <2>1 DEF IsAsleep
  <2>. QED
    BY <2>1, <2>2
<1>3. IsAsleep(m)
  BY <1>2
<1>4. PICK e : e = Awake(m, x)
  OBVIOUS
<1>5. Ready(e) /\ e.susp = FALSE /\ e.err = m.err /\ RootsOf(e.calls) = RootsOf(m.calls)
  BY <1>3, <1>4, WokenFits DEF Awake
<1>6. e \in Machine /\ Told(e, mode, raised)'
  BY <1>5 DEF Ready, Frames, Told
<1>7. Cardinality(RootsOf(e.calls)) = 1
  BY <1>3, <1>5, AsleepRoots
<1>8. via \in {"call", "wakeup", "keep"} /\ Hands(w, e, t, via)
  BY <1>4
<1>. QED
  BY <1>1, <1>2, <1>5, <1>6, <1>7, <1>8, HandsTurns

LEMMA ActivatedHands ==
    ASSUME NEW w, NEW e, NEW t \in VM, NEW via \in {"call", "wakeup", "keep"},
           NEW params \in {0, 2}, params = (IF via = "call" THEN 2 ELSE 0),
           Activated(t, via, params), vm' = [vm EXCEPT ![Runner] = w, ![t] = e]
    PROVE  Hands(w, e, t, via)
<1>1. via \in {"host", "native", "call", "wakeup", "keep"}
  OBVIOUS
<1>2. PICK a \in Act : a.vm = t /\ a.via = via /\ a.params = params /\ cpp' = Append(cpp, a)
  BY <1>1, ActivatedFacts
<1>. QED
  BY <1>2 DEF Hands

LEMMA ThreadWakeupTurns ==
    ASSUME TurnsInv, NEW t \in Thread, NEW x \in Datum,
           ThreadWakeup(t, <<x>>) \/ ThreadWakeup(t, <<>>)
    PROVE  TurnsInv'
<1>1. PICK v : v = vm[Runner]
  OBVIOUS
<1>2. /\ cpp # <<>> /\ mode = "run" /\ x \in Datum /\ t \in Datum /\ t \in VM /\ OT_NULL \in Datum
      /\ Refused \in Trouble
  BY DEF ThreadWakeup, Runs, Datum, VM, Trouble
<1>3. v \in Machine /\ Ready(v) /\ v.susp = FALSE /\ raised \in Trouble
  BY <1>1, <1>2, RunnerIsReady
<1>4. CASE lv_getvmstate(t) # "suspended"
  <2>1. Raise(Runner, vm[Runner], Refused)
    BY <1>4 DEF ThreadWakeup
  <2>. QED
    BY <1>2, <2>1, ThrowTurns
<1>5. CASE lv_getvmstate(t) = "suspended"
  <2>1. PICK m : m = vm[t]
    OBVIOUS
  <2>2. m \in Machine /\ Ready(m)
    BY <1>2, <1>5, <2>1, StateFits DEF IsAsleep
  <2>3. CASE ThreadWakeup(t, <<x>>)
    <3>1. PICK args, w : args = <<t>> \o <<x>> /\ w = EnterNative(v, args)
      OBVIOUS
    <3>2. args \in Seq(Datum) /\ Len(args) = 2 /\ args[2] = x /\ Len(args) >= 1
      BY <1>2, <3>1, ArgumentsOf
    <3>3. /\ w \in Machine /\ InNative(w) /\ w.susp = FALSE /\ RootsOf(w.calls) = RootsOf(v.calls)
          /\ \A k \in 1 .. Len(args) : stack_get(w, k) = args[k]
      BY <1>3, <3>1, <3>2, NativeWaits
    <3>4. stack_get(w, 2) = x
      BY <3>2, <3>3
    <3>5. PICK p : p = Push(m, x)
      OBVIOUS
    <3>6. PICK e : e = Given(WokenUp(Pop(StoreResult(p, GetUp(p)), 1), p.root), x)
      OBVIOUS
    <3>7. e = Awake(m, x)
      BY <1>2, <2>2, <3>5, <3>6, WokenByValue DEF Awake
    <3>8. /\ Activated(t, "wakeup", 0) /\ UNCHANGED <<mode, raised>>
          /\ vm' = [vm EXCEPT ![Runner] = w, ![t] = e]
      <4>1. <<x>> # <<>> /\ <<x>>[1] = x
        OBVIOUS
      <4>2. p = Push(vm[t], stack_get(EnterNative(vm[Runner], <<t>> \o <<x>>), 2))
        BY <1>1, <2>1, <3>1, <3>4, <3>5
      <4>. QED
        BY <1>1, <1>5, <2>3, <3>1, <3>6, <4>1, <4>2 DEF ThreadWakeup, lv_wakeupvm, WokenUp
    <3>9. Hands(w, e, t, "wakeup")
      BY <1>2, <3>8, ActivatedHands
    <3>10. mode' = "run" /\ raised' \in Trouble
      BY <1>2, <1>3, <3>8
    <3>11. RootsOf(w.calls) = RootsOf(vm[Runner].calls) /\ Hands(w, Awake(m, x), t, "wakeup")
      BY <1>1, <3>3, <3>7, <3>9
    <3>. QED
      BY <1>2, <1>5, <2>1, <2>2, <3>3, <3>10, <3>11, WakeupTurns
  <2>4. CASE ThreadWakeup(t, <<>>)
    <3>1. PICK args, w : args = <<t>> \o <<>> /\ w = EnterNative(v, args)
      OBVIOUS
    <3>2. args \in Seq(Datum) /\ Len(args) = 1 /\ Len(args) >= 1
      BY <1>2, <3>1, ArgumentsOf
    <3>3. /\ w \in Machine /\ InNative(w) /\ w.susp = FALSE /\ RootsOf(w.calls) = RootsOf(v.calls)
      BY <1>3, <3>1, <3>2, NativeWaits
    <3>4. PICK e : e = Awake(m, OT_NULL)
      OBVIOUS
    <3>5. /\ Activated(t, "wakeup", 0) /\ UNCHANGED <<mode, raised>>
          /\ vm' = [vm EXCEPT ![Runner] = w, ![t] = e]
      BY <1>1, <1>5, <2>1, <2>4, <3>1, <3>4 DEF ThreadWakeup, lv_wakeupvm, WokenUp, Awake
    <3>6. Hands(w, e, t, "wakeup")
      BY <1>2, <3>5, ActivatedHands
    <3>7. mode' = "run" /\ raised' \in Trouble
      BY <1>2, <1>3, <3>5
    <3>8. RootsOf(w.calls) = RootsOf(vm[Runner].calls) /\ Hands(w, Awake(m, OT_NULL), t, "wakeup")
      BY <1>1, <3>3, <3>4, <3>6 DEF Hands
    <3>. QED
      BY <1>2, <1>5, <2>1, <2>2, <3>3, <3>7, <3>8, WakeupTurns
  <2>. QED
    BY <2>3, <2>4
<1>. QED
  BY <1>4, <1>5

\* An error is put into a VM over the value that was pushed for it.
LEMMA ErrPushed ==
    ASSUME NEW m \in Machine, NEW x \in Datum
    PROVE  Pop([Push(m, x) EXCEPT !.err = x], 1) = [m EXCEPT !.err = x]
<1>1. PICK p : p = Push(m, x)
  OBVIOUS
<1>2. p \in Machine /\ Pop(p, 1) = m
  BY <1>1, OnStack, PopPush, PushedUp
<1>3. Pop([p EXCEPT !.err = x], 1) = [Pop(p, 1) EXCEPT !.err = x]
  BY <1>2 DEF Pop, Machine
<1>. QED
  BY <1>1, <1>2, <1>3

LEMMA ThreadWakeupThrowTurns ==
    ASSUME TurnsInv, NEW t \in Thread, NEW x \in Arg, NEW rethrow \in BOOLEAN,
           ThreadWakeupThrow(t, x, rethrow)
    PROVE  TurnsInv'
<1>1. PICK v : v = vm[Runner]
  OBVIOUS
<1>2. /\ cpp # <<>> /\ mode = "run" /\ x \in Datum /\ t \in Datum /\ t \in VM /\ OT_NULL \in Datum
      /\ x \in Trouble /\ Refused \in Trouble
  BY DEF ThreadWakeupThrow, Runs, Datum, VM, Trouble
<1>3. v \in Machine /\ Ready(v) /\ v.susp = FALSE
  BY <1>1, <1>2, RunnerIsReady
<1>4. CASE lv_getvmstate(t) # "suspended"
  <2>1. Raise(Runner, vm[Runner], Refused)
    BY <1>4 DEF ThreadWakeupThrow
  <2>. QED
    BY <1>2, <2>1, ThrowTurns
<1>5. CASE lv_getvmstate(t) = "suspended"
  <2>1. PICK m : m = vm[t]
    OBVIOUS
  <2>2. m \in Machine /\ IsAsleep(m)
    BY <1>2, <1>5, <2>1, StateFits
  <2>3. PICK args, w : args = <<t, x>> /\ w = EnterNative(v, args)
    OBVIOUS
  <2>4. args \in Seq(Datum) /\ Len(args) = 2 /\ args[2] = x /\ Len(args) >= 1
    BY <1>2, <2>3, ArgumentsOf
  <2>5. /\ w \in Machine /\ InNative(w) /\ w.susp = FALSE /\ RootsOf(w.calls) = RootsOf(v.calls)
        /\ \A k \in 1 .. Len(args) : stack_get(w, k) = args[k]
    BY <1>3, <2>3, <2>4, NativeWaits
  <2>6. stack_get(w, 2) = x
    BY <2>4, <2>5
  <2>7. PICK p, thrown : p = Push(m, x) /\ thrown = Pop([p EXCEPT !.err = GetUp(p)], 1)
    OBVIOUS
  <2>8. thrown = [m EXCEPT !.err = x]
    BY <1>2, <2>2, <2>7, PushedUp, ErrPushed
  <2>9. /\ thrown \in Machine /\ thrown.stack = m.stack /\ thrown.base = m.base
        /\ thrown.calls = m.calls /\ thrown.susp = m.susp /\ thrown.root = m.root /\ thrown.err = x
    BY <1>2, <2>2, <2>8, ErrChanged
  <2>10. IsAsleep(thrown)
    BY <2>2, <2>9, SameFrames DEF IsAsleep
  <2>11. PICK e : e = Awake(thrown, OT_NULL)
    OBVIOUS
  <2>12. PICK via : via = IF rethrow THEN "wakeup" ELSE "keep"
    OBVIOUS
  <2>13. via \in {"wakeup", "keep"}
    BY <2>12
  <2>14. /\ Activated(t, via, 0) /\ mode' = "raise" /\ raised' = x
         /\ vm' = [vm EXCEPT ![Runner] = w, ![t] = e]
    <3>1. p = Push(vm[t], stack_get(EnterNative(vm[Runner], <<t, x>>), 2))
      BY <1>1, <2>1, <2>3, <2>6, <2>7
    <3>2. /\ Activated(t, IF rethrow THEN "wakeup" ELSE "keep", 0) /\ mode' = "raise" /\ raised' = x
          /\ vm' = [vm EXCEPT ![Runner] = w, ![t] = Given(lv_wakeupvm(thrown, FALSE), OT_NULL)]
      BY <1>1, <1>5, <2>3, <2>7, <3>1 DEF ThreadWakeupThrow
    <3>. QED
      BY <2>11, <2>12, <3>2, WokenByNothing DEF Awake
  <2>15. Hands(w, e, t, via)
    BY <1>2, <2>13, <2>14, ActivatedHands
  <2>16. RootsOf(w.calls) = RootsOf(vm[Runner].calls) /\ Hands(w, Awake(thrown, OT_NULL), t, via)
    BY <1>1, <2>5, <2>11, <2>15
  <2>17. mode' = "raise" /\ raised' \in Trouble /\ thrown.err = raised'
    BY <1>2, <2>9, <2>14
  <2>. QED
    BY <1>2, <1>5, <2>5, <2>9, <2>10, <2>13, <2>16, <2>17, WakeupTurns
<1>. QED
  BY <1>4, <1>5

\* A function that lv_call gets into is that of an idle thread.
LEMMA CalledObject ==
    ASSUME TurnsInv, NEW t \in VM, lv_getvmstate(t) = "idle"
    PROVE  IsIdle(vm[t])
<1>1. PICK m : m = vm[t]
  OBVIOUS
<1>2. m \in Machine /\ (IsIdle(m) \/ Ready(m) \/ InNative(m))
  BY <1>1 DEF TurnsInv, Turns, VMFits
<1>3. m.calls = <<>>
  BY <1>1 DEF lv_getvmstate
<1>4. ~Ready(m) /\ ~InNative(m)
  BY <1>3 DEF Ready, InNative, Frames
<1>. QED
  BY <1>1, <1>2, <1>4

\* The arguments of lv_call, this first.
Stacked(m, args) == [m EXCEPT !.stack = @ \o <<RootTable>> \o args]

LEMMA StackedFacts ==
    ASSUME NEW m \in Machine, NEW x \in Datum
    PROVE  /\ Stacked(m, <<x>>) = Push(Push(m, RootTable), x)
           /\ Pop(Stacked(m, <<x>>), 2) = m
           /\ Pop(Stacked(m, <<>>), 1) = m
<1>1. PICK s \in Seq(Slots), l \in Nat : s = m.stack /\ l = Len(s)
  BY MachineFacts
<1>2. x \in Slots /\ RootTable \in Slots
  BY OnStack DEF Slots, Datum
<1>3. PICK q, p : q = Append(s, RootTable) /\ p = Append(q, x)
  OBVIOUS
<1>4. q \in Seq(Slots) /\ Len(q) = l + 1 /\ \A k \in 1 .. l : q[k] = s[k]
  <2>1. /\ Append(s, RootTable) \in Seq(Slots) /\ Len(Append(s, RootTable)) = Len(s) + 1
        /\ \A k \in 1 .. Len(s) : Append(s, RootTable)[k] = s[k]
    BY <1>2, AppendProperties
  <2>. QED
    BY <1>1, <1>3, <2>1
<1>5. p \in Seq(Slots) /\ Len(p) = l + 2 /\ \A k \in 1 .. l : p[k] = s[k]
  <2>1. /\ Append(q, x) \in Seq(Slots) /\ Len(Append(q, x)) = Len(q) + 1
        /\ \A k \in 1 .. Len(q) : Append(q, x)[k] = q[k]
    BY <1>2, <1>4, AppendProperties
  <2>2. \A k \in 1 .. l : k \in 1 .. l + 1
    OBVIOUS
  <2>. QED
    BY <1>3, <1>4, <2>1, <2>2
<1>6. s \o <<RootTable>> = q /\ s \o <<RootTable>> \o <<x>> = p /\ q \o <<>> = q
  BY <1>2, <1>3, <1>4
<1>7. SubSeq(p, 1, l) = s /\ SubSeq(q, 1, l) = s
  <2>1. l \in 0 .. Len(p) /\ l \in 0 .. Len(q)
    BY <1>4, <1>5
  <2>2. /\ SubSeq(p, 1, l) \in Seq(Slots) /\ Len(SubSeq(p, 1, l)) = l
        /\ \A k \in 1 .. l : SubSeq(p, 1, l)[k] = p[k]
    BY <1>5, <2>1, StackPrefix
  <2>3. /\ SubSeq(q, 1, l) \in Seq(Slots) /\ Len(SubSeq(q, 1, l)) = l
        /\ \A k \in 1 .. l : SubSeq(q, 1, l)[k] = q[k]
    BY <1>4, <2>1, StackPrefix
  <2>. QED
    BY <1>1, <1>4, <1>5, <2>2, <2>3, SeqEqual
<1>8. Stacked(m, <<x>>) = [m EXCEPT !.stack = p] /\ Stacked(m, <<>>) = [m EXCEPT !.stack = q]
  BY <1>1, <1>6 DEF Stacked
<1>9. Push(Push(m, RootTable), x) = [m EXCEPT !.stack = p]
  BY <1>1, <1>3 DEF Push, Machine
<1>10. Pop([m EXCEPT !.stack = p], 2) = m /\ Pop([m EXCEPT !.stack = q], 1) = m
  <2>1. Len(p) - 2 = l /\ Len(q) - 1 = l
    BY <1>4, <1>5
  <2>. QED
    BY <1>1, <1>7, <2>1 DEF Pop, Machine
<1>. QED
  BY <1>8, <1>9, <1>10

\* lv_call does not get into the function.
LEMMA CallFails ==
    ASSUME TurnsInv, NEW t \in VM, cpp # <<>>, NEW args, NEW w \in Machine, NEW back, NEW err \in Trouble,
           InNative(w), w.susp = FALSE, RootsOf(w.calls) = RootsOf(vm[Runner].calls),
           back = IF t = Runner THEN w ELSE vm[t],
           vm' = [vm EXCEPT ![t] = back,
                            ![Runner] = [LeaveFrame(IF t = Runner THEN back ELSE w) EXCEPT !.err = err]],
           mode' = "raise", raised' = err, UNCHANGED cpp
    PROVE  TurnsInv'
<1>1. PICK e : e = [LeaveFrame(w) EXCEPT !.err = err]
  OBVIOUS
<1>2. Ready(e) /\ e.susp = FALSE /\ e.err = err /\ RootsOf(e.calls) = RootsOf(w.calls)
  BY <1>1, NativeFailed
<1>3. e \in Machine /\ Told(e, mode, raised)'
  BY <1>2 DEF Ready, Frames, Told
<1>4. vm \in [VM -> Machine] /\ Runner \in VM
  BY RunnerIsReady
<1>5. vm' = [vm EXCEPT ![Runner] = e]
  <2>1. CASE t = Runner
    BY <1>1, <1>4, <2>1
  <2>2. CASE t # Runner
    BY <1>1, <1>4, <2>2
  <2>. QED
    BY <2>1, <2>2
<1>6. RootsOf(e.calls) = RootsOf(vm[Runner].calls)
  BY <1>2
<1>. QED
  BY <1>2, <1>3, <1>5, <1>6, RunnerSteps

\* The function of the thread t is called.
LEMMA CallEnters ==
    ASSUME TurnsInv, NEW t \in VM, cpp # <<>>, NEW x \in Datum, NEW w \in Machine, NEW e,
           IsIdle(vm[t]), InNative(w), w.susp = FALSE, RootsOf(w.calls) = RootsOf(vm[Runner].calls),
           e = RootCalled(Stacked(vm[t], <<x>>), x), mode = "run", UNCHANGED <<mode, raised>>,
           Activated(t, "call", 2), vm' = [vm EXCEPT ![Runner] = w, ![t] = e]
    PROVE  TurnsInv'
<1>1. PICK m, p : m = vm[t] /\ p = Push(Push(m, RootTable), x)
  OBVIOUS
<1>2. m \in Machine /\ IsIdle(m) /\ Acts(cpp, t) = {}
  <2>1. IsIdle(m) /\ m.calls = <<>>
    BY <1>1 DEF IsIdle
  <2>. QED
    BY <1>1, <2>1, StateFits
<1>3. e = RootCalled(p, x)
  BY <1>1, <1>2, StackedFacts
<1>4. p \in Machine /\ KeepsFrames(p, m) /\ Topped(p, x) /\ Len(p.stack) = 3 /\ p.stack[1] = FunctionObject
  <2>1. p \in Machine /\ Above(p, m) /\ Topped(p, x) /\ Len(p.stack) = Len(m.stack) + 2
    BY <1>1, <1>2, ArgumentsPushed
  <2>2. Len(m.stack) = 1 /\ m.stack[1] = FunctionObject
    BY <1>2 DEF IsIdle
  <2>3. 1 \in 1 .. Len(m.stack)
    BY <2>2
  <2>4. p.stack[1] = m.stack[1] /\ KeepsFrames(p, m)
    BY <2>1, <2>3 DEF Above
  <2>. QED
    BY <2>1, <2>2, <2>4
<1>5. Ready(e) /\ SameRun(e, m) /\ Cardinality(RootsOf(e.calls)) = 1
  BY <1>2, <1>3, <1>4, IdleCalled
<1>6. raised \in Trouble
  BY RunnerIsReady
<1>7. e \in Machine /\ e.susp = FALSE /\ Told(e, mode, raised)'
  BY <1>2, <1>5, <1>6 DEF Ready, Frames, SameRun, IsIdle, Told
<1>8. PICK via, params : via = "call" /\ params = 2
  OBVIOUS
<1>9. Hands(w, e, t, via)
  BY <1>8, ActivatedHands
<1>. QED
  BY <1>2, <1>5, <1>7, <1>8, <1>9, HandsTurns

LEMMA ThreadCallTurns ==
    ASSUME TurnsInv, NEW t \in Thread, NEW x \in Datum, ThreadCall(t, <<x>>) \/ ThreadCall(t, <<>>)
    PROVE  TurnsInv'
<1>1. PICK v : v = vm[Runner]
  OBVIOUS
<1>2. /\ cpp # <<>> /\ mode = "run" /\ x \in Datum /\ t \in Datum /\ t \in VM
      /\ Refused \in Trouble
  BY DEF ThreadCall, Runs, Datum, VM, Trouble
<1>3. v \in Machine /\ Ready(v) /\ v.susp = FALSE /\ vm[t] \in Machine
  BY <1>1, <1>2, RunnerIsReady, StateFits
<1>4. CASE ThreadCall(t, <<x>>)
  <2>1. PICK args, w : args = <<t>> \o <<x>> /\ w = EnterNative(v, args)
    OBVIOUS
  <2>2. args \in Seq(Datum) /\ Len(args) >= 1
    BY <1>2, <2>1, ArgumentsOf
  <2>3. w \in Machine /\ InNative(w) /\ w.susp = FALSE /\ RootsOf(w.calls) = RootsOf(v.calls)
    BY <1>3, <2>1, <2>2, NativeWaits
  <2>4. PICK m : m = IF t = Runner THEN w ELSE vm[t]
    OBVIOUS
  <2>5. m \in Machine
    BY <1>3, <2>3, <2>4
  <2>6. PICK p : p = Stacked(m, <<x>>)
    OBVIOUS
  <2>7. Pop(p, 2) = m
    BY <1>2, <2>5, <2>6, StackedFacts
  <2>8. Len(<<x>>) + 1 = 2 /\ <<x>>[1] = x
    OBVIOUS
  <2>9. CASE GetUp(m) = FunctionObject
    <3>1. t # Runner /\ IsIdle(vm[t]) /\ m = vm[t]
      <4>1. lv_getvmstate(t) = "idle"
        BY <1>1, <1>4, <2>1, <2>4, <2>8, <2>9 DEF ThreadCall
      <4>2. IsIdle(vm[t]) /\ vm[t].calls = <<>>
        BY <1>2, <4>1, CalledObject DEF IsIdle
      <4>3. v.calls # <<>>
        BY <1>3 DEF Ready, Frames
      <4>. QED
        BY <1>1, <2>4, <4>2, <4>3
    <3>2. PICK e : e = RootCalled(Stacked(vm[t], <<x>>), x)
      OBVIOUS
    <3>3. /\ Activated(t, "call", 2) /\ UNCHANGED <<mode, raised>>
          /\ vm' = [vm EXCEPT ![Runner] = w, ![t] = RootCalled(p, <<x>>[1])]
      BY <1>1, <1>4, <2>1, <2>4, <2>6, <2>8, <2>9 DEF ThreadCall, Stacked, RootCalled
    <3>4. vm' = [vm EXCEPT ![Runner] = w, ![t] = e]
      BY <2>6, <2>8, <3>1, <3>2, <3>3
    <3>. QED
      BY <1>1, <1>2, <2>3, <3>1, <3>2, <3>3, <3>4, CallEnters
  <2>10. CASE GetUp(m) # FunctionObject
    <3>1. PICK err : err = m.err
      OBVIOUS
    <3>2. err \in Trouble
      BY <2>5, <3>1 DEF Machine
    <3>3. /\ vm' = [vm EXCEPT ![t] = m,
                              ![Runner] = [LeaveFrame(IF t = Runner THEN m ELSE w) EXCEPT !.err = err]]
          /\ mode' = "raise" /\ raised' = err /\ UNCHANGED cpp
      <4>1. PICK one : one = <<x>>
        OBVIOUS
      <4>2. /\ ThreadCall(t, one) /\ w = EnterNative(vm[Runner], <<t>> \o one)
            /\ Pop(Stacked(m, one), Len(one) + 1) = m
        BY <1>1, <1>4, <2>1, <2>6, <2>7, <2>8, <4>1
      <4>. QED
        BY <2>4, <2>10, <3>1, <4>2 DEF ThreadCall, Stacked
    <3>. QED
      BY <1>1, <1>2, <2>3, <2>4, <3>2, <3>3, CallFails
  <2>. QED
    BY <2>9, <2>10
<1>5. CASE ThreadCall(t, <<>>)
  <2>1. PICK args, w : args = <<t>> \o <<>> /\ w = EnterNative(v, args)
    OBVIOUS
  <2>2. args \in Seq(Datum) /\ Len(args) >= 1
    BY <1>2, <2>1, ArgumentsOf
  <2>3. w \in Machine /\ InNative(w) /\ w.susp = FALSE /\ RootsOf(w.calls) = RootsOf(v.calls)
    BY <1>3, <2>1, <2>2, NativeWaits
  <2>4. PICK m : m = IF t = Runner THEN w ELSE vm[t]
    OBVIOUS
  <2>5. m \in Machine
    BY <1>3, <2>3, <2>4
  <2>6. PICK p : p = Stacked(m, <<>>)
    OBVIOUS
  <2>7. Pop(p, 1) = m
    BY <1>2, <2>5, <2>6, StackedFacts
  <2>8. Len(<<>>) + 1 = 1 /\ Len(<<>>) + 1 # 2
    OBVIOUS
  <2>9. PICK err : err = IF GetUp(m) = FunctionObject THEN Refused ELSE m.err
    OBVIOUS
  <2>10. err \in Trouble
    BY <1>2, <2>5, <2>9 DEF Machine
  <2>11. /\ vm' = [vm EXCEPT ![t] = m,
                             ![Runner] = [LeaveFrame(IF t = Runner THEN m ELSE w) EXCEPT !.err = err]]
         /\ mode' = "raise" /\ raised' = err /\ UNCHANGED cpp
    <3>1. PICK none : none = <<>>
      OBVIOUS
    <3>2. /\ ThreadCall(t, none) /\ w = EnterNative(vm[Runner], <<t>> \o none)
          /\ Pop(Stacked(m, none), Len(none) + 1) = m /\ Len(none) + 1 # 2
      BY <1>1, <1>5, <2>1, <2>6, <2>7, <2>8, <3>1
    <3>. QED
      BY <2>4, <2>9, <3>2 DEF ThreadCall, Stacked
  <2>. QED
    BY <1>1, <1>2, <2>3, <2>4, <2>10, <2>11, CallFails
<1>. QED
  BY <1>4, <1>5

----------------------------------------------------------------------------
(* Threads: the invariant and what it says.                                *)

LEMMA TurnsStart ==
    ASSUME ThreadsInit
    PROVE  TurnsInv
<1>1. IdleVM \in Machine
  <2>1. <<FunctionObject>> \in Seq(Slots) /\ <<>> \in Seq(Frame) /\ OT_NULL \in Trouble
    BY DEF Slots, Datum, Trouble
  <2>. QED
    BY <2>1 DEF Machine, IdleVM
<1>2. IsIdle(IdleVM)
  BY <1>1 DEF IsIdle, IdleVM
<1>3. cpp = <<>> /\ mode = "run" /\ raised = OT_NULL /\ vm = [t \in VM |-> IdleVM]
  BY DEF ThreadsInit
<1>4. CppFits(cpp)
  BY <1>3 DEF CppFits
<1>5. \A t \in VM : Acts(cpp, t) = {}
  <2>1. DOMAIN cpp = {}
    BY <1>3
  <2>. QED
    BY <2>1 DEF Acts
<1>6. \A t \in VM : VMFits(vm[t]) /\ RunsOn(vm[t], cpp, t)
  BY <1>1, <1>2, <1>3, <1>5, RestingRuns
<1>7. raised \in Trouble
  BY <1>3 DEF Trouble, Datum
<1>. QED
  BY <1>1, <1>3, <1>4, <1>6, <1>7 DEF TurnsInv, Turns

LEMMA TurnsKept ==
    ASSUME TurnsInv, [ThreadsNext]_threadVars
    PROVE  TurnsInv'
<1>1. CASE UNCHANGED threadVars
  BY <1>1 DEF threadVars, TurnsInv, Turns, VMFits, RunsOn
<1>2. CASE \E x \in Arg : ScriptCall(x)
  BY <1>2, ScriptCallTurns
<1>3. CASE \E x \in Arg : NativeCalls(x)
  BY <1>3, NativeCallsTurns
<1>4. CASE \E x \in Arg : Throw(x)
  <2>1. PICK x \in Arg : Throw(x)
    BY <1>4
  <2>2. x \in Trouble /\ cpp # <<>> /\ Raise(Runner, vm[Runner], x)
    BY <2>1 DEF Throw, Runs, Trouble, Datum
  <2>. QED
    BY <2>2, ThrowTurns
<1>5. CASE \E x \in Arg : HostCalls(x)
  BY <1>5, HostCallsTurns
<1>6. CASE \E x \in Value : Return(x)
  BY <1>6, ReturnTurns
<1>7. CASE \E x \in Value : Suspend(x)
  BY <1>7, SuspendTurns
<1>8. CASE \E t \in Thread : (\E x \in Arg : ThreadCall(t, <<x>>)) \/ ThreadCall(t, <<>>)
  <2>1. PICK t \in Thread : (\E x \in Arg : ThreadCall(t, <<x>>)) \/ ThreadCall(t, <<>>)
    BY <1>8
  <2>2. CASE \E x \in Arg : ThreadCall(t, <<x>>)
    BY <2>2, ThreadCallTurns DEF Datum
  <2>3. CASE ThreadCall(t, <<>>)
    <3>1. OT_NULL \in Datum
      BY DEF Datum
    <3>. QED
      BY <2>3, <3>1, ThreadCallTurns
  <2>. QED
    BY <2>1, <2>2, <2>3
<1>9. CASE \E t \in Thread : (\E x \in Value : ThreadWakeup(t, <<x>>)) \/ ThreadWakeup(t, <<>>)
  <2>1. PICK t \in Thread : (\E x \in Value : ThreadWakeup(t, <<x>>)) \/ ThreadWakeup(t, <<>>)
    BY <1>9
  <2>2. CASE \E x \in Value : ThreadWakeup(t, <<x>>)
    BY <2>2, ThreadWakeupTurns DEF Datum
  <2>3. CASE ThreadWakeup(t, <<>>)
    <3>1. OT_NULL \in Datum
      BY DEF Datum
    <3>. QED
      BY <2>3, <3>1, ThreadWakeupTurns
  <2>. QED
    BY <2>1, <2>2, <2>3
<1>10. CASE \E t \in Thread, x \in Arg, rethrow \in BOOLEAN : ThreadWakeupThrow(t, x, rethrow)
  BY <1>10, ThreadWakeupThrowTurns
<1>11. CASE Catch
  BY <1>11, CatchTurns
<1>12. CASE Unwind
  BY <1>12, UnwindTurns
<1>13. CASE HostWakesUp
  BY <1>13, HostWakesUpTurns
<1>. QED
  BY <1>1, <1>2, <1>3, <1>4, <1>5, <1>6, <1>7, <1>8, <1>9, <1>10, <1>11, <1>12, <1>13 DEF ThreadsNext

LEMMA RunsWhenOnStack ==
    ASSUME TurnsInv
    PROVE  RunningIsOnCppStack
<1>1. ASSUME NEW t \in VM
      PROVE  lv_getvmstate(t) = "running" <=> \E i \in DOMAIN cpp : cpp[i].vm = t
  <2>1. PICK m : m = vm[t]
    OBVIOUS
  <2>2. m \in Machine /\ m.susp \in BOOLEAN /\ RunsOn(m, cpp, t)
    BY <2>1, StateFits DEF TurnsInv, Turns
  <2>3. lv_getvmstate(t) = "running" <=> m.calls # <<>> /\ m.susp = FALSE
    <3>1. CASE m.susp = TRUE
      BY <2>1, <3>1 DEF lv_getvmstate
    <3>2. CASE m.susp = FALSE
      BY <2>1, <3>2 DEF lv_getvmstate
    <3>. QED
      BY <2>2, <3>1, <3>2
  <2>4. m.calls # <<>> /\ m.susp = FALSE <=> Acts(cpp, t) # {}
    BY <2>2 DEF RunsOn
  <2>. QED
    BY <2>3, <2>4 DEF Acts
<1>2. ASSUME NEW t \in VM, vm[t].susp, NEW i \in DOMAIN vm[t].calls PROVE vm[t].calls[i].kind = "script"
  <2>1. PICK m : m = vm[t]
    OBVIOUS
  <2>2. m \in Machine /\ m.susp = TRUE /\ VMFits(m)
    BY <1>2, <2>1, StateFits DEF TurnsInv, Turns
  <2>3. i \in 1 .. Len(m.calls)
    BY <2>1, <2>2, MachineFacts, LenProperties
  <2>. QED
    BY <2>1, <2>2, <2>3 DEF VMFits, IsAsleep
<1>3. ASSUME NEW i \in DOMAIN cpp, NEW j \in DOMAIN cpp, i < j, cpp[i].vm = cpp[j].vm
      PROVE  cpp[j].via = "native"
  <2>1. cpp \in Seq(Act) /\ DOMAIN cpp = 1 .. Len(cpp) /\ \A k \in 1 .. Len(cpp) : ActFits(cpp, k)
    BY LenProperties DEF TurnsInv, Turns, CppFits
  <2>2. i \in 1 .. Len(cpp) /\ j \in 1 .. Len(cpp) /\ cpp[j] \in Act /\ ActFits(cpp, j)
    BY <2>1
  <2>3. i \in 1 .. j - 1 /\ j # 1
    BY <1>3, <2>2
  <2>. QED
    BY <1>3, <2>2, <2>3 DEF ActFits, Act
<1>. QED
  BY <1>1, <1>2, <1>3 DEF RunningIsOnCppStack

LEMMA CleanWhenAtRest ==
    ASSUME TurnsInv
    PROVE  StacksAreClean
<1>1. ASSUME NEW t \in VM, lv_getvmstate(t) = "idle"
      PROVE  vm[t].stack = <<FunctionObject>> /\ vm[t].base = 0
  BY <1>1, StateFits DEF IsIdle
<1>2. ASSUME NEW t \in VM, lv_getvmstate(t) = "suspended"
      PROVE  Len(vm[t].stack) = vm[t].base + 3
  BY <1>2, StateFits DEF IsAsleep, Ready
<1>. QED
  BY <1>1, <1>2 DEF StacksAreClean

LEMMA RegistersAre ==
    ASSUME NEW s \in Seq(Slots), NEW b \in Nat, b + 3 <= Len(s), NEW x, NEW y, NEW z,
           s[b + 1] = x, s[b + 2] = y, s[b + 3] = z
    PROVE  SubSeq(s, b + 1, b + 3) = <<x, y, z>>
<1>1. PICK u : u = SubSeq(s, b + 1, b + 3)
  OBVIOUS
<1>2. \A k \in b + 1 .. b + 3 : k \in 1 .. Len(s) /\ s[k] \in Slots
  OBVIOUS
<1>3. /\ u \in Seq(Slots) /\ Len(u) = 3
      /\ u[1] = s[b + 1] /\ u[2] = s[b + 2] /\ u[3] = s[b + 3]
  <2>1. b + 1 \in Int /\ b + 3 \in Int /\ (b + 3) - (b + 1) + 1 = 3 /\ ~(b + 3 < b + 1)
    OBVIOUS
  <2>2. u \in Seq(Slots) /\ Len(u) = 3 /\ \A i \in 1 .. 3 : u[i] = s[(b + 1) + i - 1]
    BY <1>1, <1>2, <2>1, SubSeqProperties
  <2>3. (b + 1) + 1 - 1 = b + 1 /\ (b + 1) + 2 - 1 = b + 2 /\ (b + 1) + 3 - 1 = b + 3
    OBVIOUS
  <2>4. 1 \in 1 .. 3 /\ 2 \in 1 .. 3 /\ 3 \in 1 .. 3
    OBVIOUS
  <2>. QED
    BY <2>2, <2>3, <2>4
<1>4. x \in Slots /\ y \in Slots /\ z \in Slots
  BY <1>2
<1>5. PICK w : w = <<x, y, z>>
  OBVIOUS
<1>6. w \in Seq(Slots) /\ Len(w) = 3 /\ w[1] = x /\ w[2] = y /\ w[3] = z
  BY <1>4, <1>5
<1>7. \A k \in 1 .. 3 : u[k] = w[k]
  <2>1. \A k \in 1 .. 3 : k = 1 \/ k = 2 \/ k = 3
    OBVIOUS
  <2>. QED
    BY <1>3, <1>6, <2>1
<1>8. u = w
  BY <1>3, <1>6, <1>7, SeqEqual
<1>. QED
  BY <1>1, <1>5, <1>8

LEMMA HandedOverAlways ==
    ASSUME TurnsInv
    PROVE  HandedOver
<1>1. ASSUME NEW t \in VM, NEW i \in DOMAIN vm[t].calls, vm[t].calls[i].kind = "script",
             NEW b, b = IF i = Len(vm[t].calls) THEN vm[t].base ELSE vm[t].calls[i + 1].base
      PROVE  SubSeq(vm[t].stack, b + 1, b + 3) = <<RootTable, vm[t].calls[i].arg, vm[t].calls[i].result>>
  <2>1. PICK m : m = vm[t]
    OBVIOUS
  <2>2. m \in Machine /\ (IsIdle(m) \/ Ready(m) \/ InNative(m))
    BY <2>1 DEF TurnsInv, Turns, VMFits
  <2>3. i \in 1 .. Len(m.calls) /\ m.stack \in Seq(Slots)
    BY <2>1, <2>2, MachineFacts, LenProperties
  <2>4. ~IsIdle(m)
    BY <2>3 DEF IsIdle
  <2>5. RegistersHold(m, i)
    BY <2>2, <2>3, <2>4 DEF Ready, InNative, Frames
  <2>6. b = Base(m, i) /\ b \in Nat
    BY <1>1, <2>1, <2>2, <2>3, MachineFacts DEF Base
  <2>7. /\ b + 3 <= Len(m.stack) /\ m.stack[b + 1] = RootTable
        /\ m.stack[b + 2] = m.calls[i].arg /\ m.stack[b + 3] = m.calls[i].result
    BY <1>1, <2>1, <2>5, <2>6 DEF RegistersHold
  <2>80. PICK s \in Seq(Slots), d \in Nat : s = m.stack /\ d = b
    BY <2>3, <2>6
  <2>81. PICK x, y, z : x = RootTable /\ y = m.calls[i].arg /\ z = m.calls[i].result
    OBVIOUS
  <2>82. d + 3 <= Len(s) /\ s[d + 1] = x /\ s[d + 2] = y /\ s[d + 3] = z
    BY ONLY <2>7, <2>80, <2>81
  <2>83. SubSeq(s, d + 1, d + 3) = <<x, y, z>>
    BY ONLY <2>80, <2>82, RegistersAre
  <2>8. SubSeq(m.stack, b + 1, b + 3) = <<RootTable, m.calls[i].arg, m.calls[i].result>>
    BY ONLY <2>80, <2>81, <2>83
  <2>. QED
    BY <2>1, <2>8
<1>2. mode = "raise" => vm[Runner].err = raised
  <2>1. mode = "raise" => cpp # <<>>
    BY DEF TurnsInv, Turns
  <2>. QED
    BY <2>1, RunnerIsReady
<1>. QED
  BY <1>1, <1>2 DEF HandedOver

\* Threads take turns, with clean stacks, and get what they are handed: a VM is
\* running when it has activations on the C++ stack, one that is done or asleep
\* has nothing of a call left on its own, and what a script reads is what the
\* other side gave thread_call, thread_wakeup, thread_wakeupthrow, suspend or
\* return (baselib.cpp:1174-1265, over lv_call and lv_wakeupvm of api.cpp).  What
\* the guard of ThreadCall leaves out is not covered: a thread_call that runs a
\* function it finds on top of a busy or suspended thread.
THEOREM ThreadsHandOver == ThreadsSpec => []ThreadsTakeTurns
<1>1. ThreadsInit => TurnsInv
  BY TurnsStart
<1>2. TurnsInv /\ [ThreadsNext]_threadVars => TurnsInv'
  BY TurnsKept
<1>3. TurnsInv => ThreadsTakeTurns
  BY RunsWhenOnStack, CleanWhenAtRest, HandedOverAlways DEF ThreadsTakeTurns
<1>. QED
  BY <1>1, <1>2, <1>3, PTL DEF ThreadsSpec

----------------------------------------------------------------------------
(* LineInfos: the search finds the last info before an instruction pointer. *)

Info == [line : Nat, op : Nat]

\* Infos are in the order of the instructions they are about.
InOrder(infos) ==
    \A a \in DOMAIN infos, b \in DOMAIN infos : a <= b => infos[a].op <= infos[b].op

\* j is the last of the infos before the instruction pointer.
LastBefore(infos, ip, j) ==
    /\ j \in DOMAIN infos
    /\ infos[j].op < ip
    /\ j = Len(infos) \/ infos[j + 1].op >= ip

\* What a search for the info j has reached after k rounds.
Narrowed(n, k, j, r) ==
    /\ r \in [low : 1 .. n + 1, high : 0 .. n, mid : 1 .. n, found : BOOLEAN]
    /\ r.found => j <= r.mid
    /\ ~r.found => /\ j <= r.high /\ r.low - 1 <= r.mid
                   /\ r.low <= r.high + 1
                   /\ r.low > r.high \/ (r.high - r.low) + 1 <= n - k

LEMMA InfosHaveOps ==
    ASSUME NEW infos \in Seq(Info)
    PROVE  Len(infos) \in Nat /\ \A a \in 1 .. Len(infos) : infos[a].op \in Nat
<1>1. \A a \in 1 .. Len(infos) : infos[a] \in Info
  OBVIOUS
<1>. QED
  BY <1>1 DEF Info

\* The middle of low and high is between them.
LEMMA MidFits ==
    ASSUME NEW low \in Nat, NEW high \in Nat, low <= high
    PROVE  low + ((high - low) \div 2) \in low .. high
<1>1. high - low \in Nat
  OBVIOUS
<1>2. (high - low) \div 2 \in 0 .. (high - low)
  BY <1>1
<1>. QED
  BY <1>2

\* The three things a round can do (object.cpp:257-267).
RoundDoes(infos, ip, r, mid, next) ==
    LET at == infos[mid].op
        this == [r EXCEPT !.mid = mid]
        round == SearchRound(infos, ip, r)
    IN  /\ at > ip => round = [this EXCEPT !.high = mid - 1]
        /\ at < ip /\ next < ip => round = [this EXCEPT !.low = mid + 1]
        /\ ~(at > ip) /\ ~(at < ip /\ next < ip) => round = [this EXCEPT !.found = TRUE]

LEMMA RoundCases ==
    ASSUME NEW infos, NEW ip \in Int, NEW r, NEW mid, NEW next \in Int,
           mid = r.low + ((r.high - r.low) \div 2), infos[mid].op \in Int,
           next = IF mid < Len(infos) THEN infos[mid + 1].op ELSE -1,
           r.low \in Int, r.high \in Int, ~r.found, r.low <= r.high
    PROVE  RoundDoes(infos, ip, r, mid, next)
<1>. DEFINE at == infos[mid].op
<1>1. ~(r.found \/ r.low > r.high) /\ (~r.found /\ r.low <= r.high)
  OBVIOUS
<1>2. ~(at > ip /\ at < ip)
  OBVIOUS
<1>3. SearchRound(infos, ip, r) =
        CASE r.found \/ r.low > r.high -> r
          [] ~r.found /\ r.low <= r.high /\ at > ip -> [[r EXCEPT !.mid = mid] EXCEPT !.high = mid - 1]
          [] ~r.found /\ r.low <= r.high /\ at < ip /\ next < ip -> [[r EXCEPT !.mid = mid] EXCEPT !.low = mid + 1]
          [] OTHER -> [[r EXCEPT !.mid = mid] EXCEPT !.found = TRUE]
  BY DEF SearchRound
<1>. QED
  BY <1>1, <1>2, <1>3 DEF RoundDoes

\* A round of the search in GetLine (object.cpp:254-268) halves what is left and
\* does not lose the info.
LEMMA RoundNarrows ==
    ASSUME NEW infos \in Seq(Info), InOrder(infos), NEW ip \in Nat \ {0}, NEW j,
           LastBefore(infos, ip, j), NEW k \in Nat, NEW r, Narrowed(Len(infos), k, j, r)
    PROVE  Narrowed(Len(infos), k + 1, j, SearchRound(infos, ip, r))
<1>. DEFINE n == Len(infos)
            mid == r.low + ((r.high - r.low) \div 2)
            next == IF mid < n THEN infos[mid + 1].op ELSE -1
<1>1. /\ n \in Nat /\ r.low \in 1 .. n + 1 /\ r.high \in 0 .. n /\ r.mid \in 1 .. n
      /\ r.found \in BOOLEAN
      /\ r = [low |-> r.low, high |-> r.high, mid |-> r.mid, found |-> r.found]
  BY DEF Narrowed
<1>0. \A a \in 1 .. n : infos[a].op \in Nat
  BY InfosHaveOps
<1>2. /\ \A a \in 1 .. n : infos[a].op \in Nat
      /\ j \in 1 .. n /\ infos[j].op < ip /\ (j = n \/ infos[j + 1].op >= ip)
      /\ \A a \in 1 .. n, b \in 1 .. n : a <= b => infos[a].op <= infos[b].op
  BY <1>0 DEF LastBefore, InOrder
<1>3. CASE r.found \/ r.low > r.high
  <2>1. SearchRound(infos, ip, r) = r
    BY <1>1, <1>3 DEF SearchRound
  <2>. QED
    BY <1>1, <1>3, <2>1 DEF Narrowed
<1>4. CASE ~r.found /\ r.low <= r.high
  <2>1. mid \in r.low .. r.high /\ mid \in 1 .. n
    BY <1>1, <1>4, MidFits
  <2>. HIDE DEF mid
  <2>2. next \in Int /\ infos[mid].op \in Int
    BY <1>2, <2>1
  <2>6. /\ mid = r.low + ((r.high - r.low) \div 2)
        /\ next = IF mid < Len(infos) THEN infos[mid + 1].op ELSE -1
        /\ r.low \in Int /\ r.high \in Int /\ ip \in Int
    BY <1>1 DEF mid, next
  <2>. HIDE DEF next
  <2>7. RoundDoes(infos, ip, r, mid, next)
    BY <1>4, <2>2, <2>6, RoundCases
  <2>3. CASE infos[mid].op > ip
    <3>1. SearchRound(infos, ip, r) = [low |-> r.low, high |-> mid - 1, mid |-> mid, found |-> FALSE]
      <4>1. SearchRound(infos, ip, r) = [[r EXCEPT !.mid = mid] EXCEPT !.high = mid - 1]
        BY <2>3, <2>7 DEF RoundDoes
      <4>. QED
        BY <1>1, <1>4, <4>1
    <3>2. j <= mid - 1
      <4>. SUFFICES ASSUME mid <= j PROVE FALSE
        BY <1>2, <2>1
      <4>1. infos[mid].op <= infos[j].op
        BY <1>2, <2>1
      <4>2. infos[mid].op \in Nat /\ infos[j].op \in Nat /\ infos[j].op < ip
        BY <1>2, <2>1
      <4>. QED
        BY <2>3, <4>1, <4>2
    <3>3. /\ r.low <= (mid - 1) + 1
          /\ r.low > mid - 1 \/ ((mid - 1) - r.low) + 1 <= n - (k + 1)
      BY <1>1, <1>4, <2>1 DEF Narrowed
    <3>. QED
      BY <1>1, <1>4, <2>1, <3>1, <3>2, <3>3 DEF Narrowed
  <2>4. CASE infos[mid].op < ip /\ next < ip
    <3>1. SearchRound(infos, ip, r) = [low |-> mid + 1, high |-> r.high, mid |-> mid, found |-> FALSE]
      <4>1. SearchRound(infos, ip, r) = [[r EXCEPT !.mid = mid] EXCEPT !.low = mid + 1]
        BY <2>4, <2>7 DEF RoundDoes
      <4>. QED
        BY <1>1, <1>4, <4>1
    <3>2. /\ j <= r.high /\ mid + 1 <= r.high + 1
          /\ mid + 1 > r.high \/ (r.high - (mid + 1)) + 1 <= n - (k + 1)
      BY <1>1, <1>4, <2>1 DEF Narrowed
    <3>. QED
      BY <1>1, <1>4, <2>1, <3>1, <3>2 DEF Narrowed
  <2>5. CASE ~(infos[mid].op > ip) /\ ~(infos[mid].op < ip /\ next < ip)
    <3>1. SearchRound(infos, ip, r) = [low |-> r.low, high |-> r.high, mid |-> mid, found |-> TRUE]
      <4>1. SearchRound(infos, ip, r) = [[r EXCEPT !.mid = mid] EXCEPT !.found = TRUE]
        BY <2>5, <2>7 DEF RoundDoes
      <4>. QED
        BY <1>1, <1>4, <4>1
    <3>2. j <= mid
      <4>. SUFFICES ASSUME mid + 1 <= j PROVE FALSE
        BY <1>2, <2>1
      <4>1. mid < n /\ infos[mid + 1].op < ip /\ infos[mid].op < ip
        BY <1>2, <2>1
      <4>2. next = infos[mid + 1].op
        BY <4>1 DEF next
      <4>. QED
        BY <2>5, <4>1, <4>2
    <3>. QED
      BY <1>1, <2>1, <3>1, <3>2 DEF Narrowed
  <2>. QED
    BY <2>3, <2>4, <2>5
<1>. QED
  BY <1>1, <1>3, <1>4

\* The rounds of a search.
IsSearch(infos, ip, n, round) ==
    round = [k \in 0 .. n |->
                IF k = 0 THEN [low |-> 1, high |-> Len(infos), mid |-> 1, found |-> FALSE]
                ELSE SearchRound(infos, ip, round[k - 1])]

LEMMA SearchExists ==
    ASSUME NEW infos, NEW ip, NEW n \in Nat
    PROVE  \E round : IsSearch(infos, ip, n, round)
<1>. DEFINE S == {m \in Nat : \E round : IsSearch(infos, ip, m, round)}
            start == [low |-> 1, high |-> Len(infos), mid |-> 1, found |-> FALSE]
<1>. HIDE DEF start
<1>1. 0 \in S
  <2>. DEFINE round == [k \in 0 .. 0 |-> start]
  <2>1. round = [k \in 0 .. 0 |-> IF k = 0 THEN start ELSE SearchRound(infos, ip, round[k - 1])]
    OBVIOUS
  <2>2. IsSearch(infos, ip, 0, round)
    BY <2>1 DEF IsSearch, start
  <2>. QED
    BY <2>2
<1>2. ASSUME NEW m \in S PROVE m + 1 \in S
  <2>1. PICK round : IsSearch(infos, ip, m, round)
    OBVIOUS
  <2>2. \A k \in 0 .. m : round[k] = IF k = 0 THEN start ELSE SearchRound(infos, ip, round[k - 1])
    BY <2>1 DEF IsSearch, start
  <2>. DEFINE more == [k \in 0 .. m + 1 |-> IF k = 0 THEN start
                                            ELSE SearchRound(infos, ip, round[k - 1])]
  <2>3. \A k \in 0 .. m : more[k] = round[k]
    BY <2>2
  <2>4. \A k \in 0 .. m + 1 : k # 0 => k - 1 \in 0 .. m
    OBVIOUS
  <2>5. more = [k \in 0 .. m + 1 |-> IF k = 0 THEN start
                                     ELSE SearchRound(infos, ip, more[k - 1])]
    BY <2>3, <2>4
  <2>6. IsSearch(infos, ip, m + 1, more)
    BY <2>5 DEF IsSearch, start
  <2>. QED
    BY <2>6
<1>3. S = Nat
  BY <1>1, <1>2, AllNaturals
<1>. QED
  BY <1>3

\* The search ends at the info or behind it.
LEMMA SearchReaches ==
    ASSUME NEW infos \in Seq(Info), InOrder(infos), NEW ip \in Nat \ {0}, NEW j,
           LastBefore(infos, ip, j)
    PROVE  Search(infos, ip) \in j .. Len(infos)
<1>. DEFINE n == Len(infos)
            start == [low |-> 1, high |-> n, mid |-> 1, found |-> FALSE]
<1>0. n \in Nat /\ j \in 1 .. n
  BY DEF LastBefore
<1>1. PICK round : /\ IsSearch(infos, ip, n, round)
                   /\ Search(infos, ip) = round[n].mid
  <2>. DEFINE rounds == CHOOSE round : IsSearch(infos, ip, n, round)
  <2>1. IsSearch(infos, ip, n, rounds)
    BY <1>0, SearchExists
  <2>2. Search(infos, ip) = rounds[n].mid
    BY DEF Search, IsSearch
  <2>. QED
    BY <2>1, <2>2
<1>2. \A k \in 0 .. n : round[k] = IF k = 0 THEN start ELSE SearchRound(infos, ip, round[k - 1])
  BY <1>1 DEF IsSearch
<1>. DEFINE S == {k \in Nat : k <= n => Narrowed(n, k, j, round[k])}
<1>3. 0 \in S
  <2>1. round[0] = start
    <3>1. 0 \in 0 .. n
      BY <1>0
    <3>. QED
      BY <1>2, <3>1
  <2>2. Narrowed(n, 0, j, start)
    BY <1>0 DEF Narrowed
  <2>. QED
    BY <2>1, <2>2
<1>4. ASSUME NEW k \in S PROVE k + 1 \in S
  <2>. SUFFICES ASSUME k + 1 <= n PROVE Narrowed(n, k + 1, j, round[k + 1])
    OBVIOUS
  <2>1. round[k + 1] = SearchRound(infos, ip, round[k])
    <3>1. k + 1 \in 0 .. n /\ k + 1 # 0 /\ (k + 1) - 1 = k
      BY <1>0
    <3>. QED
      BY <1>2, <3>1
  <2>2. k \in Nat /\ Narrowed(n, k, j, round[k])
    BY <1>0
  <2>. QED
    BY <2>1, <2>2, RoundNarrows
<1>5. S = Nat
  <2>. HIDE DEF S
  <2>1. S \in SUBSET Nat
    BY DEF S
  <2>. QED
    BY <1>3, <1>4, <2>1, AllNaturals
<1>6. Narrowed(n, n, j, round[n])
  BY <1>0, <1>5
<1>7. round[n].mid \in j .. n
  BY <1>0, <1>6 DEF Narrowed
<1>. QED
  BY <1>1, <1>7

\* GetLine (object.cpp:248-275) gives the line of the last info before the
\* instruction pointer.
LEMMA GetLineFinds ==
    ASSUME NEW infos \in Seq(Info), InOrder(infos), NEW ip \in Nat \ {0}, NEW j,
           LastBefore(infos, ip, j)
    PROVE  GetLine(infos, ip) = infos[j].line
<1>1. PICK mid \in j .. Len(infos) : mid = Search(infos, ip)
  BY SearchReaches
<1>. DEFINE T == {k \in 1 .. mid : k = 1 \/ infos[k].op < ip}
<1>2. /\ Len(infos) \in Nat /\ j \in 1 .. Len(infos) /\ infos[j].op < ip
      /\ j = Len(infos) \/ infos[j + 1].op >= ip
      /\ \A a \in 1 .. Len(infos) : infos[a].op \in Nat
      /\ \A a \in 1 .. Len(infos), b \in 1 .. Len(infos) : a <= b => infos[a].op <= infos[b].op
  BY InfosHaveOps DEF LastBefore, InOrder
<1>3. j \in T
  BY <1>1, <1>2
<1>4. \A k \in T : k <= j
  <2>. SUFFICES ASSUME NEW k \in T, j + 1 <= k PROVE FALSE
    BY <1>2
  <2>1. k \in 1 .. Len(infos) /\ j + 1 \in 1 .. Len(infos) /\ k # 1
    BY <1>1, <1>2
  <2>. QED
    BY <1>2, <2>1
<1>5. \A m \in T : (\A k \in T : m >= k) => m = j
  BY <1>1, <1>2, <1>3, <1>4
<1>. HIDE DEF T
<1>6. Max(T) = j
  <2>1. T \in SUBSET Nat
    BY DEF T
  <2>2. \A k \in T : j >= k
    BY <1>2, <1>4, <2>1
  <2>. QED
    BY <1>3, <1>5, <2>2 DEF Max
<1>7. Down(infos, ip, mid) = j
  BY <1>6 DEF Down, T
<1>. QED
  BY <1>1, <1>7 DEF GetLine

----------------------------------------------------------------------------
(* The line infos of a function while it is compiled.                      *)

Instr == [op : {"CODE", "LINE"}, line : Nat]

\* The infos of a function fit its instructions: each but a line is behind the
\* info of its statement, and before the next.
InfosFit(infos, code) ==
    /\ infos \in Seq(Info) /\ code \in Seq(Instr)
    /\ InOrder(infos)
    /\ \A a \in DOMAIN infos : infos[a].op <= Len(code)
    /\ \A i \in DOMAIN code : code[i] # Line =>
          \E j \in DOMAIN infos : LastBefore(infos, i, j) /\ infos[j].line = code[i].line

\* The last info is the one of a line that ends the code.
LineIsLast(infos, code) ==
    code # <<>> /\ code[Len(code)] = Line =>
        infos # <<>> /\ infos[Len(infos)].op >= Len(code) - 1

\* A function with statements.
FuncFits(f) ==
    /\ f \in [code : Seq(Instr), infos : Seq(Info), line : Nat, opt : BOOLEAN]
    /\ InfosFit(f.infos, f.code)
    /\ f.line # 0
    /\ f.infos # <<>> /\ f.infos[Len(f.infos)].line = f.line

\* A function that goes on: a line that is forced ends it.
Begun(f) == FuncFits(f) /\ LineIsLast(f.infos, f.code)

\* An instruction that is a line is about no statement.
LEMMA LineFits ==
    ASSUME NEW infos, NEW code, InfosFit(infos, code)
    PROVE  InfosFit(infos, Append(code, Line))
<1>. DEFINE more == Append(code, Line)
<1>1. /\ infos \in Seq(Info) /\ code \in Seq(Instr) /\ InOrder(infos)
      /\ Len(infos) \in Nat /\ Len(code) \in Nat
      /\ \A a \in 1 .. Len(infos) : infos[a].op \in Nat /\ infos[a].op <= Len(code)
  BY InfosHaveOps DEF InfosFit
<1>2. Line \in Instr
  BY DEF Line, Instr
<1>3. /\ more \in Seq(Instr) /\ Len(more) = Len(code) + 1
      /\ \A i \in 1 .. Len(code) : more[i] = code[i]
      /\ more[Len(code) + 1] = Line
  BY <1>1, <1>2
<1>. HIDE DEF more
<1>4. ASSUME NEW i \in DOMAIN more, more[i] # Line
      PROVE  \E j \in DOMAIN infos : LastBefore(infos, i, j) /\ infos[j].line = more[i].line
  <2>1. i \in 1 .. Len(code) /\ i \in DOMAIN code /\ more[i] = code[i]
    BY <1>1, <1>3, <1>4
  <2>. QED
    BY <1>4, <2>1 DEF InfosFit
<1>5. \A a \in DOMAIN infos : infos[a].op <= Len(more)
  BY <1>1, <1>3
<1>6. InfosFit(infos, more)
  BY <1>1, <1>3, <1>4, <1>5 DEF InfosFit
<1>. QED
  BY <1>6 DEF more

\* A new info is behind the instructions that are there.
LEMMA InfoFits ==
    ASSUME NEW infos, NEW code, InfosFit(infos, code), NEW line \in Nat
    PROVE  InfosFit(Append(infos, [line |-> line, op |-> Len(code)]), code)
<1>. DEFINE info == [line |-> line, op |-> Len(code)]
            more == Append(infos, info)
<1>1. /\ infos \in Seq(Info) /\ code \in Seq(Instr)
      /\ Len(infos) \in Nat /\ Len(code) \in Nat
      /\ \A a \in 1 .. Len(infos) : infos[a].op \in Nat /\ infos[a].op <= Len(code)
      /\ \A a \in 1 .. Len(infos), b \in 1 .. Len(infos) : a <= b => infos[a].op <= infos[b].op
  BY InfosHaveOps DEF InfosFit, InOrder
<1>2. info \in Info /\ info.op = Len(code)
  BY <1>1 DEF Info
<1>. HIDE DEF info
<1>3. /\ more \in Seq(Info) /\ Len(more) = Len(infos) + 1
      /\ DOMAIN more = 1 .. Len(infos) + 1
      /\ \A a \in 1 .. Len(infos) : more[a] = infos[a]
      /\ more[Len(infos) + 1] = info
  BY <1>1, <1>2
<1>. HIDE DEF more
<1>4. InOrder(more)
  <2>. SUFFICES ASSUME NEW a \in 1 .. Len(infos) + 1, NEW b \in 1 .. Len(infos) + 1, a <= b
                PROVE  more[a].op <= more[b].op
    BY <1>3 DEF InOrder
  <2>1. CASE b = Len(infos) + 1
    BY <1>1, <1>2, <1>3, <2>1
  <2>2. CASE b \in 1 .. Len(infos)
    BY <1>1, <1>3, <2>2
  <2>. QED
    BY <1>1, <2>1, <2>2
<1>5. \A a \in DOMAIN more : more[a].op <= Len(code)
  <2>. SUFFICES ASSUME NEW a \in 1 .. Len(infos) + 1 PROVE more[a].op <= Len(code)
    BY <1>3
  <2>. QED
    BY <1>1, <1>2, <1>3
<1>6. ASSUME NEW i \in DOMAIN code, code[i] # Line
      PROVE  \E j \in DOMAIN more : LastBefore(more, i, j) /\ more[j].line = code[i].line
  <2>1. PICK j \in DOMAIN infos : LastBefore(infos, i, j) /\ infos[j].line = code[i].line
    BY <1>6 DEF InfosFit
  <2>2. i \in 1 .. Len(code) /\ j \in 1 .. Len(infos)
    BY <1>1
  <2>3. more[j] = infos[j] /\ j \in 1 .. Len(infos) + 1 /\ j + 1 \in 1 .. Len(infos) + 1
    BY <1>1, <1>3, <2>2
  <2>4. more[j + 1].op >= i
    <3>1. CASE j = Len(infos)
      BY <1>1, <1>2, <1>3, <2>2, <3>1
    <3>2. CASE j # Len(infos)
      <4>1. j + 1 \in 1 .. Len(infos) /\ infos[j + 1].op >= i
        BY <1>1, <2>1, <2>2, <3>2 DEF LastBefore
      <4>. QED
        BY <1>3, <4>1
    <3>. QED
      BY <3>1, <3>2
  <2>5. infos[j].op < i
    BY <2>1 DEF LastBefore
  <2>6. LastBefore(more, i, j)
    BY <1>3, <2>3, <2>4, <2>5 DEF LastBefore
  <2>. QED
    BY <1>3, <2>1, <2>3, <2>6
<1>7. InfosFit(more, code)
  BY <1>1, <1>3, <1>4, <1>5, <1>6 DEF InfosFit
<1>. QED
  BY <1>7 DEF more, info

\* AddInstruction takes an info away with the line it replaces: no instruction
\* is behind it.
LEMMA InfosFitFront ==
    ASSUME NEW infos, NEW code, InfosFit(infos, code), LineIsLast(infos, code),
           code # <<>>, code[Len(code)] = Line
    PROVE  InfosFit(Front(infos), code)
<1>. DEFINE fewer == Front(infos)
            n == Len(infos)
<1>1. /\ infos \in Seq(Info) /\ code \in Seq(Instr)
      /\ n \in Nat /\ Len(code) \in Nat /\ n # 0
      /\ \A a \in 1 .. n : infos[a].op \in Nat /\ infos[a].op <= Len(code)
      /\ \A a \in 1 .. n, b \in 1 .. n : a <= b => infos[a].op <= infos[b].op
      /\ infos[n].op >= Len(code) - 1
  BY InfosHaveOps DEF InfosFit, InOrder, LineIsLast
<1>2. /\ fewer \in Seq(Info) /\ Len(fewer) = n - 1 /\ DOMAIN fewer = 1 .. n - 1
      /\ \A a \in 1 .. n - 1 : fewer[a] = infos[a]
  <2>1. \A i \in 1 .. n - 1 : infos[i] \in Info
    BY <1>1
  <2>2. fewer = SubSeq(infos, 1, n - 1)
    BY DEF Front
  <2>3. /\ fewer \in Seq(Info) /\ Len(fewer) = n - 1
        /\ \A a \in 1 .. n - 1 : fewer[a] = infos[a]
    <3>1. n - 1 \in Int /\ 1 \in Int
      BY <1>1
    <3>. DEFINE short == SubSeq(infos, 1, n - 1)
    <3>2. /\ short \in Seq(Info) /\ Len(short) = IF 1 <= n - 1 THEN (n - 1) - 1 + 1 ELSE 0
          /\ \A a \in 1 .. (n - 1) - 1 + 1 : short[a] = infos[1 + a - 1]
      BY ONLY <2>1, <3>1, SubSeqProperties
    <3>. HIDE DEF short
    <3>3. \A a \in 1 .. n - 1 : a \in 1 .. (n - 1) - 1 + 1 /\ 1 + a - 1 = a
      BY <1>1
    <3>4. Len(short) = n - 1
      <4>1. CASE n = 1
        BY <3>2, <4>1
      <4>2. CASE n # 1
        <5>0. PICK m : m = n
          OBVIOUS
        <5>1. m \in Nat /\ m # 0 /\ m # 1
          BY <1>1, <4>2, <5>0
        <5>3. 1 <= m - 1 /\ (m - 1) - 1 + 1 = m - 1
          BY ONLY <5>1
        <5>2. Len(short) = (n - 1) - 1 + 1
          BY <3>2, <5>0, <5>3
        <5>. QED
          BY <5>0, <5>2, <5>3
      <4>. QED
        BY <4>1, <4>2
    <3>. QED
      BY <2>2, <3>2, <3>3, <3>4 DEF short
  <2>. HIDE DEF fewer
  <2>4. DOMAIN fewer = 1 .. n - 1
    BY <2>3
  <2>. QED
    BY <1>1, <2>3, <2>4
<1>. HIDE DEF fewer
<1>3. InOrder(fewer) /\ \A a \in DOMAIN fewer : fewer[a].op <= Len(code)
  <2>1. \A a \in 1 .. n - 1 : a \in 1 .. n /\ fewer[a] = infos[a]
    BY <1>1, <1>2
  <2>2. \A a \in 1 .. n - 1, b \in 1 .. n - 1 : a <= b => fewer[a].op <= fewer[b].op
    BY <1>1, <2>1
  <2>3. \A a \in 1 .. n - 1 : fewer[a].op <= Len(code)
    BY <1>1, <2>1
  <2>. QED
    BY <1>2, <2>2, <2>3 DEF InOrder
<1>4. ASSUME NEW i \in DOMAIN code, code[i] # Line
      PROVE  \E j \in DOMAIN fewer : LastBefore(fewer, i, j) /\ fewer[j].line = code[i].line
  <2>1. PICK j \in DOMAIN infos : LastBefore(infos, i, j) /\ infos[j].line = code[i].line
    BY <1>4 DEF InfosFit
  <2>2. i \in 1 .. Len(code) /\ i # Len(code) /\ j \in 1 .. n
    BY <1>1, <1>4
  <2>3. infos[j].op < i /\ (j = n \/ infos[j + 1].op >= i)
    BY <2>1 DEF LastBefore
  <2>4. j \in 1 .. n - 1 /\ fewer[j] = infos[j]
    BY <1>1, <1>2, <2>2, <2>3
  <2>5. j = Len(fewer) \/ fewer[j + 1].op >= i
    <3>1. CASE j # n - 1
      <4>1. j + 1 \in 1 .. n - 1 /\ j # n
        BY <1>1, <2>4, <3>1
      <4>2. infos[j + 1].op >= i
        BY <2>3, <4>1
      <4>3. fewer[j + 1] = infos[j + 1]
        BY <1>2, <4>1
      <4>. QED
        BY <4>2, <4>3
    <3>. QED
      BY <1>2, <3>1
  <2>. QED
    BY <1>2, <2>1, <2>3, <2>4, <2>5 DEF LastBefore
<1>. QED
  BY <1>1, <1>2, <1>3, <1>4 DEF InfosFit, fewer

\* An instruction is behind the last info.
LEMMA CodeFits ==
    ASSUME NEW infos, NEW code, InfosFit(infos, code), infos # <<>>,
           NEW instr \in Instr, instr.line = infos[Len(infos)].line
    PROVE  InfosFit(infos, Append(code, instr))
<1>. DEFINE more == Append(code, instr)
<1>1. /\ infos \in Seq(Info) /\ code \in Seq(Instr) /\ InOrder(infos)
      /\ Len(infos) \in Nat /\ Len(code) \in Nat /\ Len(infos) # 0
      /\ \A a \in 1 .. Len(infos) : infos[a].op \in Nat /\ infos[a].op <= Len(code)
  BY InfosHaveOps DEF InfosFit
<1>3. /\ more \in Seq(Instr) /\ Len(more) = Len(code) + 1
      /\ \A i \in 1 .. Len(code) : more[i] = code[i]
      /\ more[Len(code) + 1] = instr
  BY <1>1
<1>. HIDE DEF more
<1>4. ASSUME NEW i \in DOMAIN more, more[i] # Line
      PROVE  \E j \in DOMAIN infos : LastBefore(infos, i, j) /\ infos[j].line = more[i].line
  <2>0. i \in 1 .. Len(code) + 1
    BY <1>1, <1>3
  <2>1. CASE i \in 1 .. Len(code)
    <3>1. i \in DOMAIN code /\ more[i] = code[i]
      BY <1>1, <1>3, <2>1
    <3>. QED
      BY <1>4, <3>1 DEF InfosFit
  <2>2. CASE i = Len(code) + 1
    <3>1. Len(infos) \in DOMAIN infos /\ infos[Len(infos)].op < i
      BY <1>1, <2>2
    <3>2. LastBefore(infos, i, Len(infos))
      BY <3>1 DEF LastBefore
    <3>. QED
      BY <1>3, <2>2, <3>1, <3>2
  <2>. QED
    BY <1>1, <2>0, <2>1, <2>2
<1>5. \A a \in DOMAIN infos : infos[a].op <= Len(more)
  BY <1>1, <1>3
<1>6. InfosFit(infos, more)
  BY <1>1, <1>3, <1>4, <1>5 DEF InfosFit
<1>. QED
  BY <1>6 DEF more

\* What a function has at its start: nothing.
LEMMA NothingFits == InfosFit(<<>>, <<>>) /\ LineIsLast(<<>>, <<>>)
  BY DEF InfosFit, InOrder, LineIsLast

\* AddLineInfos (funcstate.cpp:410-421) begins a statement, on a line that is
\* not the one of the last or that is forced where nothing merges.
LEMMA AddLineInfosBegins ==
    ASSUME NEW f, f = NoLines \/ Begun(f), NEW line \in Nat, line # 0,
           NEW debug \in BOOLEAN, NEW force \in BOOLEAN, force => Begun(f) /\ ~f.opt
    PROVE  /\ FuncFits(AddLineInfos(f, line, debug, force))
           /\ ~force => Begun(AddLineInfos(f, line, debug, force))
<1>. DEFINE info == [line |-> line, op |-> Len(f.code)]
            merge == debug /\ f.opt /\ f.code # <<>> /\ Last(f.code) = Line
            infos == IF merge THEN Front(f.infos) ELSE f.infos
            code == IF debug /\ ~merge THEN Append(f.code, Line) ELSE f.code
            behind == IF f.line # line THEN Append(infos, info) ELSE infos
            g == AddLineInfos(f, line, debug, force)
<1>1. /\ f \in [code : Seq(Instr), infos : Seq(Info), line : Nat, opt : BOOLEAN]
      /\ InfosFit(f.infos, f.code) /\ LineIsLast(f.infos, f.code)
      /\ f.line # line \/ (f.infos # <<>> /\ f.infos[Len(f.infos)].line = f.line)
  <2>1. CASE f = NoLines
    <3>1. <<>> \in Seq(Instr) /\ <<>> \in Seq(Info)
      OBVIOUS
    <3>. QED
      BY <2>1, <3>1, NothingFits DEF NoLines
  <2>2. CASE Begun(f)
    BY <2>2 DEF Begun, FuncFits
  <2>. QED
    BY <2>1, <2>2
<1>2. CASE f.line = line /\ ~force
  <2>1. f # NoLines
    BY <1>2 DEF NoLines
  <2>. QED
    BY <1>2, <2>1 DEF AddLineInfos, Begun
<1>3. CASE ~(f.line = line /\ ~force)
  <2>1. g = [code |-> code, infos |-> behind, line |-> line, opt |-> debug \/ f.opt]
    BY <1>1, <1>3 DEF AddLineInfos
  <2>2. merge => f.line # line
    BY <1>1, <1>3
  <2>3. InfosFit(infos, f.code)
    BY <1>1, InfosFitFront DEF Last
  <2>4. Len(f.code) \in Nat /\ infos \in Seq(Info) /\ info \in Info
    BY <1>1, <2>3 DEF InfosFit, Info
  <2>. HIDE DEF merge, infos, g
  <2>5. InfosFit(behind, f.code)
    BY <2>3, InfoFits
  <2>6. /\ behind \in Seq(Info) /\ behind # <<>>
        /\ behind[Len(behind)].line = line
        /\ f.line # line => behind[Len(behind)].op = Len(f.code)
    <3>1. CASE f.line # line
      <4>1. behind = Append(infos, info)
        BY <3>1
      <4>. HIDE DEF behind
      <4>2. /\ behind \in Seq(Info) /\ Len(behind) = Len(infos) + 1
            /\ behind[Len(infos) + 1] = info
        BY <2>4, <4>1
      <4>3. behind # <<>>
        BY <2>4, <4>2
      <4>. QED
        BY <4>2, <4>3
    <3>2. CASE f.line = line
      BY <1>1, <2>2, <3>2 DEF infos
    <3>. QED
      BY <3>1, <3>2
  <2>. HIDE DEF behind
  <2>7. InfosFit(behind, code)
    BY <2>5, LineFits
  <2>8. code \in Seq(Instr)
    BY <2>7 DEF InfosFit
  <2>9. FuncFits(g)
    BY <1>1, <2>1, <2>6, <2>7, <2>8 DEF FuncFits
  <2>10. ASSUME ~force PROVE LineIsLast(behind, code)
    <3>1. behind[Len(behind)].op = Len(f.code)
      BY <1>3, <2>6, <2>10
    <3>2. Len(code) - 1 <= Len(f.code)
      BY <1>1, <2>4
    <3>. QED
      BY <2>6, <3>1, <3>2 DEF LineIsLast
  <2>. QED
    BY <2>1, <2>9, <2>10 DEF g, Begun
<1>. QED
  BY <1>2, <1>3

\* A function that is compiled has a statement.
LineInv == debuginfo \in BOOLEAN /\ Begun(func)

LEMMA LinesStart == LinesInit => LineInv
<1>. SUFFICES ASSUME LinesInit PROVE LineInv
  OBVIOUS
<1>1. Begun(AddLineInfos(NoLines, 1, debuginfo, FALSE))
  <2>0. PICK force \in BOOLEAN : force = FALSE
    OBVIOUS
  <2>1. PICK f : f = NoLines
    OBVIOUS
  <2>2. debuginfo \in BOOLEAN /\ 1 \in Nat /\ 1 # 0
    BY DEF LinesInit
  <2>3. ~force => Begun(AddLineInfos(f, 1, debuginfo, force))
    BY <2>0, <2>1, <2>2, AddLineInfosBegins
  <2>. QED
    BY <2>0, <2>1, <2>3
<1>. QED
  BY <1>1 DEF LinesInit, LineInv

LEMMA BeginStatementKeeps ==
    ASSUME LineInv, NEW lines \in Nat, BeginStatement(lines)
    PROVE  LineInv'
<1>1. func.line + lines \in Nat /\ func.line + lines # 0
  BY DEF LineInv, Begun, FuncFits
<1>2. Begun(AddLineInfos(func, func.line + lines, debuginfo, FALSE))
  BY <1>1, AddLineInfosBegins DEF LineInv
<1>. QED
  BY <1>2 DEF BeginStatement, LineInv

LEMMA AddCodeKeeps ==
    ASSUME LineInv, AddCode
    PROVE  LineInv'
<1>. DEFINE instr == [op |-> "CODE", line |-> func.line]
            more == Append(func.code, instr)
<1>1. /\ func \in [code : Seq(Instr), infos : Seq(Info), line : Nat, opt : BOOLEAN]
      /\ InfosFit(func.infos, func.code) /\ func.line # 0
      /\ func.infos # <<>> /\ func.infos[Len(func.infos)].line = func.line
  BY DEF LineInv, Begun, FuncFits
<1>2. instr \in Instr /\ instr.line = func.line /\ instr # Line
  BY <1>1 DEF Instr, Line
<1>3. func' = [code |-> more, infos |-> func.infos, line |-> func.line, opt |-> TRUE]
  BY <1>1 DEF AddCode
<1>. HIDE DEF instr
<1>4. InfosFit(func.infos, more)
  BY <1>1, <1>2, CodeFits
<1>5. more \in Seq(Instr) /\ more[Len(more)] = instr
  BY <1>1, <1>2
<1>. HIDE DEF more
<1>6. LineIsLast(func.infos, more)
  BY <1>2, <1>5 DEF LineIsLast
<1>7. Begun(func')
  BY <1>1, <1>3, <1>4, <1>5, <1>6 DEF Begun, FuncFits
<1>. QED
  BY <1>7 DEF AddCode, LineInv

LEMMA EndStatementKeeps ==
    ASSUME LineInv, EndStatement
    PROVE  LineInv'
<1>1. func' = [code |-> func.code, infos |-> func.infos, line |-> func.line, opt |-> FALSE]
  BY DEF EndStatement, LineInv, Begun, FuncFits
<1>. QED
  BY <1>1 DEF EndStatement, LineInv, Begun, FuncFits

\* The line infos of a function fit its instructions while it is compiled.
LEMMA LineInvHolds == LinesSpec => []LineInv
<1>1. LineInv /\ [LinesNext]_lineVars => LineInv'
  <2>. SUFFICES ASSUME LineInv, [LinesNext]_lineVars PROVE LineInv'
    OBVIOUS
  <2>1. ASSUME NEW lines \in 0 .. MaxLine, BeginStatement(lines) PROVE LineInv'
    BY <2>1, BeginStatementKeeps
  <2>2. CASE AddCode
    BY <2>2, AddCodeKeeps
  <2>3. CASE EndStatement
    BY <2>3, EndStatementKeeps
  <2>4. CASE UNCHANGED lineVars
    BY <2>4 DEF lineVars, LineInv
  <2>. QED
    BY <2>1, <2>2, <2>3, <2>4 DEF LinesNext
<1>. QED
  BY <1>1, LinesStart, PTL DEF LinesSpec

\* FunctionPrototype::GetLine gives every instruction the line of its statement,
\* with or without debug information, wherever the function ends.
LEMMA LinesFollow ==
    ASSUME LineInv
    PROVE  LinesAreRight
<1>. SUFFICES ASSUME NEW line \in func.line .. MaxLine
              PROVE  /\ EndedFunction(line).infos # <<>>
                     /\ \A i \in DOMAIN EndedFunction(line).code :
                           EndedFunction(line).code[i] # Line =>
                               GetLine(EndedFunction(line).infos, i) = EndedFunction(line).code[i].line
  BY DEF LinesAreRight
<1>. DEFINE ended == [func EXCEPT !.opt = FALSE]
<1>1. Begun(ended) /\ ~ended.opt /\ ended.line = func.line /\ func.line \in Nat \ {0}
  BY DEF LineInv, Begun, FuncFits
<1>2. line \in Nat /\ line # 0
  BY <1>1
<1>. HIDE DEF ended
<1>3. PICK f : f = EndedFunction(line)
  OBVIOUS
<1>4. FuncFits(AddLineInfos(ended, line, debuginfo, TRUE))
  BY <1>1, <1>2, AddLineInfosBegins DEF LineInv
<1>5. FuncFits(f)
  BY <1>3, <1>4 DEF EndedFunction, ended
<1>6. ASSUME NEW i \in DOMAIN f.code, f.code[i] # Line
      PROVE  GetLine(f.infos, i) = f.code[i].line
  <2>1. PICK j \in DOMAIN f.infos : LastBefore(f.infos, i, j) /\ f.infos[j].line = f.code[i].line
    BY <1>5, <1>6 DEF FuncFits, InfosFit
  <2>2. f.infos \in Seq(Info) /\ InOrder(f.infos) /\ i \in Nat \ {0}
    BY <1>5 DEF FuncFits, InfosFit
  <2>. QED
    BY <2>1, <2>2, GetLineFinds
<1>. QED
  BY <1>3, <1>5, <1>6 DEF FuncFits

\* GetLine (object.cpp:248-275) finds, for every instruction of a function of
\* any length, the line of the statement that began last before it, whatever
\* AddLineInfos merged and whether lines are instructions or not.
THEOREM LinesHold == LinesSpec => []LinesAreRight
  BY LineInvHolds, LinesFollow, PTL
=============================================================================
