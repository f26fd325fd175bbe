------------------------------ MODULE ByteFile ------------------------------
(***************************************************************************)
(* What a stream in memory promises: a sequence of bytes and a position    *)
(* inside it, with no capacity.  Writing replaces the bytes at the         *)
(* position and adds the others at the end, reading returns what is there, *)
(* shrinking cuts the end off.  Blob implements it.                        *)
(***************************************************************************)
EXTENDS Integers, Sequences

CONSTANTS
    Byte,    \* the bytes
    MaxData  \* the longest piece written or read

VARIABLES
    bytes,  \* the contents
    pos,    \* bytes before the position
    got     \* what the last read returned

absVars == <<bytes, pos, got>>

Init ==
    /\ bytes \in Seq(Byte) /\ bytes = [i \in 1 .. Len(bytes) |-> 0]
    /\ pos = 0 /\ got = <<>>

Take(n) == SubSeq(bytes, pos + 1, pos + n)

Write(data) ==
    /\ bytes' = SubSeq(bytes, 1, pos) \o data \o SubSeq(bytes, pos + Len(data) + 1, Len(bytes))
    /\ pos' = pos + Len(data)
    /\ UNCHANGED got

\* As many bytes as there are
Read(n) ==
    LET there == IF Len(bytes) - pos < n THEN Len(bytes) - pos ELSE n
    IN  /\ got' = Take(there) /\ pos' = pos + there
        /\ UNCHANGED bytes

Seek(n) == n \in 0 .. Len(bytes) /\ pos' = n /\ UNCHANGED <<bytes, got>>

Cut(n) ==
    /\ n \in 0 .. Len(bytes)
    /\ bytes' = SubSeq(bytes, 1, n)
    /\ pos' = IF pos > n THEN n ELSE pos
    /\ UNCHANGED got

Poke(i, b) == i \in 1 .. Len(bytes) /\ bytes' = [bytes EXCEPT ![i] = b] /\ UNCHANGED <<pos, got>>

\* Pairs or fours of bytes are reversed; an end that is too short is not.
Swap(w) ==
    LET whole == Len(bytes) - (Len(bytes) % w)
    IN  /\ bytes' = [i \in 1 .. Len(bytes) |->
                       IF i > whole THEN bytes[i]
                       ELSE LET k == (i - 1) \div w IN bytes[2 * k * w + w + 1 - i]]
        /\ UNCHANGED <<pos, got>>

Next ==
    \/ \E n \in 1 .. MaxData : Read(n) \/ \E data \in [1 .. n -> Byte] : Write(data)
    \/ \E n \in 0 .. Len(bytes) : Seek(n) \/ Cut(n)
    \/ \E i \in 1 .. Len(bytes), b \in Byte : Poke(i, b)
    \/ \E w \in {2, 4} : Swap(w)

Spec == Init /\ [][Next]_absVars
=============================================================================
