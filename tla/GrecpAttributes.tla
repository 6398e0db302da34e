-------------------------- MODULE GrecpAttributes --------------------------
(***************************************************************************)
(* How GRECP messages are put together from attributes and taken apart     *)
(* again: append_grecpattribute() and read_grecpattribute() of             *)
(* src/grecp.c.  A buffer is the sequence of the bytes that are left of    *)
(* it; an attribute is its id, the length of its value in two bytes, most  *)
(* significant first, and the value.                                       *)
(*                                                                         *)
(* Every message handler reads attributes until one read returns 0; every  *)
(* message that is sent is one append after the other.                     *)
(***************************************************************************)
EXTENDS Integers, Sequences, SequenceTheorems, TLAPS

Byte == {n \in Nat : n < 256}
Header == 3             \* sizeof(id) + sizeof(length)
MaxLength == 65535      \* the length is a uint16_t

\* htons() and ntohs().
Htons(n) == <<n \div 256, n % 256>>
Ntohs(high, low) == 256 * high + low

\* The bytes append_grecpattribute() writes; it returns their number.
Append_grecpattribute(id, value) == <<id>> \o Htons(Len(value)) \o value

\* What read_grecpattribute() finds in buffer b ...
AttrId(b) == b[1]
AttrLength(b) == Ntohs(b[2], b[3])
AttrValue(b) == SubSeq(b, Header + 1, Header + AttrLength(b))

\* ... if it is all there; the number of bytes read is 0 otherwise.
WellFormed(b) == Len(b) >= Header /\ Len(b) - Header >= AttrLength(b)
BytesRead(b) == IF WellFormed(b) THEN Header + AttrLength(b) ELSE 0

\* What the loop of a handler goes on with.
Remaining(b) == SubSeq(b, BytesRead(b) + 1, Len(b))

-----------------------------------------------------------------------------

\* The two bytes of a length give the length back.
LEMMA LengthRoundTrip ==
    ASSUME NEW n \in Nat, n <= MaxLength
    PROVE  /\ n \div 256 \in Byte /\ n % 256 \in Byte
           /\ Ntohs(n \div 256, n % 256) = n
BY DEF Byte, MaxLength, Ntohs

\* Two bytes make a length.
LEMMA LengthType ==
    ASSUME NEW high \in Byte, NEW low \in Byte
    PROVE  Ntohs(high, low) \in Nat
BY DEF Byte, Ntohs

\* The n elements of a sequence after the first m.
LEMMA Slice ==
    ASSUME NEW S, NEW s \in Seq(S), NEW m \in Nat, NEW n \in Nat, m + n <= Len(s)
    PROVE  /\ SubSeq(s, m + 1, m + n) \in Seq(S)
           /\ Len(SubSeq(s, m + 1, m + n)) = n
           /\ \A i \in 1 .. n : SubSeq(s, m + 1, m + n)[i] = s[m + i]
<1>1. \A i \in m + 1 .. m + n : i \in 1 .. Len(s)
    BY LenProperties
<1>2. \A i \in m + 1 .. m + n : s[i] \in S
    BY <1>1, ElementOfSeq
<1>3. m + 1 \in Int /\ m + n \in Int
    OBVIOUS
<1>4. /\ SubSeq(s, m + 1, m + n) \in Seq(S)
      /\ Len(SubSeq(s, m + 1, m + n)) =
           IF m + 1 <= m + n THEN (m + n) - (m + 1) + 1 ELSE 0
      /\ \A i \in 1 .. (m + n) - (m + 1) + 1 :
           SubSeq(s, m + 1, m + n)[i] = s[(m + 1) + i - 1]
    BY <1>2, <1>3, SubSeqProperties
<1>5. /\ (IF m + 1 <= m + n THEN (m + n) - (m + 1) + 1 ELSE 0) = n
      /\ (m + n) - (m + 1) + 1 = n
      /\ \A i \in 1 .. n : (m + 1) + i - 1 = m + i
    OBVIOUS
<1> QED
    BY <1>4, <1>5, Zenon

\* A slice that agrees with t is t.
LEMMA SliceEqual ==
    ASSUME NEW S, NEW s \in Seq(S), NEW t \in Seq(S), NEW m \in Nat,
           m + Len(t) <= Len(s), \A i \in 1 .. Len(t) : s[m + i] = t[i]
    PROVE  SubSeq(s, m + 1, m + Len(t)) = t
<1> DEFINE u == SubSeq(s, m + 1, m + Len(t))
<1>1. Len(t) \in Nat
    BY LenProperties
<1>2. u \in Seq(S) /\ Len(u) = Len(t) /\ \A i \in 1 .. Len(t) : u[i] = s[m + i]
    BY <1>1, Slice
<1> HIDE DEF u
<1>3. \A i \in 1 .. Len(u) : u[i] = t[i]
    BY <1>2
<1>4. u = t
    BY <1>2, <1>3, SeqEqual
<1> QED
    BY <1>4 DEF u

\* Buffer b is a header h, a value v and the rest r; f is its front, h and v.
InParts(h, v, r, f, b) ==
    /\ Len(f) = Len(h) + Len(v) /\ Len(b) = Len(h) + Len(v) + Len(r)
    /\ \A i \in 1 .. Len(h) : b[i] = h[i]
    /\ SubSeq(b, Len(h) + 1, Len(h) + Len(v)) = v
    /\ SubSeq(b, Len(h) + Len(v) + 1, Len(h) + Len(v) + Len(r)) = r

\* Concatenation puts a buffer together so that it can be taken apart.
LEMMA Parts ==
    ASSUME NEW h \in Seq(Byte), NEW v \in Seq(Byte), NEW r \in Seq(Byte),
           NEW f, f = h \o v, NEW b, b = f \o r
    PROVE  InParts(h, v, r, f, b)
<1>1. Len(h) \in Nat /\ Len(v) \in Nat /\ Len(r) \in Nat
    BY LenProperties
<1>2. /\ f \in Seq(Byte) /\ Len(f) = Len(h) + Len(v)
      /\ \A i \in 1 .. Len(h) + Len(v) :
           f[i] = IF i <= Len(h) THEN h[i] ELSE v[i - Len(h)]
    BY ConcatProperties
<1>3. /\ b \in Seq(Byte) /\ Len(b) = Len(f) + Len(r)
      /\ \A i \in 1 .. Len(f) + Len(r) :
           b[i] = IF i <= Len(f) THEN f[i] ELSE r[i - Len(f)]
    BY <1>2, ConcatProperties
<1>4. \A i \in 1 .. Len(h) : b[i] = h[i]
    BY <1>1, <1>2, <1>3
<1>5. \A i \in 1 .. Len(v) : b[Len(h) + i] = v[i]
    BY <1>1, <1>2, <1>3
<1>6. \A i \in 1 .. Len(r) : b[Len(f) + i] = r[i]
    BY <1>1, <1>2, <1>3
<1>7. SubSeq(b, Len(h) + 1, Len(h) + Len(v)) = v
    <2>1. Len(h) + Len(v) <= Len(b)
        BY <1>1, <1>2, <1>3
    <2> QED
        BY <1>1, <1>3, <1>5, <2>1, SliceEqual
<1>8. SubSeq(b, Len(f) + 1, Len(f) + Len(r)) = r
    <2>1. Len(f) \in Nat /\ Len(f) + Len(r) <= Len(b)
        BY <1>1, <1>2, <1>3
    <2> QED
        BY <1>3, <1>6, <2>1, SliceEqual
<1> QED
    BY <1>2, <1>3, <1>4, <1>7, <1>8 DEF InParts

\* A read takes a whole header at least, so that the loop of a handler, which
\* ends when nothing is read, cannot go on for ever; and it never takes, nor is
\* the value ever looked for, beyond the end of the buffer.
THEOREM ReadMakesProgress ==
    ASSUME NEW b \in Seq(Byte)
    PROVE  /\ BytesRead(b) = 0 \/ BytesRead(b) \in Header .. Len(b)
           /\ BytesRead(b) # 0 => /\ Len(Remaining(b)) < Len(b)
                                  /\ Len(AttrValue(b)) = AttrLength(b)
<1>1. CASE ~WellFormed(b)
    BY <1>1 DEF BytesRead
<1>2. CASE WellFormed(b)
    <2>1. Len(b) \in Nat /\ Len(b) >= 3
        BY <1>2, LenProperties DEF WellFormed, Header
    <2>2. b[2] \in Byte /\ b[3] \in Byte
        <3>1. 2 \in 1 .. Len(b) /\ 3 \in 1 .. Len(b)
            BY <2>1
        <3> QED
            BY <3>1, ElementOfSeq
    <2>3. AttrLength(b) \in Nat
        BY <2>2, LengthType DEF AttrLength
    <2>4. BytesRead(b) = 3 + AttrLength(b) /\ BytesRead(b) <= Len(b)
        BY <1>2, <2>1, <2>3 DEF BytesRead, WellFormed, Header
    <2>5. Len(AttrValue(b)) = AttrLength(b)
        BY <2>1, <2>3, <2>4, Slice DEF AttrValue, Header
    <2>6. Len(Remaining(b)) = Len(b) - BytesRead(b)
        <3> DEFINE k == BytesRead(b)
                   n == Len(b) - BytesRead(b)
        <3>1. k \in Nat /\ n \in Nat /\ k + n = Len(b)
            BY <2>1, <2>3, <2>4
        <3>2. Remaining(b) = SubSeq(b, k + 1, k + n)
            BY <3>1 DEF Remaining
        <3> HIDE DEF k, n
        <3>3. Len(Remaining(b)) = n
            BY <3>1, <3>2, <2>1, Slice
        <3> QED
            BY <3>3 DEF n
    <2> QED
        BY <2>1, <2>3, <2>4, <2>5, <2>6 DEF Header
<1> QED
    BY <1>1, <1>2

\* What was appended is what is read: id, length and value of the first attribute,
\* whatever follows it, and the rest of the message is left for the next read.
THEOREM ReadUndoesAppend ==
    ASSUME NEW id \in Byte, NEW value \in Seq(Byte), Len(value) <= MaxLength,
           NEW rest \in Seq(Byte),
           NEW b, b = Append_grecpattribute(id, value) \o rest
    PROVE  /\ AttrId(b) = id
           /\ AttrLength(b) = Len(value)
           /\ AttrValue(b) = value
           /\ BytesRead(b) = Len(Append_grecpattribute(id, value))
           /\ Remaining(b) = rest
<1> DEFINE n == Len(value)
           head == <<id, n \div 256, n % 256>>
<1>1. n \in Nat /\ n <= MaxLength /\ Len(rest) \in Nat
    BY LenProperties
<1>2. /\ head \in Seq(Byte) /\ Len(head) = 3
      /\ head[1] = id /\ head[2] = n \div 256 /\ head[3] = n % 256
    BY <1>1, LengthRoundTrip
<1>3. Append_grecpattribute(id, value) = head \o value
    BY <1>1 DEF Append_grecpattribute, Htons
<1> HIDE DEF head, n
<1>4. /\ Len(b) = 3 + n + Len(rest)
      /\ Len(Append_grecpattribute(id, value)) = 3 + n
      /\ b[1] = head[1] /\ b[2] = head[2] /\ b[3] = head[3]
      /\ SubSeq(b, 3 + 1, 3 + n) = value
      /\ SubSeq(b, 3 + n + 1, 3 + n + Len(rest)) = rest
    <2> DEFINE front == Append_grecpattribute(id, value)
    <2>1. front = head \o value /\ b = front \o rest
        BY <1>3
    <2> HIDE DEF front
    <2>2. InParts(head, value, rest, front, b)
        BY <1>2, <2>1, Parts
    <2>3. 1 \in 1 .. 3 /\ 2 \in 1 .. 3 /\ 3 \in 1 .. 3
        OBVIOUS
    <2> QED
        BY <1>2, <2>2, <2>3, Zenon DEF front, n, InParts
<1>5. AttrId(b) = id /\ AttrLength(b) = n
    BY <1>1, <1>2, <1>4, LengthRoundTrip DEF AttrId, AttrLength
<1>6. BytesRead(b) = 3 + n
    BY <1>1, <1>4, <1>5 DEF BytesRead, WellFormed, Header
<1>7. AttrValue(b) = value
    BY <1>4, <1>5 DEF AttrValue, Header
<1>8. Remaining(b) = rest
    BY <1>4, <1>6 DEF Remaining
<1> QED
    BY <1>4, <1>5, <1>6, <1>7, <1>8 DEF n
=============================================================================
