------------------------- MODULE GrecpMessageProofs -------------------------
(***************************************************************************)
(* What a handler reads of a message is what was appended to it, for every *)
(* sequence of attributes and wherever the message is cut.                 *)
(*                                                                         *)
(* Whether a sequence of bytes is a sequence of attributes is a matter of  *)
(* induction.  Here it is the induction over the steps that append them:   *)
(* the history variable starts says where each of them lies.               *)
(***************************************************************************)
EXTENDS GrecpMessage

\* The number that append_grecpattribute() returns.
Size(a) == Header + Len(a.value)

\* Attribute a lies in message m after the first k bytes.
LiesAt(a, k, m) ==
    /\ k + Size(a) <= Len(m)
    /\ \A j \in 1 .. Size(a) : m[k + j] = Encoded(a)[j]

\* The message is the attributes appended, one after the other.
WriteInv ==
    /\ message \in Seq(Byte)
    /\ sent \in Seq(Attribute)
    /\ starts \in Seq(Nat)
    /\ Len(starts) = Len(sent) + 1
    /\ starts[1] = 0
    /\ starts[Len(sent) + 1] = Len(message)
    /\ \A i \in 1 .. Len(sent) :
         /\ LiesAt(sent[i], starts[i], message)
         /\ starts[i + 1] = starts[i] + Size(sent[i])
    /\ \A i, j \in 1 .. Len(starts) : i <= j => starts[i] <= starts[j]

\* The loop has read the first attributes and stands at the start of the next one.
ReadInv ==
    /\ pc \in {"write", "read", "done"}
    /\ got \in Seq(Attribute)
    /\ size \in Nat /\ size <= Len(message)
    /\ ReadAsSent
    /\ pc = "write" => got = <<>> /\ size = 0
    /\ starts[Len(got) + 1] <= size
    /\ pc # "write" => /\ left = SubSeq(message, starts[Len(got) + 1] + 1, size)
                       /\ size = Received(Len(message))
    /\ pc = "done" => BytesRead(left) = 0

\* The bytes of an encoded attribute.
BytesOf(e, id, value) ==
    /\ e \in Seq(Byte)
    /\ Len(e) = Header + Len(value)
    /\ e[1] = id
    /\ Ntohs(e[2], e[3]) = Len(value)
    /\ \A j \in 1 .. Len(value) : e[Header + j] = value[j]

LEMMA AppendedBytes ==
    ASSUME NEW id \in Byte, NEW value \in Seq(Byte), Len(value) <= MaxLength
    PROVE  BytesOf(Append_grecpattribute(id, value), id, value)
<1> DEFINE n == Len(value)
           head == <<id, n \div 256, n % 256>>
           e == Append_grecpattribute(id, value)
<1>1. n \in Nat /\ n <= MaxLength
    BY LenProperties
<1>2. /\ head \in Seq(Byte) /\ Len(head) = 3
      /\ head[1] = id /\ head[2] = n \div 256 /\ head[3] = n % 256
    BY <1>1, LengthRoundTrip
<1>3. e = head \o value
    BY <1>1 DEF Append_grecpattribute, Htons
<1>4. Ntohs(n \div 256, n % 256) = n
    BY <1>1, LengthRoundTrip
<1> HIDE DEF head, n, e
<1>5. /\ e \in Seq(Byte) /\ Len(e) = Len(head) + Len(value)
      /\ \A i \in 1 .. Len(head) + Len(value) :
           e[i] = IF i <= Len(head) THEN head[i] ELSE value[i - Len(head)]
    <2>1. head \in Seq(Byte)
        BY <1>2
    <2> QED
        BY <1>3, <2>1, ConcatProperties, Zenon
<1>6. e[1] = head[1] /\ e[2] = head[2] /\ e[3] = head[3]
    BY <1>1, <1>2, <1>5 DEF n
<1>7. \A j \in 1 .. Len(value) : e[3 + j] = value[j]
    BY <1>1, <1>2, <1>5 DEF n
<1>8. BytesOf(e, id, value)
    BY <1>2, <1>4, <1>5, <1>6, <1>7 DEF BytesOf, Header, n
<1> QED
    BY <1>8 DEF e

LEMMA EncodedBytes ==
    ASSUME NEW a \in Attribute
    PROVE  /\ BytesOf(Encoded(a), a.id, a.value)
           /\ Encoded(a) \in Seq(Byte) /\ Len(Encoded(a)) = Size(a)
           /\ Size(a) \in Nat /\ Size(a) >= Header
<1>1. a.id \in Byte /\ a.value \in Seq(Byte) /\ Len(a.value) <= MaxLength
    BY DEF Attribute
<1>2. BytesOf(Encoded(a), a.id, a.value)
    BY <1>1, AppendedBytes DEF Encoded
<1>3. Len(a.value) \in Nat
    BY <1>1, LenProperties
<1> QED
    BY <1>2, <1>3 DEF BytesOf, Size, Header

\* If the bytes at the start of buffer b are those of attribute a as far as they go,
\* a read gives a if it is all there, and nothing otherwise.
LEMMA ReadOne ==
    ASSUME NEW a \in Attribute, NEW b \in Seq(Byte),
           \A j \in 1 .. Size(a) : j <= Len(b) => b[j] = Encoded(a)[j]
    PROVE  /\ BytesRead(b) = IF Size(a) <= Len(b) THEN Size(a) ELSE 0
           /\ Size(a) <= Len(b) => [id |-> AttrId(b), value |-> AttrValue(b)] = a
<1> DEFINE v == a.value
           e == Encoded(a)
<1>1. v \in Seq(Byte) /\ Len(v) \in Nat /\ Len(b) \in Nat /\ Size(a) = 3 + Len(v)
    BY LenProperties DEF Attribute, Size, Header
<1>2. /\ e[1] = a.id /\ Ntohs(e[2], e[3]) = Len(v)
      /\ \A j \in 1 .. Len(v) : e[3 + j] = v[j]
    BY EncodedBytes DEF BytesOf, Header
<1>3. a = [id |-> a.id, value |-> v]
    BY DEF Attribute
<1>4. \A j \in 1 .. 3 + Len(v) : j <= Len(b) => b[j] = e[j]
    BY <1>1
<1> HIDE DEF v, e
<1>5. CASE Len(b) < 3
    BY <1>1, <1>5 DEF BytesRead, WellFormed, Header
<1>6. CASE Len(b) >= 3
    <2>1. b[1] = e[1] /\ b[2] = e[2] /\ b[3] = e[3]
        BY <1>1, <1>4, <1>6
    <2>2. AttrId(b) = a.id /\ AttrLength(b) = Len(v)
        BY <1>2, <2>1 DEF AttrId, AttrLength
    <2>3. BytesRead(b) = IF Size(a) <= Len(b) THEN Size(a) ELSE 0
        BY <1>1, <1>6, <2>2 DEF BytesRead, WellFormed, Header
    <2>4. ASSUME Size(a) <= Len(b)
          PROVE  AttrValue(b) = v
        <3>1. 3 + Len(v) <= Len(b) /\ 3 \in Nat
            BY <1>1, <2>4
        <3>2. \A j \in 1 .. Len(v) : b[3 + j] = v[j]
            BY <1>1, <1>2, <1>4, <3>1
        <3>3. SubSeq(b, 3 + 1, 3 + Len(v)) = v
            BY <1>1, <3>1, <3>2, SliceEqual
        <3> QED
            BY <2>2, <3>3 DEF AttrValue, Header
    <2> QED
        BY <1>3, <2>2, <2>3, <2>4
<1> QED
    BY <1>1, <1>5, <1>6

\* An attribute stays where it is when bytes e are appended to the message.
LEMMA StaysThere ==
    ASSUME NEW m \in Seq(Byte), NEW e \in Seq(Byte), NEW c, c = m \o e,
           NEW a \in Attribute, NEW k \in Nat, LiesAt(a, k, m)
    PROVE  LiesAt(a, k, c)
<1>1. Size(a) \in Nat /\ Len(m) \in Nat /\ Len(e) \in Nat
    BY EncodedBytes, LenProperties
<1>2. /\ Len(c) = Len(m) + Len(e)
      /\ \A j \in 1 .. Len(m) + Len(e) :
           c[j] = IF j <= Len(m) THEN m[j] ELSE e[j - Len(m)]
    BY ConcatProperties
<1>3. k + Size(a) <= Len(m)
    BY DEF LiesAt
<1>4. ASSUME NEW j \in 1 .. Size(a)
      PROVE  c[k + j] = Encoded(a)[j]
    <2>1. m[k + j] = Encoded(a)[j]
        BY <1>4 DEF LiesAt
    <2>2. k + j \in 1 .. Len(m) + Len(e) /\ k + j <= Len(m)
        BY <1>1, <1>3
    <2> QED
        BY <1>2, <2>1, <2>2
<1>5. k + Size(a) <= Len(c)
    BY <1>1, <1>2, <1>3
<1> QED
    BY <1>4, <1>5, Zenon DEF LiesAt

\* The attribute that is appended lies at the end of what was there before.
LEMMA ComesLast ==
    ASSUME NEW m \in Seq(Byte), NEW a \in Attribute, NEW c, c = m \o Encoded(a)
    PROVE  /\ c \in Seq(Byte)
           /\ Len(c) = Len(m) + Size(a)
           /\ LiesAt(a, Len(m), c)
<1> DEFINE e == Encoded(a)
<1>1. /\ e \in Seq(Byte) /\ Len(e) = Size(a)
      /\ Size(a) \in Nat /\ Len(m) \in Nat
    BY EncodedBytes, LenProperties
<1>2. c = m \o e
    OBVIOUS
<1> HIDE DEF e
<1>3. /\ c \in Seq(Byte) /\ Len(c) = Len(m) + Len(e)
      /\ \A j \in 1 .. Len(m) + Len(e) :
           c[j] = IF j <= Len(m) THEN m[j] ELSE e[j - Len(m)]
    <2>1. e \in Seq(Byte)
        BY <1>1
    <2> QED
        BY <1>2, <2>1, ConcatProperties, Zenon
<1>4. ASSUME NEW j \in 1 .. Size(a)
      PROVE  c[Len(m) + j] = e[j]
    <2>1. /\ Len(m) + j \in 1 .. Len(m) + Len(e) /\ ~(Len(m) + j <= Len(m))
          /\ (Len(m) + j) - Len(m) = j
        BY <1>1
    <2> QED
        BY <1>3, <2>1
<1>5. Len(m) + Size(a) <= Len(c)
    BY <1>1, <1>3
<1>6. LiesAt(a, Len(m), c)
    BY <1>4, <1>5, Zenon DEF LiesAt, e
<1> QED
    BY <1>1, <1>3, <1>6

\* The message goes on being the attributes appended, one after the other.
LEMMA WriteInvNext ==
    ASSUME WriteInv, [Next]_vars
    PROVE  WriteInv'
<1>1. CASE \E a \in Attribute : Write(a)
    <2>1. PICK a \in Attribute : Write(a)
        BY <1>1
    <2> DEFINE n == Len(sent) + 1
               m == message'
               s == starts'
               t == sent'
    <2>2. /\ message \in Seq(Byte) /\ Len(message) \in Nat
          /\ sent \in Seq(Attribute) /\ n \in Nat \ {0}
          /\ starts \in Seq(Nat) /\ Len(starts) = n
          /\ starts[1] = 0 /\ starts[n] = Len(message)
        BY LenProperties DEF WriteInv
    <2>3. /\ m = message \o Encoded(a)
          /\ t = Append(sent, a) /\ s = Append(starts, Len(m))
        BY <2>1 DEF Write
    <2> HIDE DEF m, s, t
    <2>4. /\ m \in Seq(Byte) /\ Len(m) \in Nat
          /\ Len(m) = Len(message) + Size(a)
          /\ LiesAt(a, Len(message), m)
        BY <2>2, <2>3, ComesLast, LenProperties
    <2>5. /\ t \in Seq(Attribute) /\ Len(t) = n /\ t[n] = a
          /\ \A i \in 1 .. Len(sent) : t[i] = sent[i]
        BY <2>2, <2>3, AppendProperties
    <2>6. /\ s \in Seq(Nat) /\ Len(s) = n + 1 /\ s[n + 1] = Len(m)
          /\ \A i \in 1 .. n : s[i] = starts[i]
        BY <2>2, <2>3, <2>4, AppendProperties
    <2>7. ASSUME NEW i \in 1 .. Len(sent)
          PROVE  /\ LiesAt(t[i], s[i], m)
                 /\ s[i + 1] = s[i] + Size(t[i])
        <3>1. /\ LiesAt(sent[i], starts[i], message)
              /\ starts[i + 1] = starts[i] + Size(sent[i])
            BY <2>7 DEF WriteInv
        <3>2. i \in 1 .. n /\ i + 1 \in 1 .. n
            BY <2>2
        <3>3. s[i] = starts[i] /\ s[i + 1] = starts[i + 1] /\ t[i] = sent[i]
            BY <2>5, <2>6, <3>2
        <3>4. starts[i] \in Nat /\ sent[i] \in Attribute
            BY <2>2, <3>2, ElementOfSeq
        <3>5. Encoded(a) \in Seq(Byte)
            BY EncodedBytes
        <3>6. LiesAt(sent[i], starts[i], m)
            BY <2>2, <2>3, <3>1, <3>4, <3>5, StaysThere
        <3> QED
            BY <3>1, <3>3, <3>6
    <2>8. LiesAt(t[n], s[n], m) /\ s[n + 1] = s[n] + Size(t[n])
        <3>1. n \in 1 .. n
            BY <2>2
        <3>2. s[n] = Len(message)
            BY <2>2, <2>6, <3>1, Zenon
        <3> QED
            BY <2>4, <2>5, <2>6, <3>2, Zenon
    <2>9. \A i \in 1 .. Len(t) :
            /\ LiesAt(t[i], s[i], m)
            /\ s[i + 1] = s[i] + Size(t[i])
        <3> SUFFICES ASSUME NEW i \in 1 .. Len(t)
                     PROVE  /\ LiesAt(t[i], s[i], m)
                            /\ s[i + 1] = s[i] + Size(t[i])
            OBVIOUS
        <3>1. CASE i = n
            BY <2>8, <3>1
        <3>2. CASE i # n
            BY <2>2, <2>5, <2>7, <3>2
        <3> QED
            BY <3>1, <3>2
    <2>10. s[1] = 0
        BY <2>2, <2>6
    <2>11. \A i, j \in 1 .. Len(s) : i <= j => s[i] <= s[j]
        <3>1. \A i, j \in 1 .. n : i <= j => starts[i] <= starts[j]
            BY <2>2 DEF WriteInv
        <3>2. \A i \in 1 .. n : s[i] \in Nat /\ s[i] <= Len(message)
            <4>1. \A i \in 1 .. n : starts[i] \in Nat /\ s[i] = starts[i]
                BY <2>2, <2>6, ElementOfSeq
            <4>2. n \in 1 .. n
                BY <2>2
            <4> QED
                BY <2>2, <3>1, <4>1, <4>2
        <3>3. Size(a) \in Nat
            BY EncodedBytes
        <3>4. Len(message) <= Len(m)
            BY <2>2, <2>4, <3>3
        <3> SUFFICES ASSUME NEW i \in 1 .. n + 1, NEW j \in 1 .. n + 1, i <= j
                     PROVE  s[i] <= s[j]
            BY <2>6
        <3>5. CASE j # n + 1
            <4>1. i \in 1 .. n /\ j \in 1 .. n
                BY <2>2, <3>5
            <4> QED
                BY <2>6, <3>1, <4>1
        <3>6. CASE j = n + 1 /\ i # n + 1
            <4>1. i \in 1 .. n
                BY <2>2, <3>6
            <4>2. s[i] \in Nat /\ s[i] <= Len(message) /\ s[j] = Len(m)
                BY <2>6, <3>2, <3>6, <4>1
            <4> QED
                BY <2>2, <2>4, <3>4, <4>2
        <3>7. CASE j = n + 1 /\ i = n + 1
            BY <2>4, <2>6, <3>7
        <3> QED
            BY <3>5, <3>6, <3>7
    <2> QED
        BY <2>4, <2>5, <2>6, <2>9, <2>10, <2>11 DEF WriteInv, m, s, t
<1>2. CASE UNCHANGED <<message, sent, starts>>
    BY <1>2 DEF WriteInv
<1> QED
    BY <1>1, <1>2 DEF Next, Receive, Read, ReadNothing, vars

\* Where the loop stands, in a message of which n bytes have been received.
At(k, n) == SubSeq(message, starts[k] + 1, n)

\* What the next read finds: the attribute whose turn it is, if it was received to
\* the last byte, and nothing if it was not or if there is none.
LEMMA NextRead ==
    ASSUME WriteInv, NEW k \in 1 .. Len(sent) + 1, NEW n \in Nat,
           n <= Len(message), starts[k] <= n
    PROVE  /\ starts[k] \in Nat
           /\ BytesRead(At(k, n)) > 0
                => /\ k <= Len(sent)
                   /\ starts[k + 1] <= n
                   /\ At(k + 1, n) = Remaining(At(k, n))
                   /\ [id |-> AttrId(At(k, n)), value |-> AttrValue(At(k, n))] = sent[k]
           /\ BytesRead(At(k, n)) = 0 /\ k <= Len(sent) => starts[k + 1] > n
           /\ BytesRead(At(k, n)) \in Nat
<1>1. /\ message \in Seq(Byte) /\ Len(message) \in Nat
      /\ sent \in Seq(Attribute) /\ Len(sent) \in Nat
      /\ starts \in Seq(Nat) /\ Len(starts) = Len(sent) + 1
      /\ starts[Len(sent) + 1] = Len(message)
    BY LenProperties DEF WriteInv
<1>2. starts[k] \in Nat
    BY <1>1, ElementOfSeq
<1> DEFINE p == starts[k]
           r == n - p
           b == SubSeq(message, p + 1, p + r)
<1>3. p \in Nat /\ r \in Nat /\ p + r = n
    BY <1>2
<1>4. At(k, n) = b
    BY <1>3 DEF At
<1>5. b \in Seq(Byte) /\ Len(b) = r /\ \A j \in 1 .. r : b[j] = message[p + j]
    <2> HIDE DEF p, r, b
    <2>1. p + r <= Len(message)
        BY <1>3
    <2>2. b = SubSeq(message, p + 1, p + r)
        BY DEF b
    <2> QED
        BY <1>1, <1>3, <2>1, <2>2, Slice
<1>6. CASE k = Len(sent) + 1
    <2>1. r = 0
        BY <1>1, <1>3, <1>6
    <2>2. BytesRead(b) = 0
        BY <1>5, <2>1 DEF BytesRead, WellFormed, Header
    <2>3. ~(k <= Len(sent)) /\ ~(0 > 0) /\ 0 \in Nat
        BY <1>1, <1>6
    <2> QED
        BY <1>2, <1>4, <2>2, <2>3, Zenon
<1>7. CASE k # Len(sent) + 1
    <2> DEFINE a == sent[k]
    <2>1. k \in 1 .. Len(sent)
        BY <1>1, <1>7
    <2>2. a \in Attribute
        BY <1>1, <2>1, ElementOfSeq
    <2>3. LiesAt(a, p, message) /\ starts[k + 1] = p + Size(a)
        BY <2>1 DEF WriteInv
    <2>4. Size(a) \in Nat /\ Size(a) >= 3
        BY <2>2, EncodedBytes DEF Header
    <2> HIDE DEF a, p, r, b
    <2>5. \A j \in 1 .. Size(a) : j <= Len(b) => b[j] = Encoded(a)[j]
        <3> SUFFICES ASSUME NEW j \in 1 .. Size(a), j <= Len(b)
                     PROVE  b[j] = Encoded(a)[j]
            OBVIOUS
        <3>1. j \in 1 .. r
            BY <1>3, <1>5, <2>4
        <3>2. message[p + j] = Encoded(a)[j]
            BY <2>3 DEF LiesAt
        <3> QED
            BY <1>5, <3>1, <3>2
    <2>6. /\ BytesRead(b) = IF Size(a) <= Len(b) THEN Size(a) ELSE 0
          /\ Size(a) <= Len(b) => [id |-> AttrId(b), value |-> AttrValue(b)] = a
        <3>1. b \in Seq(Byte)
            BY <1>5
        <3> QED
            BY <2>2, <2>5, <3>1, ReadOne, Zenon
    <2>7. /\ BytesRead(b) \in Nat
          /\ BytesRead(b) > 0 => /\ Size(a) <= r /\ starts[k + 1] <= n
                                 /\ BytesRead(b) = Size(a)
          /\ BytesRead(b) = 0 => starts[k + 1] > n
        BY <1>3, <1>5, <2>3, <2>4, <2>6
    <2>8. ASSUME BytesRead(b) > 0
          PROVE  At(k + 1, n) = Remaining(b)
        <3> DEFINE c == BytesRead(b)
                   u == At(k + 1, n)
                   w == Remaining(b)
                   d == r - c
        <3>1. c \in Nat /\ d \in Nat /\ c + d = r /\ starts[k + 1] = p + c
            BY <1>3, <2>3, <2>4, <2>7, <2>8
        <3>2. u = SubSeq(message, (p + c) + 1, (p + c) + d)
            <4>1. (p + c) + d = n
                BY <1>3, <3>1
            <4> QED
                BY <3>1, <4>1, Zenon DEF At
        <3>3. w = SubSeq(b, c + 1, c + d)
            BY <1>5, <3>1 DEF Remaining
        <3> HIDE DEF c, u, w, d
        <3>4. /\ w \in Seq(Byte) /\ Len(w) = d
              /\ \A i \in 1 .. d : w[i] = b[c + i]
            <4>1. b \in Seq(Byte)
                BY <1>5
            <4>2. c + d <= Len(b)
                BY <1>3, <1>5, <3>1
            <4>3. c \in Nat /\ d \in Nat
                BY <3>1
            <4>4. /\ SubSeq(b, c + 1, c + d) \in Seq(Byte)
                  /\ Len(SubSeq(b, c + 1, c + d)) = d
                  /\ \A i \in 1 .. d : SubSeq(b, c + 1, c + d)[i] = b[c + i]
                BY <4>1, <4>2, <4>3, Slice, Zenon
            <4> QED
                BY <3>3, <4>4, Zenon
        <3>5. (p + c) \in Nat /\ (p + c) + d <= Len(message)
            BY <1>1, <1>3, <3>1
        <3>6. \A i \in 1 .. d : message[(p + c) + i] = w[i]
            <4> SUFFICES ASSUME NEW i \in 1 .. d
                         PROVE  message[(p + c) + i] = w[i]
                OBVIOUS
            <4>1. c + i \in 1 .. r /\ p + (c + i) = (p + c) + i
                BY <1>3, <3>1
            <4>2. w[i] = b[c + i]
                BY <3>4
            <4>3. b[c + i] = message[p + (c + i)]
                BY <1>5, <4>1
            <4> QED
                BY <4>1, <4>2, <4>3
        <3>7. SubSeq(message, (p + c) + 1, (p + c) + Len(w)) = w
            BY <1>1, <3>4, <3>5, <3>6, SliceEqual
        <3> QED
            BY <3>2, <3>4, <3>7 DEF u, w
    <2> QED
        BY <1>2, <1>4, <2>1, <2>6, <2>7, <2>8, <1>5 DEF a
<1> QED
    BY <1>6, <1>7

LEMMA ReadInvInit ==
    ASSUME Init
    PROVE  WriteInv /\ ReadInv
<1>1. /\ message = <<>> /\ sent = <<>> /\ starts = <<0>> /\ got = <<>>
      /\ size = 0 /\ pc = "write"
    BY DEF Init
<1>2. /\ message \in Seq(Byte) /\ Len(message) = 0
      /\ sent \in Seq(Attribute) /\ Len(sent) = 0
      /\ got \in Seq(Attribute) /\ Len(got) = 0
      /\ starts \in Seq(Nat) /\ Len(starts) = 1 /\ starts[1] = 0
    BY <1>1
<1> QED
    BY <1>1, <1>2 DEF WriteInv, ReadInv, ReadAsSent

\* The loop goes from attribute to attribute.
LEMMA ReadInvNext ==
    ASSUME WriteInv, WriteInv', ReadInv, [Next]_vars
    PROVE  ReadInv'
<1>1. /\ message \in Seq(Byte) /\ Len(message) \in Nat
      /\ sent \in Seq(Attribute) /\ Len(sent) \in Nat
      /\ got \in Seq(Attribute) /\ Len(got) \in Nat
    BY LenProperties DEF WriteInv, ReadInv
<1>2. CASE \E a \in Attribute : Write(a)
    <2>1. /\ pc' = "write" /\ got' = <<>> /\ size' = 0
          /\ Len(got') = 0
        BY <1>2 DEF Write, ReadInv
    <2>2. starts'[1] = 0 /\ Len(message') \in Nat /\ Len(sent') \in Nat
        BY LenProperties DEF WriteInv
    <2> QED
        BY <2>1, <2>2 DEF ReadInv, ReadAsSent
<1>3. CASE Receive
    <2>1. /\ pc' = "read" /\ got' = got /\ got = <<>> /\ Len(got) = 0
          /\ UNCHANGED <<message, sent, starts>>
          /\ size' = Received(Len(message)) /\ left' = SubSeq(message, 1, size')
        BY <1>3 DEF Receive, ReadInv
    <2>2. size' \in Nat /\ size' <= Len(message)
        BY <1>1, <2>1 DEF Received, Headers, MAX_PKT_SIZE
    <2>3. starts[1] = 0
        BY DEF WriteInv
    <2>4. /\ starts'[Len(got') + 1] <= size'
          /\ left' = SubSeq(message', starts'[Len(got') + 1] + 1, size')
        BY <2>1, <2>2, <2>3
    <2> QED
        BY <1>1, <2>1, <2>2, <2>4 DEF ReadInv, ReadAsSent
<1>4. CASE Read
    <2> DEFINE k == Len(got) + 1
               g == got'
    <2>1. /\ pc = "read" /\ BytesRead(left) > 0 /\ left = At(k, size)
          /\ g = Append(got, [id |-> AttrId(left), value |-> AttrValue(left)])
          /\ left' = Remaining(left)
          /\ UNCHANGED <<pc, message, size, sent, starts>>
        BY <1>4 DEF Read, ReadInv, At
    <2>2. /\ k \in 1 .. Len(sent) + 1 /\ size \in Nat /\ size <= Len(message)
          /\ starts[k] <= size
        BY <1>1 DEF ReadInv, ReadAsSent
    <2>3. /\ k <= Len(sent) /\ starts[k + 1] <= size
          /\ left' = At(k + 1, size) /\ g = Append(got, sent[k])
        BY <2>1, <2>2, NextRead
    <2>4. sent[k] \in Attribute
        BY <1>1, <2>2, <2>3, ElementOfSeq
    <2> HIDE DEF g
    <2>5. /\ g \in Seq(Attribute) /\ Len(g) = k /\ g[k] = sent[k]
          /\ \A i \in 1 .. Len(got) : g[i] = got[i]
        BY <1>1, <2>3, <2>4, AppendProperties
    <2>6. \A i \in 1 .. Len(g) : g[i] = sent[i]
        BY <1>1, <2>5 DEF ReadInv, ReadAsSent
    <2> QED
        BY <2>1, <2>2, <2>3, <2>5, <2>6 DEF ReadInv, ReadAsSent, At, g
<1>5. CASE ReadNothing
    BY <1>5 DEF ReadNothing, ReadInv, ReadAsSent
<1>6. CASE UNCHANGED vars
    BY <1>6 DEF vars, ReadInv, ReadAsSent
<1> QED
    BY <1>2, <1>3, <1>4, <1>5, <1>6 DEF Next

\* When a read has found nothing, all that arrived whole has been read.
LEMMA WholeAtEnd ==
    ASSUME WriteInv, ReadInv
    PROVE  ReadAsSent /\ WholeOnesRead /\ AllRead
<1> DEFINE k == Len(got) + 1
<1>1. /\ Len(message) \in Nat /\ Len(sent) \in Nat /\ Len(got) \in Nat
      /\ sent \in Seq(Attribute) /\ got \in Seq(Attribute)
      /\ starts \in Seq(Nat) /\ Len(starts) = Len(sent) + 1
      /\ starts[Len(sent) + 1] = Len(message)
      /\ Len(got) <= Len(sent) /\ \A i \in 1 .. Len(got) : got[i] = sent[i]
    BY LenProperties DEF WriteInv, ReadInv, ReadAsSent
<1>2. /\ \A i \in 1 .. Len(sent) + 1 : starts[i] \in Nat
      /\ \A i, j \in 1 .. Len(sent) + 1 : i <= j => starts[i] <= starts[j]
    BY <1>1, ElementOfSeq DEF WriteInv
<1>3. WholeOnesRead
    <2> SUFFICES ASSUME pc = "done", NEW i \in 1 .. Len(sent)
                 PROVE  i <= Len(got) <=> starts[i + 1] <= size
        BY DEF WholeOnesRead
    <2>1. /\ size \in Nat /\ size <= Len(message)
          /\ starts[k] <= size /\ left = At(k, size) /\ BytesRead(left) = 0
        BY DEF ReadInv, At
    <2>2. k \in 1 .. Len(sent) + 1 /\ i + 1 \in 1 .. Len(sent) + 1
        BY <1>1
    <2>3. k <= Len(sent) => starts[k + 1] > size
        BY <2>1, <2>2, NextRead
    <2>4. starts[k] \in Nat /\ starts[i + 1] \in Nat
        BY <1>2, <2>2
    <2>5. CASE i <= Len(got)
        <3>1. i + 1 <= k
            BY <1>1, <2>5
        <3>2. starts[i + 1] <= starts[k]
            BY <1>2, <2>2, <3>1
        <3> QED
            BY <2>1, <2>4, <2>5, <3>2
    <2>6. CASE i > Len(got)
        <3>1. k <= Len(sent) /\ k + 1 \in 1 .. Len(sent) + 1 /\ k + 1 <= i + 1
            BY <1>1, <2>6
        <3>2. starts[k + 1] \in Nat /\ starts[k + 1] <= starts[i + 1]
            BY <1>2, <2>2, <3>1
        <3>3. starts[k + 1] > size
            BY <2>3, <3>1, Zenon
        <3>4. ~(starts[i + 1] <= size)
            BY <2>1, <2>4, <3>2, <3>3
        <3>5. ~(i <= Len(got))
            BY <1>1, <2>6
        <3> QED
            BY <3>4, <3>5
    <2> QED
        BY <1>1, <2>5, <2>6
<1>4. AllRead
    <2> SUFFICES ASSUME pc = "done", Headers + Len(message) <= MAX_PKT_SIZE
                 PROVE  got = sent
        BY DEF AllRead
    <2>1. size = Len(message)
        BY <1>1 DEF ReadInv, Received, Headers, MAX_PKT_SIZE
    <2>2. ASSUME Len(sent) # 0
          PROVE  Len(sent) <= Len(got)
        <3>1. Len(sent) \in 1 .. Len(sent) /\ starts[Len(sent) + 1] <= size
            BY <1>1, <2>1, <2>2
        <3> QED
            BY <1>3, <3>1, Zenon DEF WholeOnesRead
    <2>3. Len(got) = Len(sent)
        BY <1>1, <2>2
    <2> QED
        BY <1>1, <2>3, SeqEqual
<1> QED
    BY <1>3, <1>4 DEF ReadInv

\* Whatever attributes a message consists of and however it is cut, the handler is
\* given those that arrived whole, as they were sent, and nothing else.
THEOREM HandlersReadWhatWasSent ==
    Spec => [](ReadAsSent /\ WholeOnesRead /\ AllRead)
<1>1. Init => WriteInv /\ ReadInv
    BY ReadInvInit
<1>2. WriteInv /\ ReadInv /\ [Next]_vars => (WriteInv /\ ReadInv)'
    BY WriteInvNext, ReadInvNext
<1>3. WriteInv /\ ReadInv => ReadAsSent /\ WholeOnesRead /\ AllRead
    BY WholeAtEnd
<1> QED
    BY <1>1, <1>2, <1>3, PTL DEF Spec

=============================================================================
