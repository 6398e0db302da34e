--------------------------- MODULE ReorderProofs ---------------------------
(***************************************************************************)
(* What holds of ReorderBuffer for streams, time-outs and arrays of every  *)
(* length.                                                                 *)
(***************************************************************************)
EXTENDS ReorderBuffer, SequenceTheorems, TLAPS

-----------------------------------------------------------------------------
(* Type correctness. *)

\* The array is scanned in flush only.
ScanInv == pc # "flush" => scanned = 0

TypeInv == TypeOK /\ ScanInv

\* A number that is advanced stays within 32 bits.
LEMMA SuccessorType ==
    ASSUME NEW n \in Nat
    PROVE  Successor(n) \in 0 .. Modulus - 1
BY ReorderAssumption DEF Successor

\* The array keeps its type when its elements are shifted, aged or marked.
LEMMA ShiftedType ==
    ASSUME buffer \in Seq(Elements),
           NEW k \in 0 .. Len(buffer),
           buffer' = [i \in 1 .. Len(buffer) - k |->
                        [buffer[i + k] EXCEPT !.live = Remaining(i + k)]]
    PROVE  /\ buffer' \in Seq(Elements)
           /\ Len(buffer') = Len(buffer) - k
           /\ DOMAIN buffer' = 1 .. Len(buffer) - k
           /\ \A i \in 1 .. Len(buffer) - k :
                buffer'[i] = [buffer[i + k] EXCEPT !.live = Remaining(i + k)]
<1>1. Len(buffer) \in Nat /\ Len(buffer) - k \in Nat
    OBVIOUS
<1>2. ASSUME NEW i \in 1 .. Len(buffer) - k
      PROVE  [buffer[i + k] EXCEPT !.live = Remaining(i + k)] \in Elements
    <2>1. buffer[i + k] \in Elements
        BY <1>1, ElementOfSeq
    <2>2. Remaining(i + k) \in BOOLEAN
        BY DEF Remaining
    <2> QED
        BY <2>1, <2>2 DEF Elements
<1>3. buffer' \in [1 .. Len(buffer) - k -> Elements]
    BY <1>2
<1> QED
    BY <1>1, <1>3

LEMMA AgedType ==
    ASSUME buffer \in Seq(Elements), Tick
    PROVE  /\ buffer' \in Seq(Elements)
           /\ Len(buffer') = Len(buffer)
           /\ DOMAIN buffer' = DOMAIN buffer
           /\ \A i \in DOMAIN buffer :
                /\ buffer'[i].packet = buffer[i].packet
                /\ buffer'[i].live = buffer[i].live
                /\ buffer'[i].age = Older(buffer[i].age)
<1>1. Len(buffer) \in Nat /\ DOMAIN buffer = 1 .. Len(buffer)
    OBVIOUS
<1>2. ASSUME NEW i \in 1 .. Len(buffer)
      PROVE  /\ buffer[i] \in Elements
             /\ [buffer[i] EXCEPT !.age = Older(@)] \in Elements
    <2>1. buffer[i] \in Elements
        BY <1>1, ElementOfSeq
    <2>2. Older(buffer[i].age) \in 0 .. Timeout
        BY <2>1, ReorderAssumption DEF Elements, Older
    <2> QED
        BY <2>1, <2>2 DEF Elements
<1>3. buffer' \in [1 .. Len(buffer) -> Elements]
    BY <1>2 DEF Tick
<1>4. \A i \in 1 .. Len(buffer) :
        /\ buffer'[i].packet = buffer[i].packet
        /\ buffer'[i].live = buffer[i].live
        /\ buffer'[i].age = Older(buffer[i].age)
    BY <1>2 DEF Tick, Elements
<1> QED
    BY <1>1, <1>3, <1>4

\* The array and its elements, element by element.
LEMMA ArrayType ==
    ASSUME TypeInv
    PROVE  /\ Len(buffer) \in Nat
           /\ DOMAIN buffer = 1 .. Len(buffer)
           /\ \A i \in DOMAIN buffer :
                /\ buffer[i] \in Elements
                /\ buffer[i].packet \in 0 .. Stream - 1
                /\ buffer[i].age \in 0 .. Timeout
                /\ buffer[i].live \in BOOLEAN
<1>1. Len(buffer) \in Nat /\ DOMAIN buffer = 1 .. Len(buffer)
    BY LenProperties DEF TypeInv, TypeOK
<1>2. \A i \in DOMAIN buffer : buffer[i] \in Elements
    BY <1>1, ElementOfSeq DEF TypeInv, TypeOK
<1> QED
    BY <1>1, <1>2 DEF Elements

LEMMA TypeInvInit == Init => TypeInv
BY ReorderAssumption DEF Init, TypeInv, TypeOK, ScanInv

LEMMA TypeInvStep == TypeInv /\ [Next]_vars => TypeInv'
<1> SUFFICES ASSUME TypeInv, [Next]_vars PROVE TypeInv'
    OBVIOUS
<1> USE DEF TypeInv, TypeOK, ScanInv
<1>1. CASE ReceiveNothing \/ ReadClock \/ FlushedAll \/ NoneExpired
    <2>1. CASE ReceiveNothing \/ ReadClock \/ NoneExpired
        BY <2>1 DEF ReceiveNothing, ReadClock, NoneExpired
    <2>2. CASE FlushedAll
        BY <2>2, LenProperties DEF FlushedAll
    <2> QED
        BY <1>1, <2>1, <2>2
<1>2. ASSUME NEW n \in coming, Receive(n)
      PROVE  TypeInv'
    <2>1. Element(n) \in Elements
        BY ReorderAssumption DEF Element, Elements
    <2>2. buffer' \in Seq(Elements) /\ Len(buffer') = Len(buffer) + 1
        BY <1>2, <2>1 DEF Receive
    <2>3. coming' \subseteq coming
        BY <1>2 DEF Receive
    <2> QED
        BY <1>2, <2>2, <2>3 DEF Receive
<1>3. ASSUME NEW i \in DOMAIN buffer, Flush(i)
      PROVE  TypeInv'
    <2>1. i \in 1 .. Len(buffer) /\ buffer[i] \in Elements
        BY ElementOfSeq
    <2>2. [buffer[i] EXCEPT !.live = FALSE] \in Elements
        BY <2>1 DEF Elements
    <2>3. buffer' \in Seq(Elements) /\ Len(buffer') = Len(buffer)
        BY <1>3, <2>1, <2>2, ExceptSeq DEF Flush
    <2>4. out' \in Int
        BY <1>3, <2>1 DEF Flush, Elements
    <2>5. sequence_flushed' \in 0 .. Modulus - 1
        BY <1>3, SuccessorType DEF Flush
    <2> QED
        BY <1>3, <2>1, <2>3, <2>4, <2>5 DEF Flush
<1>4. ASSUME NEW i \in DOMAIN buffer, GiveUp(i)
      PROVE  TypeInv'
    <2>1. sequence_flushed' \in 0 .. Modulus - 1
        BY <1>4, SuccessorType DEF GiveUp
    <2> QED
        BY <1>4, <2>1 DEF GiveUp
<1>5. CASE Drop
    <2>1. PICK k \in 0 .. Len(buffer) :
            buffer' = [i \in 1 .. Len(buffer) - k |->
                         [buffer[i + k] EXCEPT !.live = Remaining(i + k)]]
        BY <1>5 DEF Drop
    <2>2. buffer' \in Seq(Elements)
        BY <2>1, ShiftedType
    <2> QED
        BY <1>5, <2>2, LenProperties DEF Drop
<1>6. CASE Tick
    <2>1. buffer' \in Seq(Elements) /\ Len(buffer') = Len(buffer)
        BY <1>6, AgedType
    <2> QED
        BY <1>6, <2>1 DEF Tick
<1>7. CASE UNCHANGED vars
    BY <1>7 DEF vars
<1> QED
    BY <1>1, <1>2, <1>3, <1>4, <1>5, <1>6, <1>7 DEF Next, Round

\* Every variable keeps its type, whatever arrives: sequence_flushed, which starts
\* at the largest number, stays a uint32_t when it is advanced.
THEOREM ReorderTypeCorrect == Spec => []TypeOK
<1> QED
    BY TypeInvInit, TypeInvStep, PTL DEF Spec, TypeInv

-----------------------------------------------------------------------------
(* The age of what the array holds. *)

\* The elements are in the order of their arrival, and none that is live has
\* timed out when late packets are dropped.
AgeInv ==
    /\ \A i, j \in DOMAIN buffer : i <= j => buffer[j].age <= buffer[i].age
    /\ pc = "drop" => \A i \in DOMAIN buffer : ~Expired(i)

\* The first element that is kept is live.
LEMMA FrontRemains ==
    ASSUME TypeInv, NEW k \in 0 .. Len(buffer), Freeable(k), k < Len(buffer)
    PROVE  Remaining(k + 1)
<1>1. Len(buffer) \in Nat /\ DOMAIN buffer = 1 .. Len(buffer)
    BY ArrayType
<1>2. Kept(k + 1)
    BY <1>1 DEF Freeable
<1>3. PICK j \in 1 .. k + 1 : Remaining(j)
    BY <1>2 DEF Kept
<1>4. CASE j <= k
    <2>1. k \in DOMAIN buffer /\ Kept(k)
        BY <1>1, <1>3, <1>4 DEF Kept
    <2> QED
        BY <1>1, <2>1 DEF Freeable
<1> QED
    BY <1>1, <1>3, <1>4

LEMMA DropKeepsYoung ==
    ASSUME TypeInv, AgeInv, Drop
    PROVE  /\ \A i \in DOMAIN buffer' : buffer'[i].age < Timeout
           /\ \A i, j \in DOMAIN buffer' : i <= j => buffer'[j].age <= buffer'[i].age
<1>1. Len(buffer) \in Nat /\ DOMAIN buffer = 1 .. Len(buffer)
    BY ArrayType
<1>2. PICK k \in 0 .. Len(buffer) :
        /\ Freeable(k)
        /\ buffer' = [i \in 1 .. Len(buffer) - k |->
                        [buffer[i + k] EXCEPT !.live = Remaining(i + k)]]
    BY DEF Drop
<1>3. ASSUME NEW i \in DOMAIN buffer'
      PROVE  i + k \in DOMAIN buffer /\ buffer'[i].age = buffer[i + k].age
    <2>1. i \in 1 .. Len(buffer) - k /\ i + k \in 1 .. Len(buffer)
        BY <1>1, <1>2
    <2>2. buffer[i + k] \in Elements
        BY <1>1, <2>1, ArrayType
    <2> QED
        BY <1>1, <1>2, <2>1, <2>2 DEF Elements
<1>4. ASSUME NEW i \in DOMAIN buffer'
      PROVE  buffer'[i].age < Timeout
    <2>1. i \in Nat /\ 1 <= i /\ k < Len(buffer)
        BY <1>1, <1>2
    <2>2. buffer[k + 1].live /\ k + 1 \in DOMAIN buffer
        BY <1>1, <1>2, <2>1, FrontRemains DEF Remaining
    <2>3. buffer[k + 1].age \in Nat /\ buffer[i + k].age \in Nat
        BY <1>3, <2>2, ArrayType
    <2>4. buffer[k + 1].age < Timeout
        BY <2>2, <2>3, ReorderAssumption DEF AgeInv, Drop, Expired
    <2>5. buffer[i + k].age <= buffer[k + 1].age
        BY <1>1, <1>3, <2>1, <2>2 DEF AgeInv
    <2> QED
        BY <1>3, <2>3, <2>4, <2>5, ReorderAssumption
<1>5. ASSUME NEW i \in DOMAIN buffer', NEW j \in DOMAIN buffer', i <= j
      PROVE  buffer'[j].age <= buffer'[i].age
    <2>1. i \in Nat /\ j \in Nat /\ i + k <= j + k
        BY <1>1, <1>2, <1>5
    <2> QED
        BY <1>3, <2>1 DEF AgeInv
<1> QED
    BY <1>4, <1>5

LEMMA AgeInvStep == TypeInv /\ AgeInv /\ [Next]_vars => AgeInv'
<1> SUFFICES ASSUME TypeInv, AgeInv, [Next]_vars PROVE AgeInv'
    OBVIOUS
<1>0. /\ Len(buffer) \in Nat /\ DOMAIN buffer = 1 .. Len(buffer)
      /\ \A i \in DOMAIN buffer : buffer[i].age \in 0 .. Timeout
    BY ArrayType
<1>1. CASE ReceiveNothing \/ ReadClock \/ FlushedAll
    BY <1>1 DEF AgeInv, ReceiveNothing, ReadClock, FlushedAll
<1>2. CASE NoneExpired
    BY <1>2 DEF AgeInv, NoneExpired, Expired
<1>3. ASSUME NEW n \in coming, Receive(n)
      PROVE  AgeInv'
    <2>1. /\ DOMAIN buffer' = 1 .. Len(buffer) + 1
          /\ \A i \in DOMAIN buffer : buffer'[i] = buffer[i]
          /\ buffer'[Len(buffer) + 1].age = 0
        BY <1>3 DEF Receive, Element, TypeInv, TypeOK
    <2>2. ASSUME NEW i \in DOMAIN buffer', NEW j \in DOMAIN buffer', i <= j
          PROVE  buffer'[j].age <= buffer'[i].age
        <3>1. CASE j = Len(buffer) + 1
            BY <1>0, <2>1, <3>1, ReorderAssumption
        <3>2. CASE j # Len(buffer) + 1
            BY <1>0, <2>1, <2>2, <3>2 DEF AgeInv
        <3> QED
            BY <3>1, <3>2
    <2> QED
        BY <1>3, <2>2 DEF AgeInv, Receive
<1>4. ASSUME NEW i \in DOMAIN buffer, Flush(i)
      PROVE  AgeInv'
    <2>1. DOMAIN buffer' = DOMAIN buffer
        BY <1>4 DEF Flush
    <2>2. \A j \in DOMAIN buffer : buffer'[j].age = buffer[j].age
        BY <1>4, ArrayType DEF Flush, Elements
    <2> QED
        BY <1>4, <2>1, <2>2 DEF AgeInv, Flush
<1>5. ASSUME NEW i \in DOMAIN buffer, GiveUp(i)
      PROVE  AgeInv'
    BY <1>5 DEF AgeInv, GiveUp
<1>6. CASE Drop
    BY <1>6, DropKeepsYoung DEF AgeInv, Drop
<1>7. CASE Tick
    <2>1. /\ DOMAIN buffer' = DOMAIN buffer
          /\ \A i \in DOMAIN buffer : buffer'[i].age = Older(buffer[i].age)
        BY <1>7, AgedType DEF TypeInv, TypeOK
    <2>2. \A a, b \in 0 .. Timeout : a <= b => Older(a) <= Older(b)
        BY ReorderAssumption DEF Older
    <2> QED
        BY <1>0, <1>7, <2>1, <2>2 DEF AgeInv, Tick
<1>8. CASE UNCHANGED vars
    BY <1>8 DEF AgeInv, vars, Expired
<1> QED
    BY <1>1, <1>2, <1>3, <1>4, <1>5, <1>6, <1>7, <1>8 DEF Next, Round

\* When a round ends, everything in the array has arrived within the time-out,
\* also with duplicates and with numbers that wrap.
THEOREM HeldWithinTimeout == Spec => NothingOverdue
<1>1. Init => AgeInv
    BY DEF Init, AgeInv
<1>2. /\ TypeInv /\ AgeInv /\ [Next]_vars
      => [pc = "drop" => \A i \in DOMAIN buffer' : buffer'[i].age < Timeout]_vars
    <2> SUFFICES ASSUME TypeInv, AgeInv, Next, pc = "drop"
                 PROVE  \A i \in DOMAIN buffer' : buffer'[i].age < Timeout
        BY DEF vars
    <2>1. Drop
        BY DEF Next, Round, ReceiveNothing, ReadClock, FlushedAll, NoneExpired,
               Receive, Flush, GiveUp, Tick
    <2> QED
        BY <2>1, DropKeepsYoung
<1> QED
    BY <1>1, <1>2, TypeInvInit, TypeInvStep, AgeInvStep, PTL DEF Spec, NothingOverdue

-----------------------------------------------------------------------------
(* The numbers of the packets, for a stream whose numbers do not wrap and    *)
(* which the network does not duplicate.  Any of them may arrive first.      *)

Distinct == Stream < Modulus /\ ~Duplicates

\* sequence_flushed is the number before next.
NumberInv ==
    /\ next <= Stream
    /\ sequence_flushed = IF next = 0 THEN Modulus - 1 ELSE next - 1

\* No packet is in the array twice, and none of them can arrive again.
UniqueInv ==
    /\ \A i, j \in DOMAIN buffer : buffer[i].packet = buffer[j].packet => i = j
    /\ \A i \in DOMAIN buffer : buffer[i].packet \notin coming

\* A packet that is not live had its turn, and a live one whose turn is over is the
\* one this round received: it has had no time to time out.
TurnInv ==
    \A i \in DOMAIN buffer :
      buffer[i].packet < next /\ buffer[i].live
        => pc # "recv" /\ i = Len(buffer) /\ buffer[i].age <= Lag

DeadInv == \A i \in DOMAIN buffer : ~buffer[i].live => buffer[i].packet < next

\* After flushing the packet whose turn it is is not in the array.
WaitInv == pc \in {"expire", "drop"} => \A i \in DOMAIN buffer : buffer[i].packet # next

\* What was written came before what is awaited.
OutInv == out < next

OrderInv == NumberInv /\ UniqueInv /\ TurnInv /\ DeadInv /\ WaitInv /\ OutInv

LEMMA SmallNumber ==
    ASSUME NEW n \in 0 .. Modulus - 1
    PROVE  n % Modulus = n
BY ReorderAssumption

LEMMA NextNumber ==
    ASSUME Distinct, TypeInv, NumberInv
    PROVE  Successor(sequence_flushed) = next
<1>1. next \in 0 .. Modulus - 1
    BY ReorderAssumption DEF Distinct, NumberInv, TypeInv, TypeOK
<1>2. CASE next = 0
    BY <1>2, ReorderAssumption DEF NumberInv, Successor
<1>3. CASE next # 0
    <2>1. sequence_flushed + 1 = next
        BY <1>1, <1>3 DEF NumberInv
    <2> QED
        BY <1>1, <2>1, SmallNumber DEF Successor
<1> QED
    BY <1>2, <1>3

\* With numbers that do not wrap, the comparisons of the code compare packets.
LEMMA Numbers ==
    ASSUME Distinct, TypeInv, NumberInv, NEW i \in DOMAIN buffer
    PROVE  /\ InOrder(i) <=> buffer[i].packet = next
           /\ next > 0 => (Late(i) <=> buffer[i].live /\ buffer[i].packet < next)
<1>1. next \in 0 .. Modulus - 1 /\ buffer[i].packet \in 0 .. Modulus - 1
    BY ArrayType, ReorderAssumption DEF Distinct, NumberInv, TypeInv, TypeOK
<1>2. Sequence(i) = buffer[i].packet
    BY <1>1, SmallNumber DEF Sequence
<1>3. Successor(sequence_flushed) = next
    BY NextNumber
<1>4. next > 0 => (Late(i) <=> buffer[i].live /\ buffer[i].packet < next)
    BY <1>1, <1>2 DEF Late, NumberInv
<1> QED
    BY <1>2, <1>3, <1>4 DEF InOrder

\* The number after the one given up or flushed last.
LEMMA Advanced ==
    ASSUME Distinct, TypeInv, NumberInv, next < Stream,
           next' = next + 1, sequence_flushed' = Successor(sequence_flushed)
    PROVE  NumberInv'
<1>1. next \in Nat /\ next + 1 <= Stream
    BY ReorderAssumption DEF TypeInv, TypeOK
<1> QED
    BY <1>1, NextNumber DEF NumberInv

LEMMA OrderInvInit == Init /\ Distinct => OrderInv
BY ReorderAssumption
   DEF Init, OrderInv, NumberInv, UniqueInv, TurnInv, DeadInv, WaitInv, OutInv

LEMMA ReceiveInOrder ==
    ASSUME Distinct, TypeInv, OrderInv, NEW n \in coming, Receive(n)
    PROVE  OrderInv'
<1>1. /\ Len(buffer) \in Nat /\ DOMAIN buffer = 1 .. Len(buffer)
      /\ next \in Nat /\ n \in 0 .. Stream - 1
    BY ArrayType DEF TypeInv, TypeOK
<1>2. /\ DOMAIN buffer' = 1 .. Len(buffer) + 1 /\ Len(buffer') = Len(buffer) + 1
      /\ \A i \in DOMAIN buffer : buffer'[i] = buffer[i]
      /\ buffer'[Len(buffer) + 1] = Element(n)
    BY DEF Receive, TypeInv, TypeOK
<1>3. \A i \in DOMAIN buffer' : i \in DOMAIN buffer \/ i = Len(buffer) + 1
    BY <1>1, <1>2
<1>4. coming' = coming \ {n} /\ \A i \in DOMAIN buffer : buffer[i].packet # n
    BY DEF Receive, Distinct, OrderInv, UniqueInv
<1>5. /\ Element(n).packet = n /\ Element(n).live = TRUE /\ Element(n).age = 0
    BY DEF Element
<1>6. NumberInv'
    BY DEF Receive, OrderInv, NumberInv
<1>7. UniqueInv'
    BY <1>2, <1>3, <1>4, <1>5 DEF OrderInv, UniqueInv
<1>8. OutInv'
    BY DEF Receive, OrderInv, OutInv
<1>9. TurnInv'
    <2>1. \A i \in DOMAIN buffer : ~(buffer[i].packet < next /\ buffer[i].live)
        BY DEF Receive, OrderInv, TurnInv
    <2> QED
        BY <1>2, <1>3, <1>5, <2>1, ReorderAssumption DEF Receive, TurnInv
<1>10. DeadInv' /\ WaitInv'
    BY <1>2, <1>3, <1>5 DEF Receive, OrderInv, DeadInv, WaitInv
<1> QED
    BY <1>6, <1>7, <1>8, <1>9, <1>10 DEF OrderInv

LEMMA FlushInOrder ==
    ASSUME Distinct, TypeInv, OrderInv, NEW i \in DOMAIN buffer, Flush(i)
    PROVE  OrderInv' /\ buffer[i].packet = next /\ buffer[i].live
<1>1. /\ next \in Nat
      /\ \A j \in DOMAIN buffer :
           buffer[j] \in Elements /\ buffer[j].packet \in 0 .. Stream - 1
    BY ArrayType DEF TypeInv, TypeOK
<1>2. buffer[i].packet = next
    BY Numbers DEF Flush, OrderInv
<1>3. buffer[i].live
    BY <1>1, <1>2 DEF OrderInv, DeadInv
<1>4. DOMAIN buffer' = DOMAIN buffer /\ Len(buffer') = Len(buffer)
    BY ExceptSeq DEF Flush, TypeInv, TypeOK
<1>5. \A j \in DOMAIN buffer :
        /\ buffer'[j].packet = buffer[j].packet
        /\ buffer'[j].age = buffer[j].age
        /\ j # i => buffer'[j].live = buffer[j].live
        /\ j = i => buffer'[j].live = FALSE
    BY <1>1 DEF Flush, Elements
<1>6. NumberInv'
    BY <1>1, <1>2, Advanced, ReorderAssumption DEF Flush, OrderInv
<1>7. UniqueInv' /\ WaitInv' /\ OutInv'
    BY <1>1, <1>2, <1>4, <1>5 DEF Flush, OrderInv, UniqueInv, WaitInv, OutInv
<1>8. ASSUME NEW j \in DOMAIN buffer
      PROVE  /\ buffer'[j].packet < next' /\ buffer'[j].live
                => buffer[j].packet < next /\ buffer[j].live
             /\ ~buffer'[j].live => buffer'[j].packet < next'
    <2>1. /\ next' = next + 1 /\ buffer[j].packet \in Int
          /\ buffer'[j].packet = buffer[j].packet
        BY <1>1, <1>5, ReorderAssumption DEF Flush
    <2>2. CASE j = i
        BY <1>1, <1>2, <1>5, <2>1, <2>2
    <2>3. CASE j # i
        <3>1. buffer[j].packet # next /\ buffer'[j].live = buffer[j].live
            BY <1>2, <1>5, <2>3 DEF OrderInv, UniqueInv
        <3>2. ~buffer[j].live => buffer[j].packet < next
            BY DEF OrderInv, DeadInv
        <3> QED
            BY <1>1, <2>1, <3>1, <3>2
    <2> QED
        BY <2>2, <2>3
<1>9. TurnInv' /\ DeadInv'
    BY <1>4, <1>5, <1>8 DEF Flush, OrderInv, TurnInv, DeadInv
<1> QED
    BY <1>2, <1>3, <1>6, <1>7, <1>9 DEF OrderInv

\* A packet that times out comes after the one that is given up.
LEMMA ExpiredAhead ==
    ASSUME Distinct, TypeInv, OrderInv, pc = "expire",
           NEW i \in DOMAIN buffer, Expired(i)
    PROVE  buffer[i].packet > next
<1>1. next \in Nat /\ buffer[i].packet \in Int /\ buffer[i].age \in Nat
    BY ArrayType, ReorderAssumption DEF TypeInv, TypeOK
<1>2. ~(buffer[i].packet < next)
    BY <1>1, ReorderAssumption DEF Expired, OrderInv, TurnInv
<1>3. buffer[i].packet # next
    BY DEF OrderInv, WaitInv
<1> QED
    BY <1>1, <1>2, <1>3

LEMMA GiveUpInOrder ==
    ASSUME Distinct, TypeInv, OrderInv, NEW i \in DOMAIN buffer, GiveUp(i)
    PROVE  OrderInv'
<1>1. /\ next \in Nat
      /\ \A j \in DOMAIN buffer : buffer[j].packet \in 0 .. Stream - 1
    BY ArrayType DEF TypeInv, TypeOK
<1>2. buffer[i].packet > next
    BY ExpiredAhead DEF GiveUp
<1>3. NumberInv'
    BY <1>1, <1>2, Advanced, ReorderAssumption DEF GiveUp, OrderInv
<1>4. UniqueInv' /\ WaitInv' /\ OutInv'
    BY <1>1 DEF GiveUp, OrderInv, UniqueInv, WaitInv, OutInv, TypeInv, TypeOK
<1>5. \A j \in DOMAIN buffer :
        buffer[j].packet < next + 1 <=> buffer[j].packet < next
    <2>1. \A j \in DOMAIN buffer : buffer[j].packet # next
        BY DEF GiveUp, OrderInv, WaitInv
    <2> QED
        BY <1>1, <2>1, ReorderAssumption
<1>6. TurnInv' /\ DeadInv'
    BY <1>5 DEF GiveUp, OrderInv, TurnInv, DeadInv
<1> QED
    BY <1>3, <1>4, <1>6 DEF OrderInv

\* What the array holds after its front was removed.
LEMMA Shifted ==
    ASSUME TypeInv, NEW k \in 0 .. Len(buffer),
           buffer' = [i \in 1 .. Len(buffer) - k |->
                        [buffer[i + k] EXCEPT !.live = Remaining(i + k)]]
    PROVE  /\ DOMAIN buffer' = 1 .. Len(buffer) - k
           /\ \A i \in DOMAIN buffer' :
                /\ i + k \in DOMAIN buffer
                /\ buffer'[i].packet = buffer[i + k].packet
                /\ buffer'[i].live <=> Remaining(i + k)
<1>1. Len(buffer) \in Nat /\ DOMAIN buffer = 1 .. Len(buffer)
    BY ArrayType
<1>2. DOMAIN buffer' = 1 .. Len(buffer) - k
    OBVIOUS
<1>3. ASSUME NEW i \in DOMAIN buffer'
      PROVE  /\ i + k \in DOMAIN buffer
             /\ buffer'[i].packet = buffer[i + k].packet
             /\ buffer'[i].live <=> Remaining(i + k)
    <2>1. i \in 1 .. Len(buffer) - k /\ i + k \in DOMAIN buffer
        BY <1>1, <1>2
    <2>2. buffer[i + k] \in Elements
        BY <2>1, ArrayType
    <2>3. buffer'[i] = [buffer[i + k] EXCEPT !.live = Remaining(i + k)]
        BY <2>1
    <2> QED
        BY <2>1, <2>2, <2>3 DEF Elements
<1> QED
    BY <1>2, <1>3

\* What remains is live and still to come, in the array's own comparison.
LEMMA RemainingAhead ==
    ASSUME Distinct, TypeInv, OrderInv, next > 0, NEW i \in DOMAIN buffer
    PROVE  Remaining(i) <=> buffer[i].live /\ buffer[i].packet >= next
<1>1. next \in Nat /\ buffer[i].packet \in Int
    BY ArrayType, ReorderAssumption DEF TypeInv, TypeOK
<1>2. Late(i) <=> buffer[i].live /\ buffer[i].packet < next
    BY Numbers DEF OrderInv
<1> QED
    BY <1>1, <1>2 DEF Remaining

\* Before anything is delivered every packet counts as late, and the array is
\* emptied.
LEMMA NothingRemains ==
    ASSUME Distinct, TypeInv, NumberInv, next = 0, NEW k \in 0 .. Len(buffer), Freeable(k)
    PROVE  ~(k < Len(buffer))
<1> SUFFICES ASSUME k < Len(buffer) PROVE FALSE
    OBVIOUS
<1>1. Len(buffer) \in Nat /\ DOMAIN buffer = 1 .. Len(buffer)
    BY ArrayType
<1>2. ASSUME NEW i \in DOMAIN buffer PROVE ~Remaining(i)
    <2>1. buffer[i].packet \in 0 .. Modulus - 1
        BY ArrayType, ReorderAssumption DEF Distinct
    <2>2. Sequence(i) <= sequence_flushed
        BY <2>1, SmallNumber, ReorderAssumption DEF Sequence, NumberInv
    <2> QED
        BY <2>2 DEF Remaining, Late
<1>3. Remaining(k + 1) /\ k + 1 \in DOMAIN buffer
    BY <1>1, FrontRemains
<1> QED
    BY <1>2, <1>3

LEMMA DropInOrder ==
    ASSUME Distinct, TypeInv, OrderInv, Drop
    PROVE  OrderInv'
<1>1. /\ Len(buffer) \in Nat /\ DOMAIN buffer = 1 .. Len(buffer) /\ next \in Nat
      /\ \A i \in DOMAIN buffer : buffer[i].packet \in 0 .. Stream - 1
    BY ArrayType DEF TypeInv, TypeOK
<1>2. PICK k \in 0 .. Len(buffer) :
        /\ Freeable(k)
        /\ buffer' = [i \in 1 .. Len(buffer) - k |->
                        [buffer[i + k] EXCEPT !.live = Remaining(i + k)]]
    BY DEF Drop
<1>3. /\ DOMAIN buffer' = 1 .. Len(buffer) - k
      /\ \A i \in DOMAIN buffer' :
           /\ i + k \in DOMAIN buffer
           /\ buffer'[i].packet = buffer[i + k].packet
           /\ buffer'[i].live <=> Remaining(i + k)
    BY <1>2, Shifted
<1>4. NumberInv' /\ WaitInv' /\ OutInv'
    BY DEF Drop, OrderInv, NumberInv, WaitInv, OutInv
<1>5. UniqueInv'
    <2>1. ASSUME NEW i \in DOMAIN buffer', NEW j \in DOMAIN buffer',
                 buffer'[i].packet = buffer'[j].packet
          PROVE  i = j
        <3>1. i + k = j + k
            BY <1>3, <2>1 DEF OrderInv, UniqueInv
        <3> QED
            BY <1>1, <1>3, <3>1
    <2>2. \A i \in DOMAIN buffer' : buffer'[i].packet \notin coming'
        BY <1>3 DEF Drop, OrderInv, UniqueInv
    <2> QED
        BY <2>1, <2>2 DEF UniqueInv
<1>6. next = 0 => DOMAIN buffer' = {}
    BY <1>1, <1>2, <1>3, NothingRemains DEF OrderInv
<1>7. ASSUME NEW i \in DOMAIN buffer'
      PROVE  buffer'[i].live <=> ~(buffer'[i].packet < next)
    <2>1. Remaining(i + k) <=> buffer[i + k].live /\ buffer[i + k].packet >= next
        BY <1>1, <1>3, <1>6, RemainingAhead
    <2>2. ~buffer[i + k].live => buffer[i + k].packet < next
        BY <1>3 DEF OrderInv, DeadInv
    <2>3. buffer[i + k].packet \in Int
        BY <1>1, <1>3, ReorderAssumption
    <2> QED
        BY <1>1, <1>3, <2>1, <2>2, <2>3
<1>8. TurnInv' /\ DeadInv'
    BY <1>7 DEF Drop, TurnInv, DeadInv
<1> QED
    BY <1>4, <1>5, <1>8 DEF OrderInv

LEMMA TickInOrder ==
    ASSUME Distinct, TypeInv, OrderInv, Tick
    PROVE  OrderInv'
<1>1. /\ Len(buffer) \in Nat /\ Len(buffer') = Len(buffer)
      /\ DOMAIN buffer' = DOMAIN buffer
      /\ \A i \in DOMAIN buffer :
           /\ buffer'[i].packet = buffer[i].packet
           /\ buffer'[i].live = buffer[i].live
           /\ buffer'[i].age = Older(buffer[i].age)
           /\ buffer[i].age \in 0 .. Timeout
    BY ArrayType, AgedType DEF TypeInv, TypeOK
<1>2. UNCHANGED <<pc, sequence_flushed, coming, next, out>>
    BY DEF Tick
<1>3. NumberInv' /\ DeadInv' /\ WaitInv' /\ OutInv'
    BY <1>1, <1>2 DEF OrderInv, NumberInv, DeadInv, WaitInv, OutInv
<1>4. UniqueInv'
    BY <1>1, <1>2 DEF OrderInv, UniqueInv
<1>5. TurnInv'
    <2>1. ASSUME NEW i \in DOMAIN buffer, buffer[i].packet < next, buffer[i].live
          PROVE  pc # "recv" /\ i = Len(buffer) /\ Older(buffer[i].age) <= Lag
        <3>1. pc # "recv" /\ i = Len(buffer)
            BY <2>1 DEF OrderInv, TurnInv
        <3>2. buffer[i].age < Lag
            BY <3>1 DEF Tick
        <3> QED
            BY <1>1, <3>1, <3>2, ReorderAssumption DEF Older
    <2> QED
        BY <1>1, <1>2, <2>1 DEF TurnInv
<1> QED
    BY <1>3, <1>4, <1>5 DEF OrderInv

LEMMA OrderInvStep == Distinct /\ TypeInv /\ OrderInv /\ [Next]_vars => OrderInv'
<1> SUFFICES ASSUME Distinct, TypeInv, OrderInv, [Next]_vars PROVE OrderInv'
    OBVIOUS
<1> USE DEF OrderInv, NumberInv, UniqueInv, TurnInv, DeadInv, WaitInv, OutInv
<1>1. CASE ReceiveNothing
    BY <1>1 DEF ReceiveNothing
<1>2. CASE ReadClock
    BY <1>2 DEF ReadClock
<1>3. CASE FlushedAll
    <2>1. \A i \in DOMAIN buffer : buffer[i].packet # next
        BY <1>3, Numbers DEF FlushedAll
    <2> QED
        BY <1>3, <2>1 DEF FlushedAll
<1>4. CASE NoneExpired
    BY <1>4 DEF NoneExpired
<1>5. CASE UNCHANGED vars
    BY <1>5 DEF vars
<1> QED
    BY <1>1, <1>2, <1>3, <1>4, <1>5, ReceiveInOrder, FlushInOrder, GiveUpInOrder,
       DropInOrder, TickInOrder DEF Next, Round

LEMMA OrderInvariance == Distinct /\ Spec => [](TypeInv /\ OrderInv)
<1> SUFFICES ASSUME Distinct PROVE Spec => [](TypeInv /\ OrderInv)
    OBVIOUS
<1>1. Init => TypeInv /\ OrderInv
    BY TypeInvInit, OrderInvInit
<1>2. TypeInv /\ OrderInv /\ [Next]_vars => (TypeInv /\ OrderInv)'
    BY TypeInvStep, OrderInvStep
<1> QED
    BY <1>1, <1>2, PTL DEF Spec

\* No element is flushed, and its packet freed, a second time.
THEOREM NothingFreedTwice ==
    ASSUME Distinct
    PROVE  Spec => []FreedOnce
<1>1. TypeInv /\ OrderInv => FreedOnce
    BY Numbers, ArrayType DEF OrderInv, DeadInv, FreedOnce, TypeInv, TypeOK
<1> QED
    BY <1>1, OrderInvariance, PTL

\* A number is given up only for the sake of a packet that comes after it.
THEOREM NothingGivenUpInVain ==
    ASSUME Distinct
    PROVE  Spec => []GivenUpForHeld
<1>1. TypeInv /\ OrderInv => GivenUpForHeld
    BY ExpiredAhead DEF GivenUpForHeld
<1> QED
    BY <1>1, OrderInvariance, PTL

\* Packets leave the array in the order of the stream, whichever comes first and
\* whatever is lost or given up: a number is never written after a later one.
THEOREM WrittenInOrder ==
    ASSUME Distinct
    PROVE  Spec => OutputRises
<1>1. TypeInv /\ OrderInv /\ [Next]_vars => [out' # out => out' > out]_vars
    <2> SUFFICES ASSUME TypeInv, OrderInv, Next, out' # out
                 PROVE  out' > out
        BY DEF vars
    <2>1. PICK i \in DOMAIN buffer : Flush(i)
        BY DEF Next, Round, ReceiveNothing, ReadClock, FlushedAll, NoneExpired,
               Receive, GiveUp, Drop, Tick
    <2>2. out' = next
        BY <2>1, FlushInOrder DEF Flush
    <2> QED
        BY <2>2 DEF OrderInv, OutInv, TypeInv, TypeOK
<1> QED
    BY <1>1, OrderInvariance, PTL DEF Spec, OutputRises

-----------------------------------------------------------------------------
(* A stream whose first packet arrives first. *)

Orderly == Distinct /\ InOrderStart

\* Before anything is delivered the array holds at most packet 0, which leaves it
\* in the round that receives it.
StartInv ==
    next = 0 => \A i \in DOMAIN buffer :
                  pc \in {"now", "flush"} /\ buffer[i].packet = 0

LEMMA StartInvStep ==
    Orderly /\ TypeInv /\ OrderInv /\ StartInv /\ [Next]_vars => StartInv'
<1> SUFFICES ASSUME Orderly, TypeInv, OrderInv, StartInv, [Next]_vars PROVE StartInv'
    OBVIOUS
<1>0. next \in Nat
    BY DEF TypeInv, TypeOK
<1>1. CASE ReceiveNothing \/ ReadClock \/ NoneExpired \/ UNCHANGED vars
    BY <1>1 DEF StartInv, ReceiveNothing, ReadClock, NoneExpired, vars
<1>2. CASE FlushedAll
    <2>1. \A i \in DOMAIN buffer : buffer[i].packet # next
        BY <1>2, Numbers DEF FlushedAll, Orderly, OrderInv
    <2> QED
        BY <1>2, <2>1 DEF FlushedAll, StartInv
<1>3. ASSUME NEW n \in coming, Receive(n)
      PROVE  StartInv'
    <2>1. next = 0 => n = 0 /\ DOMAIN buffer = {}
        BY <1>3 DEF Receive, Orderly, StartInv
    <2>2. /\ DOMAIN buffer' = 1 .. Len(buffer) + 1
          /\ buffer'[Len(buffer) + 1].packet = n
        BY <1>3 DEF Receive, Element, TypeInv, TypeOK
    <2>3. Len(buffer) \in Nat /\ DOMAIN buffer = 1 .. Len(buffer)
        BY ArrayType
    <2>4. next = 0 => \A i \in DOMAIN buffer' : i = Len(buffer) + 1
        BY <2>1, <2>2, <2>3
    <2> QED
        BY <1>3, <2>1, <2>2, <2>4 DEF Receive, StartInv
<1>4. ASSUME NEW i \in DOMAIN buffer, Flush(i) \/ GiveUp(i)
      PROVE  StartInv'
    BY <1>0, <1>4 DEF Flush, GiveUp, StartInv
<1>5. CASE Drop
    <2>1. PICK k \in 0 .. Len(buffer) :
            buffer' = [i \in 1 .. Len(buffer) - k |->
                         [buffer[i + k] EXCEPT !.live = Remaining(i + k)]]
        BY <1>5 DEF Drop
    <2>2. \A i \in DOMAIN buffer' : i + k \in DOMAIN buffer
        BY <2>1, Shifted
    <2> QED
        BY <1>5, <2>2 DEF Drop, StartInv
<1>6. CASE Tick
    <2>1. /\ DOMAIN buffer' = DOMAIN buffer
          /\ \A i \in DOMAIN buffer : buffer'[i].packet = buffer[i].packet
        BY <1>6, AgedType DEF TypeInv, TypeOK
    <2> QED
        BY <1>6, <2>1 DEF Tick, StartInv
<1> QED
    BY <1>1, <1>2, <1>3, <1>4, <1>5, <1>6 DEF Next, Round

LEMMA StartInvariance == Orderly /\ Spec => [](TypeInv /\ OrderInv /\ StartInv)
<1> SUFFICES ASSUME Orderly PROVE Spec => [](TypeInv /\ OrderInv /\ StartInv)
    OBVIOUS
<1>1. Init => StartInv
    BY DEF Init, StartInv
<1>2. TypeInv /\ OrderInv /\ StartInv /\ [Next]_vars => StartInv'
    BY StartInvStep
<1>3. Spec => [](TypeInv /\ OrderInv)
    BY OrderInvariance DEF Orderly
<1> QED
    BY <1>1, <1>2, <1>3, PTL DEF Spec

\* If packet 0 arrives first, every packet that is dropped comes after its turn.
THEOREM OnlyLateDropped ==
    ASSUME Orderly
    PROVE  Spec => []DroppedOnlyLate
<1>1. TypeInv /\ OrderInv /\ StartInv => DroppedOnlyLate
    <2> SUFFICES ASSUME TypeInv, OrderInv, StartInv, pc = "drop",
                        NEW i \in DOMAIN buffer, Late(i)
                 PROVE  buffer[i].packet < next
        BY DEF DroppedOnlyLate
    <2>1. next > 0
        BY DEF StartInv, TypeInv, TypeOK
    <2> QED
        BY <2>1, Numbers DEF OrderInv, Orderly
<1> QED
    BY <1>1, StartInvariance, PTL

-----------------------------------------------------------------------------
(* The array implements ordered delivery. *)

LEMMA PromiseInit == Init => Promise!Init
BY DEF Init, Promise!Init, Held

LEMMA PromiseReceive ==
    ASSUME Distinct, TypeInv, OrderInv, NEW n \in coming, Receive(n)
    PROVE  Promise!Next \/ UNCHANGED Promise!vars
<1>1. /\ Len(buffer) \in Nat /\ DOMAIN buffer = 1 .. Len(buffer)
      /\ next \in Nat /\ n \in 0 .. Stream - 1
    BY ArrayType DEF TypeInv, TypeOK
<1>2. /\ DOMAIN buffer' = 1 .. Len(buffer) + 1
      /\ \A i \in DOMAIN buffer : buffer'[i] = buffer[i]
      /\ buffer'[Len(buffer) + 1].packet = n /\ buffer'[Len(buffer) + 1].live
    BY DEF Receive, Element, TypeInv, TypeOK
<1>3. \A i : i \in DOMAIN buffer' <=> i \in DOMAIN buffer \/ i = Len(buffer) + 1
    BY <1>1, <1>2
<1>4. next' = next /\ out' = out
    BY DEF Receive
<1>5. Held' = IF n >= next THEN Held \cup {n} ELSE Held
    BY <1>2, <1>3, <1>4 DEF Held
<1> QED
    BY <1>1, <1>4, <1>5 DEF Promise!Next, Promise!Arrive, Promise!vars

LEMMA PromiseFlush ==
    ASSUME Distinct, TypeInv, OrderInv, NEW i \in DOMAIN buffer, Flush(i)
    PROVE  Promise!Next
<1>1. /\ next \in Nat
      /\ \A j \in DOMAIN buffer :
           buffer[j] \in Elements /\ buffer[j].packet \in 0 .. Stream - 1
    BY ArrayType DEF TypeInv, TypeOK
<1>2. buffer[i].packet = next /\ buffer[i].live
    BY FlushInOrder
<1>3. next' = next + 1 /\ out' = next
    BY <1>2 DEF Flush
<1>4. DOMAIN buffer' = DOMAIN buffer
    BY DEF Flush
<1>5. \A j \in DOMAIN buffer :
        /\ buffer'[j].packet = buffer[j].packet
        /\ j # i => buffer'[j].live = buffer[j].live
        /\ j = i => buffer'[j].live = FALSE
    BY <1>1 DEF Flush, Elements
<1>6. \A j \in DOMAIN buffer : j # i => buffer[j].packet # next
    BY <1>2 DEF OrderInv, UniqueInv
<1>7. ASSUME NEW j \in DOMAIN buffer
      PROVE  buffer'[j].live /\ buffer'[j].packet >= next + 1
               <=> buffer[j].live /\ buffer[j].packet >= next /\ buffer[j].packet # next
    <2>1. buffer[j].packet \in Int
        BY <1>1, ReorderAssumption
    <2>2. CASE j = i
        BY <1>2, <1>5, <2>2
    <2>3. CASE j # i
        BY <1>1, <1>5, <2>1, <2>3
    <2> QED
        BY <2>2, <2>3
<1>8. Held' = Held \ {next}
    BY <1>3, <1>4, <1>5, <1>7 DEF Held
<1>9. next \in Held
    BY <1>1, <1>2 DEF Held
<1> QED
    BY <1>3, <1>8, <1>9 DEF Promise!Next, Promise!Deliver

LEMMA PromiseGiveUp ==
    ASSUME Distinct, TypeInv, OrderInv, NEW i \in DOMAIN buffer, GiveUp(i)
    PROVE  Promise!Next
<1>1. /\ next \in Nat
      /\ \A j \in DOMAIN buffer : buffer[j].packet \in Int
    BY ArrayType, ReorderAssumption DEF TypeInv, TypeOK
<1>2. buffer[i].packet > next /\ buffer[i].live
    BY ExpiredAhead DEF GiveUp, Expired
<1>3. \A j \in DOMAIN buffer : buffer[j].packet # next
    BY DEF GiveUp, OrderInv, WaitInv
<1>4. next' = next + 1 /\ UNCHANGED <<buffer, out>>
    BY DEF GiveUp
<1>5. next \notin Held
    BY <1>3 DEF Held
<1>6. \E n \in Held : n > next
    BY <1>1, <1>2 DEF Held
<1>7. \A j \in DOMAIN buffer : buffer[j].packet >= next + 1 <=> buffer[j].packet >= next
    BY <1>1, <1>3
<1>8. Held' = Held
    BY <1>4, <1>7 DEF Held
<1> QED
    BY <1>4, <1>5, <1>6, <1>8 DEF Promise!Next, Promise!GiveUp

LEMMA PromiseDrop ==
    ASSUME Orderly, TypeInv, OrderInv, StartInv, Drop
    PROVE  UNCHANGED Promise!vars
<1>1. /\ Len(buffer) \in Nat /\ DOMAIN buffer = 1 .. Len(buffer) /\ next \in Nat
    BY ArrayType DEF TypeInv, TypeOK
<1>2. PICK k \in 0 .. Len(buffer) :
        /\ Freeable(k)
        /\ buffer' = [i \in 1 .. Len(buffer) - k |->
                        [buffer[i + k] EXCEPT !.live = Remaining(i + k)]]
    BY DEF Drop
<1>3. /\ DOMAIN buffer' = 1 .. Len(buffer) - k
      /\ \A i \in DOMAIN buffer' :
           /\ i + k \in DOMAIN buffer
           /\ buffer'[i].packet = buffer[i + k].packet
           /\ buffer'[i].live <=> Remaining(i + k)
    BY <1>2, Shifted
<1>4. \A i \in DOMAIN buffer :
        Remaining(i) <=> buffer[i].live /\ buffer[i].packet >= next
    BY <1>1, RemainingAhead DEF Drop, StartInv, Orderly
<1>5. UNCHANGED <<next, out>>
    BY DEF Drop
<1>6. ASSUME NEW i \in DOMAIN buffer, Remaining(i)
      PROVE  i - k \in DOMAIN buffer' /\ i = (i - k) + k
    <2>1. i > k
        BY <1>1, <1>2, <1>6 DEF Freeable, Kept
    <2> QED
        BY <1>1, <1>3, <2>1
<1>7. ASSUME NEW p
      PROVE  p \in Held' <=> p \in Held
    <2>1. p \in Held <=> \E i \in DOMAIN buffer : Remaining(i) /\ p = buffer[i].packet
        BY <1>4 DEF Held
    <2>2. p \in Held' <=> \E i \in DOMAIN buffer' :
            Remaining(i + k) /\ p = buffer[i + k].packet
        BY <1>3, <1>4, <1>5 DEF Held
    <2> QED
        BY <1>3, <1>6, <2>1, <2>2
<1>8. Held' = Held
    BY <1>7
<1> QED
    BY <1>5, <1>8 DEF Promise!vars

\* The detailed array with its flags and modular numbers delivers what ordered
\* delivery allows: in order, each packet once, none thrown away that came in time.
THEOREM BufferDeliversInOrder ==
    ASSUME Orderly
    PROVE  Spec => DeliversInOrder
<1>1. TypeInv /\ OrderInv /\ StartInv /\ [Next]_vars
      => [Promise!Next]_(Promise!vars)
    <2> SUFFICES ASSUME TypeInv, OrderInv, StartInv, [Next]_vars
                 PROVE  Promise!Next \/ UNCHANGED Promise!vars
        OBVIOUS
    <2>1. CASE ReceiveNothing \/ ReadClock \/ FlushedAll \/ NoneExpired \/ UNCHANGED vars
        <3>1. UNCHANGED <<buffer, next, out>>
            BY <2>1 DEF ReceiveNothing, ReadClock, FlushedAll, NoneExpired, vars
        <3> QED
            BY <3>1 DEF Held, Promise!vars
    <2>2. CASE Tick
        <3>1. /\ DOMAIN buffer' = DOMAIN buffer
              /\ \A i \in DOMAIN buffer :
                   /\ buffer'[i].packet = buffer[i].packet
                   /\ buffer'[i].live = buffer[i].live
            BY <2>2, AgedType DEF TypeInv, TypeOK
        <3>2. UNCHANGED <<next, out>>
            BY <2>2 DEF Tick
        <3>3. Held' = Held
            BY <3>1, <3>2 DEF Held
        <3> QED
            BY <3>2, <3>3 DEF Promise!vars
    <2> QED
        BY <2>1, <2>2, PromiseReceive, PromiseFlush, PromiseGiveUp, PromiseDrop
           DEF Next, Round, Orderly
<1> QED
    BY <1>1, PromiseInit, StartInvariance, PTL DEF Spec, DeliversInOrder, Promise!Spec
=============================================================================
