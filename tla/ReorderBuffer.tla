---------------------------- MODULE ReorderBuffer ----------------------------
(***************************************************************************)
(* The reorder buffer of gre2tun_main() in src/gre2tun.c, the thread that  *)
(* receives GRE packets from the HAAP over both tunnels and writes their   *)
(* payload to the tun device in the order of their sequence numbers.       *)
(*                                                                         *)
(* pc walks through one round of its loop.  A packet stands for its place  *)
(* in the stream the HAAP sends; its sequence number is that place modulo  *)
(* 2^32 (Modulus).  The network is external: it reorders, delays, loses    *)
(* and, if Duplicates, duplicates packets.                                 *)
(*                                                                         *)
(* The clock is kept as the age of every element of the buffer.  The round *)
(* reads it twice: for the timestamp of a new element and for now.  Time   *)
(* that passes elsewhere in the round is counted before the next one.      *)
(***************************************************************************)
EXTENDS Integers, Sequences

CONSTANTS
    Modulus,         \* sequence numbers are 0 .. Modulus - 1, a uint32_t
    Stream,          \* bound: the number of packets the HAAP sends
    Timeout,         \* runtime.reorder_buffer_timeout, in ticks
    Lag,             \* the ticks that may pass between the readings of a round
    Capacity,        \* bound: the length of the array
    InOrderStart,    \* is packet 0 the first to arrive?
    Duplicates       \* does the network duplicate packets?

ASSUME ReorderAssumption ==
    /\ Modulus \in Nat /\ Modulus > 1
    /\ Stream \in Nat /\ Timeout \in Nat /\ Capacity \in Nat
    /\ Lag \in Nat /\ Lag < Timeout
    /\ InOrderStart \in BOOLEAN /\ Duplicates \in BOOLEAN

VARIABLES
    pc,                  \* the next step of the round
    buffer,              \* the array reorder_buffer.packets
    scanned,             \* the element flushed last in this pass, 0 if none
    sequence_flushed,    \* the last sequence number flushed or given up
    coming,              \* external: the packets that may still arrive
    next,                \* history: sequence_flushed + 1, without the modulus
    out                  \* history: the packet written last, -1 if none

vars == <<pc, buffer, scanned, sequence_flushed, coming, next, out>>

\* An element of the array: it is live until its size is set to 0 and its
\* packet is freed.
Element(n) == [packet |-> n, age |-> 0, live |-> TRUE]

Sequence(i) == buffer[i].packet % Modulus

Successor(n) == (n + 1) % Modulus

Init ==
    /\ pc = "recv"
    /\ buffer = <<>>
    /\ scanned = 0
    /\ sequence_flushed = Modulus - 1
    /\ coming = 0 .. Stream - 1
    /\ next = 0
    /\ out = -1

\* recvfrom() timed out after 100 ms, or the packet has no sequence number and
\* is written at once.  Packets of another source or with other flags, which
\* end the round early, change nothing.
\* Mutant: a time-out ends the round.
EndRound == pc = "recv" /\ UNCHANGED vars
ReceiveNothing ==
    /\ pc = "recv" /\ pc' = "flush"
    /\ UNCHANGED <<buffer, scanned, sequence_flushed, coming, next, out>>

\* A packet with a sequence number is put at the end of the array.
Receive(n) ==
    /\ pc = "recv" /\ pc' = "now"
    /\ Len(buffer) < Capacity
    /\ InOrderStart /\ next = 0 => n = 0
    /\ buffer' = Append(buffer, Element(n))
    /\ coming' = IF Duplicates THEN coming ELSE coming \ {n}
    /\ UNCHANGED <<scanned, sequence_flushed, next, out>>

\* now = get_uptime()
ReadClock ==
    /\ pc = "now" /\ pc' = "flush"
    /\ UNCHANGED <<buffer, scanned, sequence_flushed, coming, next, out>>

\* Write the packet after the last one flushed and free it.  Whether it has been
\* freed before is not asked.  The array is scanned from its front to its end,
\* again and again until there is nothing to flush.
\* Mutant: a gap is not waited for.
AnyAhead(i) == Sequence(i) # sequence_flushed
InOrder(i) == Sequence(i) = Successor(sequence_flushed)

Distance(i) == IF i > scanned THEN i - scanned ELSE i - scanned + Len(buffer)

Flush(i) ==
    /\ pc = "flush" /\ InOrder(i)
    /\ \A j \in DOMAIN buffer : InOrder(j) => Distance(i) <= Distance(j)
    /\ scanned' = i
    /\ buffer' = [buffer EXCEPT ![i].live = FALSE]
    /\ sequence_flushed' = Successor(sequence_flushed)
    /\ next' = next + 1
    /\ out' = buffer[i].packet
    /\ UNCHANGED <<pc, coming>>

\* Mutant: the next pass over the array begins where this one ended.
FlushedOn ==
    /\ pc = "flush" /\ pc' = "expire"
    /\ \A i \in DOMAIN buffer : ~InOrder(i)
    /\ UNCHANGED <<buffer, scanned, sequence_flushed, coming, next, out>>
FlushedAll ==
    /\ pc = "flush" /\ pc' = "expire"
    /\ \A i \in DOMAIN buffer : ~InOrder(i)
    /\ scanned' = 0
    /\ UNCHANGED <<buffer, sequence_flushed, coming, next, out>>

\* If a packet has waited too long, give up the one before it and start over.
\* Mutant: the size of the element is not looked at.
ExpiredDead(i) == buffer[i].age >= Timeout
Expired(i) == buffer[i].live /\ buffer[i].age >= Timeout

GiveUp(i) ==
    /\ pc = "expire" /\ pc' = "flush"
    /\ Expired(i)
    /\ sequence_flushed' = Successor(sequence_flushed)
    /\ next' = next + 1
    /\ UNCHANGED <<buffer, scanned, coming, out>>

NoneExpired ==
    /\ pc = "expire" /\ pc' = "drop"
    /\ \A i \in DOMAIN buffer : ~Expired(i)
    /\ UNCHANGED <<buffer, scanned, sequence_flushed, coming, next, out>>

\* Free the packets that come too late, then remove the elements at the front of
\* the array that are not live.
\* Mutant: the sequence number is not looked at.
AnyLate(i) == buffer[i].live
Late(i) == buffer[i].live /\ Sequence(i) <= sequence_flushed

Remaining(i) == buffer[i].live /\ ~Late(i)

\* Mutant: elements are only removed when none is live.
AllOrNone(i) == \E j \in DOMAIN buffer : Remaining(j)
Kept(i) == \E j \in 1 .. i : Remaining(j)

\* The first k elements are removed: none of them is kept.
Freeable(k) == \A i \in DOMAIN buffer : i > k <=> Kept(i)

Drop ==
    /\ pc = "drop" /\ pc' = "recv"
    /\ \E k \in 0 .. Len(buffer) :
         /\ Freeable(k)
         /\ buffer' = [i \in 1 .. Len(buffer) - k |->
                         [buffer[i + k] EXCEPT !.live = Remaining(i + k)]]
    /\ UNCHANGED <<scanned, sequence_flushed, coming, next, out>>

Round ==
    \/ ReceiveNothing \/ ReadClock \/ FlushedAll \/ NoneExpired \/ Drop
    \/ \E i \in DOMAIN buffer : Flush(i) \/ GiveUp(i)

\* Time passes.  An age above the time-out is not told from the time-out.
Older(age) == IF age < Timeout THEN age + 1 ELSE age

Tick ==
    /\ \/ pc = "recv"
       \/ pc = "now" /\ buffer[Len(buffer)].age < Lag
    /\ buffer' = [i \in 1 .. Len(buffer) |-> [buffer[i] EXCEPT !.age = Older(@)]]
    /\ UNCHANGED <<pc, scanned, sequence_flushed, coming, next, out>>

Next == Round \/ (\E n \in coming : Receive(n)) \/ Tick

Spec == Init /\ [][Next]_vars

\* The thread runs, recvfrom() returns without a packet if none comes, and the
\* clock goes on.  No packet need ever arrive.  The fairness of Tick is strong
\* because the model counts the time of a whole round when the round is over.
FairSpec == Spec /\ WF_vars(Round) /\ SF_vars(Tick)

-----------------------------------------------------------------------------
(* Properties. *)

Elements == [packet : 0 .. Stream - 1, age : 0 .. Timeout, live : BOOLEAN]

\* Every variable has its type: in particular sequence_flushed, which starts at
\* the largest number to make 0 the first, wraps as a uint32_t, and the index of
\* the scan stays within the array when the array shrinks.
TypeOK ==
    /\ pc \in {"recv", "now", "flush", "expire", "drop"}
    /\ buffer \in Seq(Elements)
    /\ scanned \in 0 .. Len(buffer)
    /\ sequence_flushed \in 0 .. Modulus - 1
    /\ coming \subseteq 0 .. Stream - 1
    /\ next \in Nat
    /\ out \in Int

\* The packets that arrived in time and wait for an earlier one.
Held == {buffer[i].packet : i \in {j \in DOMAIN buffer :
                                     buffer[j].live /\ buffer[j].packet >= next}}

\* The array, with its elements in the order of arrival, the marks of those that
\* are flushed and numbers that are compared modulo 2^32, delivers as promised.
Promise == INSTANCE OrderedDelivery WITH held <- Held
DeliversInOrder == Promise!Spec

\* No element of the array is flushed that is flushed or dropped already: its
\* packet would be freed a second time ("mark as flushed").
FreedOnce ==
    pc = "flush" => \A i \in DOMAIN buffer : InOrder(i) => buffer[i].live

\* A packet that times out does so while waiting for the one that is given up
\* ("timed out while waiting for packet %u to arrive"), it is not one whose turn
\* is over.
GivenUpForHeld ==
    pc = "expire" => \A i \in DOMAIN buffer : Expired(i) => buffer[i].packet > next

\* Packets are written in the order of the stream, whatever is lost, delayed or
\* given up: none is written after a later one.
OutputRises == [][out' # out => out' > out]_vars

\* When a round ends no element has been in the array for as long as the
\* time-out, be it a packet that waits or one that is flushed and was kept
\* behind one that waits: the array holds what arrived within the time-out.
NothingOverdue ==
    [][pc = "drop" => \A i \in DOMAIN buffer' : buffer'[i].age < Timeout]_vars

\* A packet is dropped only if it comes after its turn ("drop packets arriving
\* after the deadline").
DroppedOnlyLate ==
    pc = "drop" => \A i \in DOMAIN buffer : Late(i) => buffer[i].packet < next

\* Every packet that is held leaves the buffer, whether or not more packets
\* arrive ("maximum time the reorder buffer will wait").
NotHeldForever == \A n \in 0 .. Stream - 1 : n \in Held ~> n \notin Held
=============================================================================
