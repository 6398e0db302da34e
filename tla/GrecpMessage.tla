---------------------------- MODULE GrecpMessage ----------------------------
(***************************************************************************)
(* One GRECP message from the attributes appended to it to those the       *)
(* handler at the other end is given.                                      *)
(*                                                                         *)
(* Every sender appends one attribute after the other to a buffer and      *)
(* sends what it has; recvfrom() takes the whole packet or as much of it   *)
(* as fits into MAX_PKT_SIZE bytes, silently; and every handler runs the   *)
(* same loop over what comes after the headers, until a read returns 0.    *)
(* The loop does not tell "nothing left" from "malformed": a message that  *)
(* was cut is taken as far as it goes.  What an attribute does to the      *)
(* session is in Session.                                                  *)
(***************************************************************************)
EXTENDS GrecpAttributes

Headers == 9                \* struct grehdr and struct grecphdr
MAX_PKT_SIZE == 1500

VARIABLES
    pc,             \* "write", "read", "done"
    message,        \* the bytes appended so far
    size,           \* how many of them have been received
    left,           \* those that the loop of the handler has yet to read
    got,            \* the attributes that the handler has been given
    \* History, read by no guard:
    sent,           \* the attributes appended
    starts          \* where in the message each of them starts, and the end

vars == <<pc, message, size, left, got, sent, starts>>

Attribute == [id : Byte, value : {v \in Seq(Byte) : Len(v) <= MaxLength}]
Encoded(a) == Append_grecpattribute(a.id, a.value)

\* The bytes after the headers of a packet with n such bytes that recvfrom()
\* stores in a buffer of MAX_PKT_SIZE.
Received(n) == IF Headers + n > MAX_PKT_SIZE THEN MAX_PKT_SIZE - Headers ELSE n

Init ==
    /\ pc = "write"
    /\ message = <<>> /\ size = 0 /\ left = <<>> /\ got = <<>>
    /\ sent = <<>> /\ starts = <<0>>

\* size += append_grecpattribute(buffer + size, ...)
Write(a) ==
    /\ pc = "write"
    /\ message' = message \o Encoded(a)
    /\ sent' = Append(sent, a)
    /\ starts' = Append(starts, Len(message'))
    /\ UNCHANGED <<pc, size, left, got>>

Receive ==
    /\ pc = "write"
    /\ pc' = "read"
    /\ size' = Received(Len(message))
    /\ left' = SubSeq(message, 1, size')
    /\ UNCHANGED <<message, got, sent, starts>>

\* One turn of the loop of a handler, for each attribute ...
Read ==
    /\ pc = "read"
    /\ BytesRead(left) > 0
    /\ got' = Append(got, [id |-> AttrId(left), value |-> AttrValue(left)])
    /\ left' = Remaining(left)
    /\ UNCHANGED <<pc, message, size, sent, starts>>

\* ... until a read returns 0.
ReadNothing ==
    /\ pc = "read"
    /\ BytesRead(left) = 0
    /\ pc' = "done"
    /\ UNCHANGED <<message, size, left, got, sent, starts>>

Next ==
    \/ \E a \in Attribute : Write(a)
    \/ Receive
    \/ Read
    \/ ReadNothing

Spec == Init /\ [][Next]_vars

-----------------------------------------------------------------------------
(* Properties *)

\* A handler is given the attributes that were appended, in their order and
\* unchanged: no cut makes the loop take the middle of one for another.
ReadAsSent ==
    /\ Len(got) <= Len(sent)
    /\ \A i \in 1 .. Len(got) : got[i] = sent[i]

\* When the loop ends, the handler has been given exactly those that were
\* received to their last byte.
WholeOnesRead ==
    pc = "done" => \A i \in 1 .. Len(sent) : i <= Len(got) <=> starts[i + 1] <= size

\* If the packet fits into the buffer, that is all of them.
AllRead == pc = "done" /\ Headers + Len(message) <= MAX_PKT_SIZE => got = sent
=============================================================================
