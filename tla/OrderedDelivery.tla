--------------------------- MODULE OrderedDelivery ---------------------------
(***************************************************************************)
(* What the reorder buffer of gre2tun_main() promises: the packets of a    *)
(* stream that arrive in any order leave in the order of their numbers,    *)
(* each at most once.  A packet that is missing may be given up, but only  *)
(* for the sake of one that arrived and comes after it, and what arrived   *)
(* in time is never thrown away.                                           *)
(***************************************************************************)
EXTENDS Integers

CONSTANT Stream    \* the number of packets of the stream: 0 .. Stream - 1

VARIABLES
    next,          \* the number of the packet that is to leave next
    held,          \* the packets that arrived and wait for an earlier one
    out            \* the packet that left last, -1 before the first

vars == <<next, held, out>>

Init == next = 0 /\ held = {} /\ out = -1

Arrive(n) ==
    /\ n >= next
    /\ held' = held \cup {n}
    /\ UNCHANGED <<next, out>>

Deliver ==
    /\ next \in held
    /\ out' = next
    /\ next' = next + 1
    /\ held' = held \ {next}

GiveUp ==
    /\ next \notin held
    /\ \E n \in held : n > next
    /\ next' = next + 1
    /\ UNCHANGED <<held, out>>

Next == (\E n \in 0 .. Stream - 1 : Arrive(n)) \/ Deliver \/ GiveUp

Spec == Init /\ [][Next]_vars
=============================================================================
