----------------------------- MODULE MCSession -----------------------------
(***************************************************************************)
(* Instances of Session for TLC: two bonding sessions, so that messages of *)
(* the first can arrive during the second.                                 *)
(***************************************************************************)
EXTENDS Session, TLC

CONSTANTS s1, s2, ip1, ip2

OfferOf(ip, interval, retries, bypass) ==
    [ip |-> ip, interval |-> interval, retries |-> retries, bypass |-> bypass]

\* Every session has a HAAP of its own.
OwnHaap == (s1 :> OfferOf(ip1, 1, 2, 1)) @@ (s2 :> OfferOf(ip2, 2, 1, 1))
\* Both sessions are with the same HAAP, as in production.
SameHaap == (s1 :> OfferOf(ip1, 1, 2, 1)) @@ (s2 :> OfferOf(ip1, 1, 2, 1))

\* One session.
OneHaap == s1 :> OfferOf(ip1, 1, 2, 1)
\* Every session has a HAAP of its own, and a tunnel dies of a single missed
\* hello.
OwnImpatient == (s1 :> OfferOf(ip1, 1, 1, 9)) @@ (s2 :> OfferOf(ip2, 1, 1, 9))

NoFaults == {}
CreateFails == {"create"}
DestroyFails == {"destroy", "netlink"}
\* All but a removal that is refused, and all but one that is skipped.
NotRefused == {"create", "netlink"}
NotSkipped == {"create", "destroy"}
NoFilterList == {}
FilterListOne == {1}

\* The state without what is only recorded: no action reads event or heard, so
\* states that differ in nothing else have the same successors, and a property
\* that mentions neither may be checked on one of them.
Unhistoric ==
    <<pc, tunnelVars, interface_ip, haap, notifyVars, last_bypass_traffic_sent,
      deviceVars, signal, now, netVars, joined>>
=============================================================================
