--------------------------- MODULE SessionProofs ---------------------------
(***************************************************************************)
(* What holds of Session for every set of sessions, every setting the HAAP *)
(* or the config file may give, and every length of the run.               *)
(***************************************************************************)
EXTENDS Session, TLAPS

-----------------------------------------------------------------------------
(* Type correctness. *)

\* The settings a HAAP pushes are typed, its unicast address is not the anycast
\* address.
LEMMA OfferType ==
    ASSUME NEW s \in Sessions
    PROVE  /\ Offer[s].ip # Anycast
           /\ Offer[s].interval \in Nat \ {0}
           /\ Offer[s].retries \in Nat \ {0}
           /\ Offer[s].bypass \in Nat \ {0}
BY SessionAssumption DEF Offers

\* What the messages of the HAAP change is typed.
LEMMA ReceiveType == TypeOK /\ Receive => TypeOK'
<1> SUFFICES ASSUME TypeOK, Receive PROVE TypeOK'
    OBVIOUS
<1>1. CASE ReceiveNothing
    BY <1>1 DEF TypeOK, ReceiveNothing, Block, tunnelVars, notifyVars, deviceVars,
                netVars, history
<1>2. ASSUME NEW r \in requests, NEW s \in Sessions, HandleAccept(r, s)
      PROVE  TypeOK'
    <2>1. r.tunnel \in Tunnels
        BY DEF TypeOK, Requests
    <2>2. haap' \in Haaps
        BY <1>2, OfferType, SessionAssumption
           DEF TypeOK, HandleAccept, Haaps, Tunnels
    <2>3. /\ last_hello_sent' \in [Tunnels -> Nat]
          /\ last_hello_received' \in [Tunnels -> Nat]
          /\ heard' \in [Tunnels -> Nat]
          /\ joined' \in [Tunnels -> Sessions \cup {NoSession}]
          /\ established' \subseteq Tunnels
        BY <1>2, <2>1 DEF TypeOK, HandleAccept
    <2> QED
        BY <1>2, <2>2, <2>3 DEF TypeOK, HandleAccept, Block, notifyVars, deviceVars,
                                netVars
<1>3. ASSUME NEW h \in hellos, HandleHello(h)
      PROVE  TypeOK'
    <2>1. h.tunnel \in Tunnels /\ h.time \in Nat /\ 0 \in 0 .. MaxMissed
        BY SessionAssumption DEF TypeOK, Hellos
    <2> QED
        BY <1>3, <2>1 DEF TypeOK, HandleHello, Block, notifyVars, deviceVars, netVars
<1>4. ASSUME NEW s \in Sessions, HandleTeardown(s)
      PROVE  TypeOK'
    BY <1>4 DEF TypeOK, HandleTeardown, Block, notifyVars, deviceVars, netVars,
                history
<1>5. ASSUME NEW s \in Sessions, NEW c \in FilterLists, HandleFilterList(s, c)
      PROVE  TypeOK'
    <2>1. haap' \in Haaps
        BY <1>5, SessionAssumption DEF TypeOK, HandleFilterList, Haaps
    <2> QED
        BY <1>5, <2>1 DEF TypeOK, HandleFilterList, Block, tunnelVars, deviceVars,
                          netVars, history
<1>6. ASSUME NEW s \in Sessions, HandleVerification(s)
      PROVE  TypeOK'
    BY <1>6 DEF TypeOK, HandleVerification, Block, tunnelVars, deviceVars, netVars,
                history
<1> QED
    BY <1>1, <1>2, <1>3, <1>4, <1>5, <1>6 DEF Receive
\* The blocks of execute_timers() keep the types.
LEMMA TimersType ==
    TypeOK /\ (Connect \/ Notify \/ SendHellos \/ HelloVerdict \/ Bypass \/ ResetState)
      => TypeOK'
<1> SUFFICES ASSUME TypeOK,
                    Connect \/ Notify \/ SendHellos \/ HelloVerdict \/ Bypass
                      \/ ResetState
             PROVE  TypeOK'
    OBVIOUS
<1>1. CASE Connect
    <2>1. interface_ip' \subseteq Tunnels /\ Missing \subseteq Tunnels
        BY <1>1 DEF Connect, Get_primary_ip6, Used, Missing, Tunnels
    <2>2. requests' \subseteq Requests
        BY <1>1, <2>1 DEF TypeOK, Connect, Request, Requests, Haaps
    <2> QED
        BY <1>1, <2>1, <2>2 DEF TypeOK, Connect, Block, tunnelVars, notifyVars,
                                deviceVars, history
<1>2. CASE Notify
    <2>1. \A t : SendResults(t) \subseteq BOOLEAN
        BY DEF SendResults
    <2>2. filter_list_acked' \in BOOLEAN /\ tunnel_verification_required' \in BOOLEAN
        BY <1>2, <2>1 DEF TypeOK, Notify
    <2> QED
        BY <1>2, <2>2 DEF TypeOK, Notify, Block, tunnelVars, deviceVars, netVars,
                          history
<1>3. CASE SendHellos
    <2>1. \A t \in Tunnels : OneMore(missed_hellos[t]) \in 0 .. MaxMissed
        BY SessionAssumption DEF TypeOK, OneMore
    <2>2. /\ missed_hellos' \in [Tunnels -> 0 .. MaxMissed]
          /\ last_hello_sent' \in [Tunnels -> Nat]
        BY <1>3, <2>1 DEF TypeOK, SendHellos
    <2>3. hellos' \subseteq Hellos
        BY <1>3 DEF TypeOK, SendHellos, Hello, Hellos, Haaps
    <2> QED
        BY <1>3, <2>2, <2>3 DEF TypeOK, SendHellos, Block, notifyVars, deviceVars,
                                history
<1>4. CASE HelloVerdict
    BY <1>4 DEF TypeOK, HelloVerdict, Block, notifyVars, deviceVars, netVars, history
<1>5. CASE Bypass
    BY <1>5 DEF TypeOK, Bypass, Block, tunnelVars, notifyVars, deviceVars, netVars,
                history
<1>6. CASE ResetState
    <2>1. 0 \in 0 .. MaxMissed
        BY SessionAssumption
    <2>2. CASE SessionOver
        <3>1. haap' = [haap EXCEPT !.ip = Anycast, !.session_id = NoSession,
                                   !.bonding_key = NoSession, !.commit_count = 0]
            BY <1>6, <2>2 DEF ResetState
        <3>2. haap' \in Haaps
            BY <3>1 DEF TypeOK, Haaps
        <3> QED
            BY <1>6, <2>1, <2>2, <3>2
               DEF TypeOK, ResetState, Block, deviceVars, netVars, history
    <2>3. CASE ~SessionOver
        BY <1>6, <2>1, <2>3 DEF TypeOK, ResetState, Block, deviceVars, netVars, history
    <2> QED
        BY <2>2, <2>3
<1> QED
    BY <1>1, <1>2, <1>3, <1>4, <1>5, <1>6

\* So do the handling of the device and of a signal, and all that happens outside
\* the loop.
LEMMA OtherType ==
    TypeOK /\ (\/ ManageDevice \/ Shutdown \/ NextPass \/ HandleSignal \/ Tick
              \/ UNCHANGED vars)
      => TypeOK'
<1> SUFFICES ASSUME TypeOK,
                    \/ ManageDevice \/ Shutdown \/ NextPass \/ HandleSignal
                    \/ Tick \/ UNCHANGED vars
             PROVE  TypeOK'
    OBVIOUS
<1>1. DeviceOf(haap) \in Devices /\ NoDevice \in Devices /\ device \in Devices
    BY DEF TypeOK, Haaps, DeviceOf, NoDevice, Device, Devices
<1>3. CASE ManageDevice
    BY <1>1, <1>3 DEF TypeOK, ManageDevice, CreateDevice, DestroyDevice, ReturnedTrue,
                      tunnelVars, notifyVars, netVars, deviceVars, history
<1>4. CASE Shutdown
    BY <1>1, <1>4 DEF TypeOK, Shutdown, DestroyDevice, tunnelVars, notifyVars,
                      netVars, history
<1>5. CASE NextPass
    BY <1>5 DEF TypeOK, NextPass, Block, tunnelVars, notifyVars, deviceVars, netVars,
                history
<1>6. CASE HandleSignal
    BY <1>6 DEF TypeOK, HandleSignal, tunnelVars, notifyVars, deviceVars, netVars,
                history
<1>7. CASE Tick
    BY <1>7 DEF TypeOK, Tick, tunnelVars, notifyVars, deviceVars, netVars, history
<1>8. CASE UNCHANGED vars
    BY <1>8 DEF TypeOK, vars, tunnelVars, notifyVars, deviceVars, netVars, history
<1> QED
    BY <1>3, <1>4, <1>5, <1>6, <1>7, <1>8

LEMMA InitType == Init => TypeOK
<1> SUFFICES ASSUME Init PROVE TypeOK
    OBVIOUS
<1>1. haap \in Haaps
    BY SessionAssumption DEF Init, NoHaap, Haaps
<1>2. device \in Devices
    BY DEF Init, NoDevice, Device, Devices
<1>3. 0 \in 0 .. MaxMissed
    BY SessionAssumption
<1> QED
    BY <1>1, <1>2, <1>3 DEF Init, TypeOK

LEMMA NextType == TypeOK /\ [Next]_vars => TypeOK'
BY ReceiveType, TimersType, OtherType DEF Next, Loop, Exited

\* Every variable keeps its type, whatever the HAAP sends: missed_hellos stays
\* within its eight bits.
THEOREM TypeCorrect == Spec => []TypeOK
BY InitType, NextType, PTL DEF Spec
-----------------------------------------------------------------------------
(* The session.                                                             *)
(*                                                                          *)
(* SessionIffUp speaks of one block of the loop.  What carries it there: id *)
(* and key of the session come and go together with the unicast address,    *)
(* a tunnel is only up in a session, and from ResetState on no session      *)
(* outlives the last tunnel.  The requests in flight say whether they were  *)
(* sent with a session, which decides what their accepts may bring.         *)

SessionInv ==
    /\ JoinNamesSession
    /\ haap.session_id = haap.bonding_key
    /\ (haap.session_id = NoSession) <=> (haap.ip = Anycast)
    /\ established # {} => haap.session_id # NoSession
    /\ pc \in {"device", "signal", "recv"} /\ established = {} =>
         /\ haap.session_id = NoSession
         /\ haap.commit_count = 0 /\ ~filter_list_acked

LEMMA SessionInvImplies == SessionInv => SessionIffUp /\ JoinNamesSession
BY DEF SessionInv, SessionIffUp

LEMMA SessionInvInit == Init => SessionInv
BY DEF Init, SessionInv, JoinNamesSession, NoHaap

\* An accept that changes the session answers a request without one, which it
\* gets past the check of its source only while there is no session.
LEMMA AcceptKeepsSession ==
    ASSUME TypeOK, SessionInv, NEW r \in requests, NEW s \in Sessions,
           HandleAccept(r, s)
    PROVE  SessionInv' /\ SessionKept
<1>1. r.to = haap.ip /\ ((r.session_id = NoSession) <=> (r.to = Anycast))
    <2>1. FromHaap(r.to) /\ JoinNamesSession
        BY DEF HandleAccept, SessionInv
    <2> QED
        BY <2>1 DEF FromHaap, JoinNamesSession
<1>2. established' # {} /\ pc' = "connect" /\ requests' = requests
    <2>1. established' = established \cup {r.tunnel}
        BY DEF HandleAccept
    <2> QED
        BY <2>1 DEF HandleAccept, Block, netVars
<1>3. CASE r.session_id = NoSession
    <2>1. /\ haap'.ip = Offer[s].ip
          /\ haap'.session_id = s
          /\ haap'.bonding_key = s
        BY <1>3 DEF HandleAccept, TypeOK, Haaps
    <2>2. s # NoSession /\ Offer[s].ip # Anycast
        BY SessionAssumption
    <2> QED
        BY <1>1, <1>2, <1>3, <2>1, <2>2 DEF SessionInv, JoinNamesSession, SessionKept
<1>4. CASE r.session_id # NoSession
    <2>1. /\ haap'.ip = haap.ip
          /\ haap'.session_id = haap.session_id
          /\ haap'.bonding_key = haap.bonding_key
        BY <1>4 DEF HandleAccept, TypeOK, Haaps
    <2> QED
        BY <1>1, <1>2, <1>4, <2>1 DEF SessionInv, JoinNamesSession, SessionKept
<1> QED
    BY <1>3, <1>4

LEMMA ReceiveKeepsSession ==
    ASSUME TypeOK, SessionInv, Receive
    PROVE  SessionInv' /\ SessionKept
<1>1. CASE ReceiveNothing
    BY <1>1 DEF SessionInv, JoinNamesSession, SessionKept, ReceiveNothing, Block,
                tunnelVars, notifyVars, netVars
<1>2. ASSUME NEW r \in requests, NEW s \in Sessions, HandleAccept(r, s)
      PROVE  SessionInv' /\ SessionKept
    BY <1>2, AcceptKeepsSession
<1>3. ASSUME NEW h \in hellos, HandleHello(h)
      PROVE  SessionInv' /\ SessionKept
    BY <1>3 DEF SessionInv, JoinNamesSession, SessionKept, HandleHello, Block,
                notifyVars, netVars
<1>4. ASSUME NEW s \in Sessions, HandleTeardown(s)
      PROVE  SessionInv' /\ SessionKept
    BY <1>4 DEF SessionInv, JoinNamesSession, SessionKept, HandleTeardown, Block,
                notifyVars, netVars
<1>5. ASSUME NEW s \in Sessions, NEW c \in FilterLists, HandleFilterList(s, c)
      PROVE  SessionInv' /\ SessionKept
    <2>1. /\ haap'.ip = haap.ip
          /\ haap'.session_id = haap.session_id
          /\ haap'.bonding_key = haap.bonding_key
        BY <1>5 DEF HandleFilterList, TypeOK, Haaps
    <2> QED
        BY <1>5, <2>1 DEF SessionInv, JoinNamesSession, SessionKept, HandleFilterList,
                          Block, tunnelVars, netVars
<1>6. ASSUME NEW s \in Sessions, HandleVerification(s)
      PROVE  SessionInv' /\ SessionKept
    BY <1>6 DEF SessionInv, JoinNamesSession, SessionKept, HandleVerification, Block,
                tunnelVars, netVars
<1> QED
    BY <1>1, <1>2, <1>3, <1>4, <1>5, <1>6 DEF Receive

\* A request names the session there is; DSL is asked for only when LTE is up.
LEMMA ConnectKeepsSession ==
    ASSUME TypeOK, SessionInv, Connect
    PROVE  SessionInv' /\ SessionKept
<1>1. established' = established /\ haap' = haap /\ pc' = "notify"
    BY DEF Connect, Block, tunnelVars
<1>2. ASSUME NEW r \in requests'
      PROVE  /\ (r.session_id = NoSession) <=> (r.to = Anycast)
             /\ r.tunnel = DSL => r.session_id # NoSession
    <2>1. CASE r \in requests
        <3>1. JoinNamesSession
            BY DEF SessionInv
        <3> QED
            BY <2>1, <3>1 DEF JoinNamesSession
    <2>2. CASE r \notin requests
        <3>1. PICK t \in Missing : r = [tunnel |-> t, session_id |-> haap.session_id,
                                       to |-> haap.ip]
            <4>1. PICK accepted \in SUBSET {t \in Missing \cap interface_ip' : SessionOpen} :
                    requests' = requests \cup {Request(t) : t \in accepted}
                BY DEF Connect
            <4> QED
                BY <1>2, <2>2, <4>1 DEF Request
        <3>2. t = DSL => established # {}
            BY DEF Missing, LTE, DSL
        <3> QED
            BY <3>1, <3>2 DEF SessionInv
    <2> QED
        BY <2>1, <2>2
<1> QED
    BY <1>1, <1>2 DEF SessionInv, JoinNamesSession, SessionKept

LEMMA OthersKeepSession ==
    ASSUME TypeOK, SessionInv,
           \/ Notify \/ SendHellos \/ HelloVerdict \/ Bypass \/ ResetState
           \/ ManageDevice \/ Shutdown \/ NextPass \/ HandleSignal \/ Tick
           \/ UNCHANGED vars
    PROVE  SessionInv' /\ SessionKept
<1> USE DEF SessionInv, JoinNamesSession, SessionKept
<1>1. CASE Notify
    BY <1>1 DEF Notify, Block, tunnelVars, netVars
<1>2. CASE SendHellos
    BY <1>2 DEF SendHellos, Block, notifyVars
<1>3. CASE HelloVerdict
    BY <1>3 DEF HelloVerdict, Block, notifyVars, netVars
<1>4. CASE Bypass
    BY <1>4 DEF Bypass, Block, tunnelVars, notifyVars, netVars
<1>5. CASE ResetState
    <2>1. established' = established /\ requests' = requests /\ pc' = "device"
        BY <1>5 DEF ResetState, Block, netVars
    <2>2. CASE SessionOver
        <3>1. /\ haap' = [haap EXCEPT !.ip = Anycast, !.session_id = NoSession,
                                      !.bonding_key = NoSession, !.commit_count = 0]
              /\ ~filter_list_acked'
            BY <1>5, <2>2 DEF ResetState
        <3>2. /\ haap'.ip = Anycast
              /\ haap'.session_id = NoSession
              /\ haap'.bonding_key = NoSession
              /\ haap'.commit_count = 0
            BY <3>1 DEF TypeOK, Haaps
        <3> QED
            BY <2>1, <2>2, <3>1, <3>2 DEF SessionOver
    <2>3. CASE ~SessionOver
        <3>1. haap' = haap /\ established # {}
            BY <1>5, <2>3 DEF ResetState, SessionOver
        <3> QED
            BY <2>1, <3>1
    <2> QED
        BY <2>2, <2>3
<1>6. CASE ManageDevice
    BY <1>6 DEF ManageDevice, tunnelVars, notifyVars, netVars
<1>7. CASE Shutdown
    BY <1>7 DEF Shutdown, tunnelVars, notifyVars, netVars
<1>8. CASE NextPass
    BY <1>8 DEF NextPass, Block, tunnelVars, notifyVars, netVars
<1>9. CASE HandleSignal
    BY <1>9 DEF HandleSignal, tunnelVars, notifyVars, netVars
<1>10. CASE Tick
    BY <1>10 DEF Tick, tunnelVars, notifyVars, netVars
<1>11. CASE UNCHANGED vars
    BY <1>11 DEF vars, tunnelVars, notifyVars, netVars
<1> QED
    BY <1>1, <1>2, <1>3, <1>4, <1>5, <1>6, <1>7, <1>8, <1>9, <1>10, <1>11

LEMMA SessionInvNext ==
    TypeOK /\ SessionInv /\ [Next]_vars => SessionInv' /\ SessionKept
BY ReceiveKeepsSession, ConnectKeepsSession, OthersKeepSession
   DEF Next, Loop, Exited

LEMMA SessionSafe == Spec => [](TypeOK /\ SessionInv)
<1>1. Init => TypeOK /\ SessionInv
    BY InitType, SessionInvInit
<1>2. TypeOK /\ SessionInv /\ [Next]_vars => (TypeOK /\ SessionInv)'
    BY NextType, SessionInvNext
<1> QED
    BY <1>1, <1>2, PTL DEF Spec

\* A client waiting for messages knows a session exactly if a tunnel is up: for
\* any number of sessions and any late, lost or repeated message.
THEOREM SessionSafety == Spec => []SessionIffUp
BY SessionSafe, SessionInvImplies, PTL

\* A client never asks for a second tunnel outside the session it has, nor for a
\* session anywhere but at the anycast address.
THEOREM JoinsAreSafe == Spec => []JoinNamesSession
BY SessionSafe, SessionInvImplies, PTL

\* No step exchanges the session under a tunnel that is up.
THEOREM SessionNeverExchanged == Spec => SessionStable
<1>1. Init => TypeOK /\ SessionInv
    BY InitType, SessionInvInit
<1>2. TypeOK /\ SessionInv /\ [Next]_vars => (TypeOK /\ SessionInv)' /\ [SessionKept]_vars
    BY NextType, SessionInvNext
<1> QED
    BY <1>1, <1>2, PTL DEF Spec, SessionStable

-----------------------------------------------------------------------------
(* One session for all tunnels.                                             *)
(*                                                                          *)
(* The accept of a request with a session id is told from one of another    *)
(* session only by its source address: the tunnels share their session if   *)
(* no two sessions share a unicast address, and TLC finds the behaviour     *)
(* where they do not otherwise.                                             *)

OwnAddress == \A s, u \in Sessions : Offer[s].ip = Offer[u].ip => s = u

ShareInv ==
    /\ TunnelsShareSession
    /\ haap.session_id # NoSession =>
         haap.session_id \in Sessions /\ haap.ip = Offer[haap.session_id].ip
    /\ \A r \in requests : r.session_id # NoSession =>
         r.session_id \in Sessions /\ r.to = Offer[r.session_id].ip

LEMMA AcceptKeepsShare ==
    ASSUME OwnAddress, TypeOK, SessionInv, ShareInv,
           NEW r \in requests, NEW s \in Sessions, HandleAccept(r, s)
    PROVE  ShareInv'
<1>1. /\ r.to = haap.ip
      /\ r.session_id # NoSession => s = r.session_id
      /\ established' = established \cup {r.tunnel}
      /\ joined' = [joined EXCEPT ![r.tunnel] = s]
      /\ requests' = requests
    BY DEF HandleAccept, FromHaap, netVars
<1>2. (r.session_id = NoSession) <=> (r.to = Anycast)
    BY DEF SessionInv, JoinNamesSession
<1>3. r.tunnel \in Tunnels
    BY DEF TypeOK, Requests
<1>4. CASE r.session_id = NoSession
    <2>1. /\ haap'.ip = Offer[s].ip
          /\ haap'.session_id = s
          /\ haap'.bonding_key = s
        BY <1>4 DEF HandleAccept, TypeOK, Haaps
    <2>2. established = {}
        BY <1>1, <1>2, <1>4 DEF SessionInv
    <2> QED
        BY <1>1, <1>3, <2>1, <2>2 DEF ShareInv, TunnelsShareSession, TypeOK
<1>5. CASE r.session_id # NoSession
    <2>1. /\ haap'.ip = haap.ip
          /\ haap'.session_id = haap.session_id
          /\ haap'.bonding_key = haap.bonding_key
        BY <1>5 DEF HandleAccept, TypeOK, Haaps
    <2>2. haap.session_id \in Sessions /\ haap.ip = Offer[haap.session_id].ip
        BY <1>1, <1>2, <1>5 DEF SessionInv, ShareInv
    <2>3. s = haap.bonding_key
        BY <1>1, <1>5, <2>2 DEF OwnAddress, SessionInv, ShareInv
    <2> QED
        BY <1>1, <1>3, <2>1, <2>2, <2>3 DEF ShareInv, TunnelsShareSession, TypeOK
<1> QED
    BY <1>4, <1>5

LEMMA ShareInvNext ==
    ASSUME OwnAddress, TypeOK, SessionInv, ShareInv, [Next]_vars
    PROVE  ShareInv'
<1> USE DEF ShareInv, TunnelsShareSession
<1>1. ASSUME NEW r \in requests, NEW s \in Sessions, HandleAccept(r, s)
      PROVE  ShareInv'
    BY <1>1, AcceptKeepsShare
<1>2. ASSUME NEW s \in Sessions, NEW c \in FilterLists, HandleFilterList(s, c)
      PROVE  ShareInv'
    <2>1. /\ haap'.ip = haap.ip
          /\ haap'.session_id = haap.session_id
          /\ haap'.bonding_key = haap.bonding_key
        BY <1>2 DEF HandleFilterList, TypeOK, Haaps
    <2> QED
        BY <1>2, <2>1 DEF HandleFilterList, tunnelVars, netVars, history
<1>3. CASE Connect
    <2>1. established' = established /\ haap' = haap /\ joined' = joined
        BY <1>3 DEF Connect, tunnelVars, history
    <2>2. ASSUME NEW r \in requests', r \notin requests
          PROVE  r.session_id = haap.session_id /\ r.to = haap.ip
        <3>1. PICK accepted \in SUBSET {t \in Missing \cap interface_ip' : SessionOpen} :
                requests' = requests \cup {Request(t) : t \in accepted}
            BY <1>3 DEF Connect
        <3> QED
            BY <2>2, <3>1 DEF Request
    <2> QED
        BY <2>1, <2>2
<1>4. CASE ResetState
    <2>1. established' = established /\ requests' = requests /\ joined' = joined
        BY <1>4 DEF ResetState, netVars, history
    <2>2. CASE SessionOver
        <3>1. haap' = [haap EXCEPT !.ip = Anycast, !.session_id = NoSession,
                                   !.bonding_key = NoSession, !.commit_count = 0]
            BY <1>4, <2>2 DEF ResetState
        <3>2. haap'.session_id = NoSession /\ established = {}
            BY <2>2, <3>1 DEF TypeOK, Haaps, SessionOver
        <3> QED
            BY <2>1, <3>2
    <2>3. CASE ~SessionOver
        BY <1>4, <2>1, <2>3 DEF ResetState
    <2> QED
        BY <2>2, <2>3
<1>5. CASE HelloVerdict
    BY <1>5 DEF HelloVerdict, netVars, history
<1>6. CASE \E s \in Sessions : HandleTeardown(s)
    BY <1>6 DEF HandleTeardown, netVars, history
<1>7. CASE \/ ReceiveNothing \/ \E h \in hellos : HandleHello(h)
           \/ \E s \in Sessions : HandleVerification(s)
    BY <1>7 DEF ReceiveNothing, HandleHello, HandleVerification, tunnelVars, netVars,
                history
<1>8. CASE Notify \/ SendHellos \/ Bypass
    BY <1>8 DEF Notify, SendHellos, Bypass, tunnelVars, netVars, history
<1>9. CASE \/ ManageDevice \/ Shutdown \/ NextPass \/ HandleSignal \/ Tick
           \/ UNCHANGED vars
    BY <1>9 DEF ManageDevice, Shutdown, NextPass, HandleSignal, Tick, vars,
                tunnelVars, netVars, history
<1> QED
    BY <1>1, <1>2, <1>3, <1>4, <1>5, <1>6, <1>7, <1>8, <1>9
       DEF Next, Loop, Receive, Exited

\* No accept in flight brings a tunnel of one session up in another, provided
\* that each session has a HAAP address of its own.
THEOREM OneSessionForAll ==
    ASSUME OwnAddress
    PROVE  Spec => []TunnelsShareSession
<1>1. Init => TypeOK /\ SessionInv /\ ShareInv
    <2>1. Init => ShareInv
        BY DEF Init, ShareInv, TunnelsShareSession, NoHaap
    <2> QED
        BY <2>1, InitType, SessionInvInit
<1>2. TypeOK /\ SessionInv /\ ShareInv /\ [Next]_vars
        => (TypeOK /\ SessionInv /\ ShareInv)'
    BY NextType, SessionInvNext, ShareInvNext
<1>3. ShareInv => TunnelsShareSession
    BY DEF ShareInv
<1> QED
    BY <1>1, <1>2, <1>3, PTL DEF Spec

-----------------------------------------------------------------------------
(* The tunnel device.                                                       *)
(*                                                                          *)
(* Only two blocks touch it.  If no removal is skipped, what the client     *)
(* does not know of does not exist; without bonding, what it takes to exist *)
(* does; and if no removal is refused either, what exists for the client is *)
(* a device it made for the session it has.                                 *)

LEMMA DeviceSteps ==
    ASSUME [Next]_vars
    PROVE  \/ ManageDevice \/ Shutdown
           \/ UNCHANGED vars
           \/ /\ UNCHANGED <<tunnel_interface_created, device>>
              /\ event' = "none"
              /\ pc # "exited"
<1>1. CASE Receive
    BY <1>1 DEF Receive, ReceiveNothing, HandleAccept, HandleHello, HandleTeardown,
                HandleFilterList, HandleVerification, Block, deviceVars
<1>2. CASE \/ Connect \/ Notify \/ SendHellos \/ HelloVerdict \/ Bypass \/ ResetState
           \/ NextPass
    BY <1>2 DEF Connect, Notify, SendHellos, HelloVerdict, Bypass, ResetState,
                NextPass, Block, deviceVars
<1>3. CASE HandleSignal \/ Tick
    BY <1>3 DEF HandleSignal, Tick, deviceVars
<1> QED
    BY <1>1, <1>2, <1>3 DEF Next, Loop, Exited

\* If no removal is skipped, no device exists that the client does not know of:
\* with and without bonding, whatever else fails.
THEOREM NoDeviceUnknown ==
    ASSUME Bonding \/ "netlink" \notin DeviceFaults
    PROVE  Spec => []NoDeviceLeft
<1>1. Init => NoDeviceLeft
    BY DEF Init, NoDeviceLeft
<1>2. NoDeviceLeft /\ [Next]_vars => NoDeviceLeft'
    <2> SUFFICES ASSUME NoDeviceLeft, [Next]_vars PROVE NoDeviceLeft'
        OBVIOUS
    <2> USE DEF NoDeviceLeft
    <2>1. CASE ManageDevice
        <3>1. CASE FirstUp
            BY <2>1, <3>1 DEF ManageDevice, FirstUp, LastDown, CreateDevice
        <3>2. CASE LastDown
            <4>1. PICK outcome \in Outcomes :
                    /\ DestroyDevice(outcome)
                    /\ tunnel_interface_created' = ~ReturnedTrue(outcome)
                BY <2>1, <3>2 DEF ManageDevice, FirstUp, LastDown
            <4>2. outcome # "netlink"
                BY DEF Outcomes
            <4>3. ReturnedTrue(outcome) => outcome = "done"
                BY <4>2 DEF ReturnedTrue, Outcomes
            <4> QED
                BY <4>1, <4>3 DEF DestroyDevice
        <3> QED
            BY <2>1, <3>1, <3>2 DEF ManageDevice, deviceVars
    <2>2. CASE Shutdown
        BY <2>2 DEF Shutdown
    <2>3. CASE UNCHANGED vars
        BY <2>3 DEF vars, deviceVars
    <2> QED
        BY <2>1, <2>2, <2>3, DeviceSteps
<1> QED
    BY <1>1, <1>2, PTL DEF Spec

LEMMA KnownNext ==
    ASSUME ~Bonding, KnownDeviceExists, [Next]_vars
    PROVE  KnownDeviceExists'
<1> USE DEF KnownDeviceExists
<1>1. CASE ManageDevice
    <2>1. pc = "device"
        BY <1>1 DEF ManageDevice
    <2>2. CASE FirstUp
        <3>1. DeviceOf(haap) # NoDevice
            BY DEF DeviceOf, NoDevice, Device
        <3>2. tunnel_interface_created' => device' = DeviceOf(haap)
            BY <1>1, <2>2 DEF ManageDevice, FirstUp, LastDown, CreateDevice
        <3> QED
            BY <3>1, <3>2
    <2>3. CASE LastDown
        <3>1. PICK outcome \in Outcomes :
                /\ DestroyDevice(outcome)
                /\ tunnel_interface_created' = ~ReturnedTrue(outcome)
            BY <1>1, <2>3 DEF ManageDevice, FirstUp, LastDown
        <3>2. tunnel_interface_created' => outcome # "done"
            BY <3>1 DEF ReturnedTrue
        <3> QED
            BY <2>1, <2>3, <3>1, <3>2 DEF DestroyDevice, LastDown
    <2> QED
        BY <1>1, <2>1, <2>2, <2>3 DEF ManageDevice, deviceVars
<1>2. CASE Shutdown
    BY <1>2 DEF Shutdown
<1>3. CASE UNCHANGED vars
    BY <1>3 DEF vars, deviceVars
<1> QED
    BY <1>1, <1>2, <1>3, DeviceSteps

\* Without bonding a device that the client takes to exist does exist, whatever
\* fails and however often, until the program removes it and exits.
THEOREM KnownIsThere ==
    ASSUME ~Bonding
    PROVE  Spec => []KnownDeviceExists
<1>1. Init => KnownDeviceExists
    BY DEF Init, KnownDeviceExists
<1> QED
    BY <1>1, KnownNext, PTL DEF Spec

\* It outlives the session only from ResetState to ManageDevice.
DeviceInv ==
    /\ /\ tunnel_interface_created
       /\ haap.session_id # NoSession
       /\ pc # "exited"
       => device = Device("gre", haap.bonding_key, haap.ip)
    /\ tunnel_interface_created /\ pc \in {"recv", "signal"} => established # {}

LEMMA DeviceInvNext ==
    ASSUME ~Bonding, "destroy" \notin DeviceFaults,
           TypeOK, SessionInv, SessionInv', KnownDeviceExists, DeviceInv, [Next]_vars
    PROVE  DeviceInv'
<1> USE DEF DeviceInv
<1>1. ASSUME NEW r \in requests, NEW s \in Sessions, HandleAccept(r, s)
      PROVE  DeviceInv'
    <2>1. /\ UNCHANGED <<tunnel_interface_created, device>>
          /\ pc = "recv" /\ pc' = "connect"
        BY <1>1 DEF HandleAccept, Block, deviceVars
    <2>2. CASE tunnel_interface_created
        <3>1. SessionKept /\ established # {}
            BY <1>1, <2>1, <2>2, AcceptKeepsSession
        <3>2. established' # {}
            BY <1>1, <3>1 DEF HandleAccept
        <3> QED
            BY <2>1, <2>2, <3>1, <3>2 DEF SessionKept
    <2>3. CASE ~tunnel_interface_created
        BY <2>1, <2>3
    <2> QED
        BY <2>2, <2>3
<1>2. ASSUME NEW s \in Sessions, NEW c \in FilterLists, HandleFilterList(s, c)
      PROVE  DeviceInv'
    <2>1. /\ haap'.ip = haap.ip
          /\ haap'.session_id = haap.session_id
          /\ haap'.bonding_key = haap.bonding_key
        BY <1>2 DEF HandleFilterList, TypeOK, Haaps
    <2> QED
        BY <1>2, <2>1 DEF HandleFilterList, Block, tunnelVars, deviceVars
<1>3. CASE \E s \in Sessions : HandleTeardown(s)
    BY <1>3 DEF HandleTeardown, Block, deviceVars
<1>4. CASE \/ ReceiveNothing \/ \E h \in hellos : HandleHello(h)
           \/ \E s \in Sessions : HandleVerification(s)
    BY <1>4 DEF ReceiveNothing, HandleHello, HandleVerification, Block, tunnelVars,
                deviceVars
<1>5. CASE Connect \/ Notify \/ SendHellos \/ Bypass
    BY <1>5 DEF Connect, Notify, SendHellos, Bypass, Block, tunnelVars, deviceVars
<1>6. CASE HelloVerdict
    BY <1>6 DEF HelloVerdict, Block, deviceVars
<1>7. CASE ResetState
    <2>1. /\ UNCHANGED <<tunnel_interface_created, device>>
          /\ pc = "reset" /\ pc' = "device"
        BY <1>7 DEF ResetState, Block, deviceVars
    <2>2. CASE SessionOver
        <3>1. haap' = [haap EXCEPT !.ip = Anycast, !.session_id = NoSession,
                                   !.bonding_key = NoSession, !.commit_count = 0]
            BY <1>7, <2>2 DEF ResetState
        <3>2. haap'.session_id = NoSession
            BY <3>1 DEF TypeOK, Haaps
        <3> QED
            BY <2>1, <3>2
    <2>3. CASE ~SessionOver
        BY <1>7, <2>1, <2>3 DEF ResetState
    <2> QED
        BY <2>2, <2>3
<1>8. CASE ManageDevice
    <2>1. established' = established /\ haap' = haap /\ pc' = "signal"
        BY <1>8 DEF ManageDevice, tunnelVars
    <2>2. CASE FirstUp
        BY <1>8, <2>1, <2>2
           DEF ManageDevice, FirstUp, LastDown, CreateDevice, DeviceOf, NoDevice,
               Device
    <2>3. CASE LastDown
        <3>1. \A outcome \in Outcomes : outcome # "destroy"
            BY <1>8, <2>3 DEF ManageDevice, LastDown, KnownDeviceExists, Outcomes
        <3>2. tunnel_interface_created' = FALSE
            BY <1>8, <2>3, <3>1 DEF ManageDevice, FirstUp, LastDown, ReturnedTrue
        <3> QED
            BY <2>1, <3>2
    <2>4. CASE ~FirstUp /\ ~LastDown
        BY <1>8, <2>1, <2>4 DEF ManageDevice, FirstUp, LastDown, deviceVars
    <2> QED
        BY <2>2, <2>3, <2>4
<1>9. CASE Shutdown
    BY <1>9 DEF Shutdown, DestroyDevice, tunnelVars
<1>10. CASE NextPass \/ HandleSignal \/ Tick \/ UNCHANGED vars
    BY <1>10 DEF NextPass, HandleSignal, Tick, Block, vars, tunnelVars, deviceVars
<1> QED
    BY <1>1, <1>2, <1>3, <1>4, <1>5, <1>6, <1>7, <1>8, <1>9, <1>10
       DEF Next, Loop, Receive, Exited

LEMMA DeviceSafe ==
    ASSUME ~Bonding, "destroy" \notin DeviceFaults
    PROVE  Spec => [](TypeOK /\ SessionInv /\ KnownDeviceExists /\ DeviceInv)
<1>1. Init => TypeOK /\ SessionInv /\ KnownDeviceExists /\ DeviceInv
    <2>1. Init => KnownDeviceExists /\ DeviceInv
        BY DEF Init, KnownDeviceExists, DeviceInv
    <2> QED
        BY <2>1, InitType, SessionInvInit
<1>2. TypeOK /\ SessionInv /\ KnownDeviceExists /\ DeviceInv /\ [Next]_vars
        => (TypeOK /\ SessionInv /\ KnownDeviceExists /\ DeviceInv)'
    BY NextType, SessionInvNext, KnownNext, DeviceInvNext
<1> QED
    BY <1>1, <1>2, PTL DEF Spec

\* If the kernel refuses no removal, the GRE device that the client takes to
\* exist carries, between two passes, the key and the remote address of the
\* session, and does not outlive its last tunnel, however often it could not be
\* made and even if a removal was skipped.
THEOREM DeviceFollowsSession ==
    ASSUME ~Bonding, "destroy" \notin DeviceFaults
    PROVE  Spec => []DeviceCarriesSession
<1>1. SessionInv /\ DeviceInv => DeviceCarriesSession
    BY DEF SessionInv, DeviceInv, DeviceCarriesSession, DeviceOf
<1> QED
    BY <1>1, DeviceSafe, PTL

-----------------------------------------------------------------------------
(* Termination.                                                             *)
(*                                                                          *)
(* Every block leads to the one after it, and from the last one the loop    *)
(* starts over only if no signal is pending.  Nothing takes a signal back.  *)

\* Once a signal is pending the loop walks on to the exit and never starts another
\* pass: with a loop that keeps running it exits after ten steps at most.
THEOREM SignalEndsPass == Spec => ExitsThisPass
<1>1. TypeOK /\ [Next]_vars => [signal => signal' /\ Forward]_vars
    <2> SUFFICES ASSUME TypeOK, Next, signal
                 PROVE  signal' /\ Forward
        BY DEF vars
    <2>1. DOMAIN Order = 1 .. 10
        BY DEF Order
    <2>2. ASSUME pc' = pc PROVE Forward
        BY <2>1, <2>2 DEF Order, Forward, TypeOK
    <2>3. ASSUME NEW i \in 1 .. 9, pc = Order[i], pc' = Order[i + 1] PROVE Forward
        BY <2>1, <2>3 DEF Forward
    <2>4. CASE Receive
        <3>1. pc = Order[1] /\ pc' = Order[2] /\ signal' = signal
            BY <2>4 DEF Receive, ReceiveNothing, HandleAccept, HandleHello,
                        HandleTeardown, HandleFilterList, HandleVerification, Block,
                        Order
        <3> QED
            BY <2>3, <3>1
    <2>5. CASE Connect
        BY <2>3, <2>5 DEF Connect, Block, Order
    <2>6. CASE Notify
        BY <2>3, <2>6 DEF Notify, Block, Order
    <2>7. CASE SendHellos
        BY <2>3, <2>7 DEF SendHellos, Block, Order
    <2>8. CASE HelloVerdict
        BY <2>3, <2>8 DEF HelloVerdict, Block, Order
    <2>9. CASE Bypass
        BY <2>3, <2>9 DEF Bypass, Block, Order
    <2>10. CASE ResetState
        BY <2>3, <2>10 DEF ResetState, Block, Order
    <2>11. CASE ManageDevice
        BY <2>3, <2>11 DEF ManageDevice, Order
    <2>12. CASE Shutdown
        BY <2>3, <2>12 DEF Shutdown, Order
    <2>13. CASE NextPass
        BY <2>13 DEF NextPass, MustExit
    <2>14. CASE HandleSignal \/ Tick \/ Exited
        BY <2>2, <2>14 DEF HandleSignal, Tick, Exited, vars
    <2> QED
        BY <2>4, <2>5, <2>6, <2>7, <2>8, <2>9, <2>10, <2>11, <2>12, <2>13, <2>14
           DEF Next, Loop
<1> QED
    BY <1>1, TypeCorrect, PTL DEF Spec, ExitsThisPass

-----------------------------------------------------------------------------
(* Dead tunnels.                                                            *)
(*                                                                          *)
(* Hellos are counted only once the device exists: a tunnel accepted in the *)
(* current pass has its last hello answered.  So a count that is not zero   *)
(* will be reset when its tunnel is down, and a tunnel starts with a count  *)
(* of zero.  From there each missed hello stands for an interval, and one   *)
(* second, since something was heard.                                       *)

Silent(t) ==
    last_hello_sent[t] - heard[t] >=
      (missed_hellos[t] - 1) * (haap.active_hello_interval + 1)

CountInv ==
    /\ \A t \in Tunnels : last_hello_sent[t] <= now /\ heard[t] <= now
    /\ established # {} =>
         haap.active_hello_interval # 0 /\ haap.hello_retry_times # 0
    /\ \A t \in Tunnels : missed_hellos[t] # 0 => tunnel_interface_created
    /\ pc \in {"device", "signal", "recv"} =>
         \A t \in Tunnels \ established : missed_hellos[t] = 0
    /\ pc \in {"signal", "recv"} /\ established # {} => tunnel_interface_created
    /\ pc \in {"connect", "notify", "hello"} /\ ~tunnel_interface_created =>
         \A t \in established : Answered(t)
    /\ \A t \in established : missed_hellos[t] # 0 => Silent(t)

LEMMA CountInvInit == Init => CountInv
BY DEF Init, CountInv

LEMMA AcceptKeepsCount ==
    ASSUME TypeOK, CountInv,
           NEW r \in requests, NEW s \in Sessions, HandleAccept(r, s)
    PROVE  CountInv'
<1> DEFINE t == r.tunnel
<1>1. /\ pc = "recv" /\ pc' = "connect"
      /\ established' = established \cup {t}
      /\ last_hello_sent' = [last_hello_sent EXCEPT ![t] = now]
      /\ last_hello_received' = [last_hello_received EXCEPT ![t] = now]
      /\ heard' = IF t \in established THEN heard ELSE [heard EXCEPT ![t] = now]
      /\ UNCHANGED <<missed_hellos, tunnel_interface_created, now>>
    BY DEF HandleAccept, Block, deviceVars
<1>2. t \in Tunnels
    BY DEF TypeOK, Requests
<1>3. /\ haap'.active_hello_interval = IF haap.active_hello_interval = 0
                                       THEN Offer[s].interval
                                       ELSE haap.active_hello_interval
      /\ haap'.hello_retry_times = IF haap.hello_retry_times = 0
                                   THEN Offer[s].retries
                                   ELSE haap.hello_retry_times
    BY DEF HandleAccept, TypeOK, Haaps
<1>4. haap'.active_hello_interval # 0 /\ haap'.hello_retry_times # 0
    BY <1>3, OfferType
<1>5. \A u \in Tunnels : /\ last_hello_sent'[u] <= now'
                         /\ heard'[u] <= now'
                         /\ last_hello_sent'[u] >= last_hello_sent[u]
    BY <1>1, <1>2 DEF TypeOK, CountInv
<1>6. ~tunnel_interface_created => established = {}
    BY <1>1 DEF CountInv
<1>7. Answered(t)'
    BY <1>1, <1>2 DEF Answered, TypeOK
<1>8. ASSUME NEW u \in established', missed_hellos'[u] # 0
      PROVE  Silent(u)'
    <2>1. u \in Tunnels /\ u \in established
        BY <1>1, <1>2, <1>8 DEF TypeOK, CountInv
    <2>2. haap'.active_hello_interval = haap.active_hello_interval
        BY <1>3, <2>1 DEF CountInv
    <2>3. heard'[u] = heard[u]
        BY <1>1, <1>2, <2>1 DEF TypeOK
    <2>4. Silent(u)
        BY <1>1, <1>8, <2>1 DEF CountInv
    <2> HIDE DEF t
    <2>5. /\ last_hello_sent[u] \in Nat /\ last_hello_sent'[u] \in Nat
          /\ heard[u] \in Nat /\ heard'[u] \in Nat
        BY <1>1, <1>2, <2>1 DEF TypeOK
    <2>6. missed_hellos[u] \in Int /\ haap.active_hello_interval \in Int
        BY <2>1, SessionAssumption DEF TypeOK, Haaps
    <2> QED
        BY <1>1, <1>5, <2>1, <2>2, <2>3, <2>4, <2>5, <2>6 DEF Silent
<1> QED
    BY <1>1, <1>2, <1>4, <1>5, <1>6, <1>7, <1>8 DEF CountInv

LEMMA EchoKeepsCount ==
    ASSUME TypeOK, CountInv, NEW h \in hellos, HandleHello(h)
    PROVE  CountInv'
<1> DEFINE t == h.tunnel
<1>1. /\ pc = "recv" /\ pc' = "connect"
      /\ missed_hellos' = [missed_hellos EXCEPT ![t] = 0]
      /\ heard' = [heard EXCEPT ![t] = now]
      /\ UNCHANGED <<established, last_hello_sent, haap, tunnel_interface_created,
                     now>>
    BY DEF HandleHello, Block, deviceVars
<1>2. t \in Tunnels
    BY DEF TypeOK, Hellos
<1>3. \A u \in Tunnels : heard'[u] <= now'
    BY <1>1, <1>2 DEF TypeOK, CountInv
<1>4. ASSUME NEW u \in Tunnels, missed_hellos'[u] # 0
      PROVE  missed_hellos'[u] = missed_hellos[u] /\ heard'[u] = heard[u]
    BY <1>1, <1>2, <1>4 DEF TypeOK
<1>5. ASSUME NEW u \in established', missed_hellos'[u] # 0
      PROVE  Silent(u)'
    <2>1. u \in Tunnels /\ Silent(u)
        BY <1>1, <1>4, <1>5 DEF TypeOK, CountInv
    <2> QED
        BY <1>1, <1>4, <1>5, <2>1 DEF Silent
<1>6. \A u \in Tunnels : missed_hellos'[u] # 0 => tunnel_interface_created'
    BY <1>1, <1>4 DEF CountInv
<1> QED
    BY <1>1, <1>3, <1>5, <1>6 DEF CountInv, TypeOK

\* A hello that is due is sent an interval and a second after the one before.
LEMMA HellosKeepCount ==
    ASSUME TypeOK, CountInv, SendHellos
    PROVE  CountInv'
<1>1. /\ pc = "hello" /\ pc' = "verdict"
      /\ UNCHANGED <<established, heard, haap, tunnel_interface_created, now>>
    BY DEF SendHellos, Block, deviceVars, history
<1>2. ASSUME NEW t \in Tunnels
      PROVE  /\ last_hello_sent'[t] = IF HelloDue(t) THEN now ELSE last_hello_sent[t]
             /\ missed_hellos'[t] = IF HelloDue(t) /\ ~Answered(t)
                                    THEN OneMore(missed_hellos[t])
                                    ELSE missed_hellos[t]
    BY DEF SendHellos
<1>3. \A t \in Tunnels : last_hello_sent'[t] <= now'
    BY <1>1, <1>2 DEF TypeOK, CountInv
<1>4. ASSUME NEW t \in Tunnels, missed_hellos'[t] # 0
      PROVE  tunnel_interface_created
    <2>1. CASE HelloDue(t) /\ ~Answered(t)
        BY <1>1, <2>1 DEF HelloDue, CountInv
    <2>2. CASE ~(HelloDue(t) /\ ~Answered(t))
        BY <1>2, <1>4, <2>2 DEF CountInv
    <2> QED
        BY <2>1, <2>2
<1>5. ASSUME NEW t \in established, missed_hellos'[t] # 0
      PROVE  Silent(t)'
    <2>1. t \in Tunnels
        BY DEF TypeOK
    <2>2. /\ missed_hellos[t] \in Nat
          /\ last_hello_sent[t] \in Nat /\ heard[t] \in Nat /\ now \in Nat
          /\ haap.active_hello_interval \in Nat
          /\ last_hello_sent[t] <= now /\ heard[t] <= now
        BY <2>1, SessionAssumption DEF TypeOK, Haaps, CountInv
    <2>3. CASE HelloDue(t) /\ ~Answered(t)
        <3>1. /\ last_hello_sent'[t] = now
              /\ missed_hellos'[t] = OneMore(missed_hellos[t])
              /\ now - last_hello_sent[t] >= haap.active_hello_interval + 1
            BY <1>2, <2>1, <2>2, <2>3 DEF HelloDue
        <3>2. missed_hellos'[t] = missed_hellos[t] + 1
            BY <1>5, <2>1, <2>2, <3>1, SessionAssumption DEF OneMore, TypeOK
        <3>3. CASE missed_hellos[t] = 0
            BY <1>1, <2>2, <3>1, <3>2, <3>3 DEF Silent
        <3>4. CASE missed_hellos[t] # 0
            <4>1. last_hello_sent[t] - heard[t] >=
                    (missed_hellos[t] - 1) * (haap.active_hello_interval + 1)
                BY <3>4 DEF CountInv, Silent
            <4>2. (missed_hellos[t] - 1) * (haap.active_hello_interval + 1)
                    + (haap.active_hello_interval + 1)
                  = missed_hellos[t] * (haap.active_hello_interval + 1)
                BY <2>2
            <4>3. missed_hellos[t] * (haap.active_hello_interval + 1) \in Nat
                BY <2>2
            <4>4. now - heard[t] >=
                    missed_hellos[t] * (haap.active_hello_interval + 1)
                BY <2>2, <3>1, <4>1, <4>2, <4>3
            <4>5. missed_hellos'[t] - 1 = missed_hellos[t]
                BY <2>2, <3>2
            <4> QED
                BY <1>1, <3>1, <4>4, <4>5 DEF Silent
        <3> QED
            BY <3>3, <3>4
    <2>4. CASE ~(HelloDue(t) /\ ~Answered(t))
        <3>1. missed_hellos'[t] = missed_hellos[t]
            BY <1>2, <2>1, <2>4
        <3>2. /\ last_hello_sent'[t] >= last_hello_sent[t]
              /\ last_hello_sent'[t] \in Nat
            BY <1>2, <2>1, <2>2
        <3>3. last_hello_sent[t] - heard[t] >=
                (missed_hellos[t] - 1) * (haap.active_hello_interval + 1)
            BY <1>5, <3>1 DEF CountInv, Silent
        <3>4. (missed_hellos[t] - 1) * (haap.active_hello_interval + 1) \in Int
            BY <2>2
        <3>5. last_hello_sent'[t] - heard[t] >=
                (missed_hellos[t] - 1) * (haap.active_hello_interval + 1)
            BY <2>2, <3>2, <3>3, <3>4
        <3> QED
            BY <1>1, <3>1, <3>5 DEF Silent
    <2> QED
        BY <2>3, <2>4
<1> QED
    BY <1>1, <1>3, <1>4, <1>5 DEF CountInv

LEMMA DeviceKeepsCount ==
    ASSUME "create" \notin DeviceFaults, TypeOK, CountInv, ManageDevice
    PROVE  CountInv'
<1>1. /\ pc = "device" /\ pc' = "signal"
      /\ UNCHANGED <<established, last_hello_sent, missed_hellos, heard, haap, now>>
    BY DEF ManageDevice, tunnelVars, history
<1>2. \A t \in Tunnels : missed_hellos[t] # 0 => t \in established
    BY <1>1 DEF CountInv
<1>3. established # {} => tunnel_interface_created'
    <2>1. CASE FirstUp
        BY <2>1 DEF ManageDevice, FirstUp, LastDown, CreateDevice
    <2>2. CASE ~FirstUp /\ established # {}
        BY <2>2 DEF ManageDevice, FirstUp, LastDown, deviceVars
    <2> QED
        BY <2>1, <2>2
<1>4. \A t \in established : missed_hellos'[t] # 0 => Silent(t)'
    BY <1>1 DEF CountInv, Silent
<1> QED
    BY <1>1, <1>2, <1>3, <1>4 DEF CountInv

LEMMA ResetKeepsCount ==
    ASSUME TypeOK, CountInv, ResetState
    PROVE  CountInv'
<1>1. /\ pc = "reset" /\ pc' = "device"
      /\ UNCHANGED <<established, heard, tunnel_interface_created, now>>
    BY DEF ResetState, Block, deviceVars, history
<1>2. ASSUME NEW t \in Tunnels
      PROVE  /\ missed_hellos'[t] = IF t \in Stale THEN 0 ELSE missed_hellos[t]
             /\ last_hello_sent'[t] = IF t \in Stale THEN 0 ELSE last_hello_sent[t]
    BY DEF ResetState
<1>3. /\ haap'.active_hello_interval = haap.active_hello_interval
      /\ haap'.hello_retry_times = haap.hello_retry_times
    <2>1. CASE SessionOver
        <3>1. haap' = [haap EXCEPT !.ip = Anycast, !.session_id = NoSession,
                                   !.bonding_key = NoSession, !.commit_count = 0]
            BY <2>1 DEF ResetState
        <3> QED
            BY <3>1 DEF TypeOK, Haaps
    <2>2. CASE ~SessionOver
        BY <2>2 DEF ResetState
    <2> QED
        BY <2>1, <2>2
<1>4. \A t \in Tunnels : last_hello_sent'[t] <= now'
    BY <1>1, <1>2 DEF TypeOK, CountInv
<1>5. \A t \in Tunnels \ established : missed_hellos'[t] = 0
    BY <1>2 DEF CountInv, Stale, Down
<1>6. ASSUME NEW t \in established, missed_hellos'[t] # 0
      PROVE  Silent(t)'
    <2>1. t \in Tunnels /\ t \notin Stale
        BY DEF TypeOK, Stale, Down
    <2>2. missed_hellos'[t] = missed_hellos[t] /\ last_hello_sent'[t] = last_hello_sent[t]
        BY <1>2, <2>1
    <2> QED
        BY <1>1, <1>3, <1>6, <2>2 DEF CountInv, Silent
<1>7. \A t \in Tunnels : missed_hellos'[t] # 0 => tunnel_interface_created'
    BY <1>1, <1>2 DEF CountInv
<1> QED
    BY <1>1, <1>3, <1>4, <1>5, <1>6, <1>7 DEF CountInv

LEMMA CountInvNext ==
    ASSUME "create" \notin DeviceFaults, TypeOK, CountInv, [Next]_vars
    PROVE  CountInv'
<1>1. ASSUME NEW r \in requests, NEW s \in Sessions, HandleAccept(r, s)
      PROVE  CountInv'
    BY <1>1, AcceptKeepsCount
<1>2. ASSUME NEW h \in hellos, HandleHello(h)
      PROVE  CountInv'
    BY <1>2, EchoKeepsCount
<1>3. ASSUME NEW s \in Sessions, NEW c \in FilterLists, HandleFilterList(s, c)
      PROVE  CountInv'
    <2>1. /\ haap'.active_hello_interval = haap.active_hello_interval
          /\ haap'.hello_retry_times = haap.hello_retry_times
        BY <1>3 DEF HandleFilterList, TypeOK, Haaps
    <2>2. \A t : Silent(t)' <=> Silent(t)
        BY <1>3, <2>1 DEF HandleFilterList, tunnelVars, history, Silent
    <2> QED
        BY <1>3, <2>1, <2>2
           DEF CountInv, Answered, HandleFilterList, Block, tunnelVars, deviceVars,
               history
<1>4. ASSUME NEW s \in Sessions, HandleTeardown(s)
      PROVE  CountInv'
    BY <1>4 DEF CountInv, Answered, Silent, HandleTeardown, Block, deviceVars, history
<1>5. CASE HelloVerdict
    <2>1. established' \subseteq established /\ established \subseteq Tunnels
        BY <1>5 DEF HelloVerdict, TypeOK
    <2> QED
        BY <1>5, <2>1 DEF CountInv, Answered, Silent, HelloVerdict, Block, deviceVars,
                          history
<1>6. CASE Tick
    <2>1. now' >= now /\ now' \in Nat
        BY <1>6 DEF Tick, TypeOK
    <2> QED
        BY <1>6, <2>1 DEF CountInv, Answered, Silent, Tick, tunnelVars, deviceVars,
                          history, TypeOK
<1>7. ASSUME UNCHANGED <<tunnelVars, haap, tunnel_interface_created, now, heard>>,
             \/ pc' = pc
             \/ pc' \in {"connect", "notify", "hello"} /\ pc \in {"recv", "connect", "notify"}
             \/ pc' \in {"reset", "exited"}
             \/ pc' = "recv" /\ pc = "signal"
      PROVE  CountInv'
    BY <1>7 DEF CountInv, Answered, Silent, tunnelVars
<1>8. CASE ReceiveNothing \/ \E s \in Sessions : HandleVerification(s)
    BY <1>7, <1>8 DEF ReceiveNothing, HandleVerification, Block, deviceVars, history
<1>9. CASE Connect \/ Notify \/ Bypass
    BY <1>7, <1>9 DEF Connect, Notify, Bypass, Block, deviceVars, history
<1>10. CASE Shutdown \/ NextPass \/ HandleSignal \/ UNCHANGED vars
    BY <1>7, <1>10 DEF Shutdown, NextPass, HandleSignal, vars, Block, deviceVars,
                       history
<1> QED
    BY <1>1, <1>2, <1>3, <1>4, <1>5, <1>6, <1>8, <1>9, <1>10,
       HellosKeepCount, DeviceKeepsCount, ResetKeepsCount
       DEF Next, Loop, Receive, Exited

\* The verdict on a tunnel: enough missed hellos mean enough silence.
LEMMA VerdictJust ==
    ASSUME TypeOK, CountInv, [Next]_vars
    PROVE  DeadOnlyWhenSilent
<1> SUFFICES ASSUME pc = "verdict", NEW t \in established \ established'
             PROVE  now - heard[t] >=
                      (haap.hello_retry_times - 1) * (haap.active_hello_interval + 1)
    BY DEF DeadOnlyWhenSilent
<1>1. HelloVerdict
    BY DEF Next, Loop, Receive, ReceiveNothing, HandleAccept, HandleHello,
           HandleTeardown, HandleFilterList, HandleVerification, Connect, Notify,
           SendHellos, Bypass, ResetState, ManageDevice, Shutdown, NextPass,
           HandleSignal, Tick, Exited, Block, vars, tunnelVars
<1>2. missed_hellos[t] >= haap.hello_retry_times
    BY <1>1 DEF HelloVerdict, Dead
<1>3. /\ t \in Tunnels
      /\ missed_hellos[t] \in Nat
      /\ last_hello_sent[t] \in Nat /\ heard[t] \in Nat /\ now \in Nat
      /\ haap.active_hello_interval \in Nat
      /\ haap.hello_retry_times \in Nat \ {0}
      /\ last_hello_sent[t] <= now
    BY SessionAssumption DEF TypeOK, Haaps, CountInv
<1>4. last_hello_sent[t] - heard[t] >=
        (missed_hellos[t] - 1) * (haap.active_hello_interval + 1)
    BY <1>2, <1>3 DEF CountInv, Silent
<1>5. \A m, n, i \in Nat : m >= n => (m - 1) * i >= (n - 1) * i
    <2> SUFFICES ASSUME NEW m \in Nat, NEW n \in Nat, NEW i \in Nat, m >= n
                 PROVE  (m - 1) * i >= (n - 1) * i
        OBVIOUS
    <2>1. (m - 1) * i = (n - 1) * i + (m - n) * i
        OBVIOUS
    <2>2. (m - n) * i \in Nat /\ (n - 1) * i \in Int
        OBVIOUS
    <2> QED
        BY <2>1, <2>2
<1>6. (missed_hellos[t] - 1) * (haap.active_hello_interval + 1) >=
        (haap.hello_retry_times - 1) * (haap.active_hello_interval + 1)
    BY <1>2, <1>3, <1>5
<1>7. /\ (missed_hellos[t] - 1) * (haap.active_hello_interval + 1) \in Int
      /\ (haap.hello_retry_times - 1) * (haap.active_hello_interval + 1) \in Int
    BY <1>3
<1> QED
    BY <1>3, <1>4, <1>6, <1>7

LEMMA CountSafe ==
    ASSUME "create" \notin DeviceFaults
    PROVE  Spec => [](TypeOK /\ CountInv)
<1>1. Init => TypeOK /\ CountInv
    BY InitType, CountInvInit
<1>2. TypeOK /\ CountInv /\ [Next]_vars => (TypeOK /\ CountInv)'
    BY NextType, CountInvNext
<1> QED
    BY <1>1, <1>2, PTL DEF Spec

\* Provided that creating the tunnel device does not fail, a tunnel that is down
\* carries no missed hellos into its next session.
THEOREM StatsAreReset ==
    ASSUME "create" \notin DeviceFaults
    PROVE  Spec => []StatsReset
<1>1. CountInv => StatsReset
    BY DEF CountInv, StatsReset
<1> QED
    BY <1>1, CountSafe, PTL

\* Provided that creating the tunnel device does not fail, no tunnel is given up
\* before the silence that the retries and the interval stand for, whatever the
\* order in which echoes arrive.
THEOREM NoEarlyDeath ==
    ASSUME "create" \notin DeviceFaults
    PROVE  Spec => SilenceBeforeDeath
<1>1. TypeOK /\ CountInv /\ [Next]_vars => [DeadOnlyWhenSilent]_vars
    BY VerdictJust
<1> QED
    BY <1>1, CountSafe, PTL DEF Spec, SilenceBeforeDeath
=============================================================================
