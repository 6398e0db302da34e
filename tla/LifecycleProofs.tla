-------------------------- MODULE LifecycleProofs --------------------------
(***************************************************************************)
(* Session implements Lifecycle: what Dhcp and DataPath assume of the rest *)
(* of the loop is true of it, for every number of sessions and however the *)
(* messages of old and new ones are mixed.                                 *)
(*                                                                         *)
(* Most steps leave all that Lifecycle speaks of alone.  The exceptions    *)
(* are the accept, a teardown, the verdict on the hellos and the blocks at *)
(* the end of a pass; the accept is where SessionInv is needed.            *)
(***************************************************************************)
EXTENDS SessionProofs

\* What Lifecycle speaks of, apart from the phase.
Visible == <<established, haap.bonding_key, tunnel_interface_created>>

\* A step within a phase that changes nothing else is a stutter.
LEMMA StutterStep ==
    ASSUME Phase' = Phase, UNCHANGED Visible
    PROVE  UNCHANGED Promise!lifecycleVars
BY DEF Visible, Promise!lifecycleVars

\* A step before ResetState that changes the tunnels of a session that has some.
LEMMA ChangeStep ==
    ASSUME Phase = "session", Phase' = "session", established # {},
           established' \subseteq Tunnels, haap'.bonding_key = haap.bonding_key,
           tunnel_interface_created' = tunnel_interface_created
    PROVE  Promise!Change
BY DEF Promise!Change, Promise!Tunnels, Promise!LTE, Promise!DSL, Tunnels, LTE, DSL

\* An accept opens a session with LTE if none is known, and adds a tunnel to the
\* session there is otherwise.
LEMMA AcceptImplements ==
    ASSUME TypeOK, SessionInv, NEW r \in requests, NEW s \in Sessions,
           HandleAccept(r, s)
    PROVE  Promise!LifecycleNext
<1>1. /\ r.to = haap.ip
      /\ (r.session_id = NoSession) <=> (r.to = Anycast)
      /\ r.tunnel = DSL => r.session_id # NoSession
      /\ r.tunnel \in Tunnels
    <2>1. FromHaap(r.to) /\ JoinNamesSession /\ r \in Requests
        BY DEF HandleAccept, SessionInv, TypeOK
    <2> QED
        BY <2>1 DEF FromHaap, JoinNamesSession, Requests
<1>2. /\ Phase = "session" /\ Phase' = "session" /\ pc = "recv"
      /\ established' = established \cup {r.tunnel}
      /\ tunnel_interface_created' = tunnel_interface_created
    BY DEF HandleAccept, Block, deviceVars, Phase
<1>3. CASE r.session_id = NoSession
    <2>1. established = {} /\ haap.bonding_key = NoSession
        BY <1>1, <1>3 DEF SessionInv
    <2>2. established' = {LTE}
        BY <1>1, <1>2, <1>3, <2>1 DEF Tunnels, LTE, DSL
    <2>3. haap'.bonding_key = s
        BY <1>3 DEF HandleAccept, TypeOK, Haaps
    <2>4. Promise!Open(s)
        BY <1>2, <2>1, <2>2, <2>3 DEF Promise!Open, Promise!LTE, LTE
    <2> QED
        BY <2>4 DEF Promise!LifecycleNext
<1>4. CASE r.session_id # NoSession
    <2>1. established # {}
        BY <1>1, <1>2, <1>4 DEF SessionInv
    <2>2. haap'.bonding_key = haap.bonding_key
        BY <1>4 DEF HandleAccept, TypeOK, Haaps
    <2>3. established' \subseteq Tunnels
        BY <1>1, <1>2 DEF TypeOK
    <2> QED
        BY <1>2, <2>1, <2>2, <2>3, ChangeStep DEF Promise!LifecycleNext
<1> QED
    BY <1>3, <1>4

\* A teardown and the verdict on the hellos only take tunnels away.
LEMMA LossImplements ==
    ASSUME TypeOK,
           HelloVerdict \/ \E s \in Sessions : HandleTeardown(s)
    PROVE  [Promise!LifecycleNext]_(Promise!lifecycleVars)
<1>1. /\ Phase = "session" /\ Phase' = "session"
      /\ established' \subseteq established
      /\ haap' = haap /\ tunnel_interface_created' = tunnel_interface_created
    BY DEF HelloVerdict, HandleTeardown, Block, deviceVars, Phase
<1>2. CASE established = {}
    BY <1>1, <1>2, StutterStep DEF Visible
<1>3. CASE established # {}
    <2>1. established' \subseteq Tunnels
        BY <1>1 DEF TypeOK
    <2> QED
        BY <1>1, <1>3, <2>1, ChangeStep DEF Promise!LifecycleNext
<1> QED
    BY <1>2, <1>3

\* The blocks at the end of a pass.
LEMMA PassImplements ==
    ASSUME TypeOK,
           Bypass \/ ResetState \/ ManageDevice \/ NextPass \/ Shutdown
    PROVE  Promise!LifecycleNext
<1> USE DEF Phase
<1>1. CASE Bypass
    <2>1. Promise!Settle
        BY <1>1 DEF Bypass, Block, tunnelVars, deviceVars, Promise!Settle
    <2> QED
        BY <2>1 DEF Promise!LifecycleNext
<1>2. CASE ResetState
    <2>1. /\ Phase = "reset" /\ Phase' = "device"
          /\ established' = established
          /\ tunnel_interface_created' = tunnel_interface_created
        BY <1>2 DEF ResetState, Block, deviceVars
    <2>2. CASE SessionOver
        <3>1. haap' = [haap EXCEPT !.ip = Anycast, !.session_id = NoSession,
                                   !.bonding_key = NoSession, !.commit_count = 0]
            BY <1>2, <2>2 DEF ResetState
        <3>2. haap'.bonding_key = NoSession
            BY <3>1 DEF TypeOK, Haaps
        <3> QED
            BY <2>1, <2>2, <3>2
               DEF SessionOver, Promise!LifecycleNext, Promise!Reset, Promise!Over
    <2>3. CASE ~SessionOver
        <3>1. haap' = haap
            BY <1>2, <2>3 DEF ResetState
        <3> QED
            BY <2>1, <2>3, <3>1
               DEF SessionOver, Promise!LifecycleNext, Promise!Reset, Promise!Over
    <2> QED
        BY <2>2, <2>3
<1>3. CASE ManageDevice
    <2>1. /\ Phase = "device" /\ Phase' = "users"
          /\ established' = established /\ haap' = haap
        BY <1>3 DEF ManageDevice, tunnelVars
    <2>2. /\ tunnel_interface_created' \in BOOLEAN
          /\ Promise!Managed(tunnel_interface_created')
        <3>1. CASE FirstUp
            <4>1. PICK ok \in BOOLEAN : tunnel_interface_created' = ok
                BY <1>3, <3>1 DEF ManageDevice, FirstUp, LastDown
            <4> QED
                BY <3>1, <4>1 DEF FirstUp, Promise!Managed
        <3>2. CASE LastDown
            <4>1. PICK outcome \in Outcomes :
                    tunnel_interface_created' = ~ReturnedTrue(outcome)
                BY <1>3, <3>2 DEF ManageDevice, FirstUp, LastDown
            <4>2. tunnel_interface_created' \in BOOLEAN
                BY <4>1
            <4>3. Bonding => tunnel_interface_created'
                BY <4>1 DEF ReturnedTrue
            <4> QED
                BY <3>2, <4>2, <4>3 DEF LastDown, Promise!Managed
        <3>3. CASE ~FirstUp /\ ~LastDown
            <4>1. tunnel_interface_created' = tunnel_interface_created
                BY <1>3, <3>3 DEF ManageDevice, deviceVars
            <4> QED
                BY <3>3, <4>1 DEF TypeOK, FirstUp, LastDown, Promise!Managed
        <3> QED
            BY <3>1, <3>2, <3>3
    <2> QED
        BY <2>1, <2>2 DEF Promise!LifecycleNext, Promise!Manage
<1>4. CASE NextPass
    <2>1. Promise!NextPass
        BY <1>4 DEF NextPass, Block, tunnelVars, deviceVars, Promise!NextPass
    <2> QED
        BY <2>1 DEF Promise!LifecycleNext
<1>5. CASE Shutdown
    <2>1. Promise!Exit
        BY <1>5 DEF Shutdown, tunnelVars, Promise!Exit
    <2> QED
        BY <2>1 DEF Promise!LifecycleNext
<1> QED
    BY <1>1, <1>2, <1>3, <1>4, <1>5

\* Everything else that happens is invisible to the users of the tunnel.
LEMMA OthersStutter ==
    ASSUME TypeOK,
           \/ ReceiveNothing \/ Connect \/ Notify \/ SendHellos \/ HandleSignal
           \/ Tick \/ UNCHANGED vars
           \/ \E h \in hellos : HandleHello(h)
           \/ \E s \in Sessions, c \in FilterLists : HandleFilterList(s, c)
           \/ \E s \in Sessions : HandleVerification(s)
    PROVE  UNCHANGED Promise!lifecycleVars
<1> USE DEF Phase, Visible, Block, tunnelVars, deviceVars
<1>1. CASE ReceiveNothing
    BY <1>1, StutterStep DEF ReceiveNothing
<1>2. CASE Connect
    BY <1>2, StutterStep DEF Connect
<1>3. CASE Notify
    BY <1>3, StutterStep DEF Notify
<1>4. CASE SendHellos
    BY <1>4, StutterStep DEF SendHellos
<1>5. CASE HandleSignal
    BY <1>5, StutterStep DEF HandleSignal
<1>6. CASE Tick
    BY <1>6, StutterStep DEF Tick
<1>7. CASE UNCHANGED vars
    BY <1>7, StutterStep DEF vars
<1>8. ASSUME NEW h \in hellos, HandleHello(h)
      PROVE  UNCHANGED Promise!lifecycleVars
    BY <1>8, StutterStep DEF HandleHello
<1>9. ASSUME NEW s \in Sessions, NEW c \in FilterLists, HandleFilterList(s, c)
      PROVE  UNCHANGED Promise!lifecycleVars
    <2>1. haap'.bonding_key = haap.bonding_key
        BY <1>9 DEF HandleFilterList, TypeOK, Haaps
    <2> QED
        BY <1>9, <2>1, StutterStep DEF HandleFilterList
<1>10. ASSUME NEW s \in Sessions, HandleVerification(s)
       PROVE  UNCHANGED Promise!lifecycleVars
    BY <1>10, StutterStep DEF HandleVerification
<1> QED
    BY <1>1, <1>2, <1>3, <1>4, <1>5, <1>6, <1>7, <1>8, <1>9, <1>10

\* The control loop keeps its promise to the users of the tunnel: it implements
\* Lifecycle.
THEOREM SessionKeepsPromise == Spec => KeepsPromise
<1>1. Init => Promise!LifecycleInit
    BY SessionAssumption DEF Init, NoHaap, Phase, Promise!LifecycleInit
<1>2. TypeOK /\ SessionInv /\ [Next]_vars
        => [Promise!LifecycleNext]_(Promise!lifecycleVars)
    BY AcceptImplements, LossImplements, PassImplements, OthersStutter
       DEF Next, Loop, Receive, Exited
<1> QED
    BY <1>1, <1>2, SessionSafe, PTL DEF Spec, KeepsPromise, Promise!LifecycleSpec
=============================================================================
