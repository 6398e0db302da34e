----------------------------- MODULE DhcpProofs -----------------------------
(***************************************************************************)
(* What holds of Dhcp for every number of sessions, every lease time and   *)
(* every set of faults.                                                    *)
(***************************************************************************)
EXTENDS Dhcp, TLAPS

\* The variables of the loop up to the tunnel device keep their type.
LoopTypeOK ==
    /\ bonding \in BOOLEAN /\ phase \in Phases /\ created \in BOOLEAN
    /\ established \subseteq Tunnels /\ key \in Sessions \cup {NoSession}
    /\ device \in BOOLEAN

UserTypeOK ==
    /\ block \in Blocks
    /\ client \in [Families -> Statuses]
    /\ lease \in [Families -> Nat \cup {NoLease}]
    /\ orphans \subseteq Families /\ announced \subseteq Families
    /\ misread \subseteq Families /\ expired \subseteq Families
    /\ event \subseteq {"dhcpup", "dhcpdown"} \X Families

LEMMA TypeParts == DhcpTypeOK <=> LoopTypeOK /\ UserTypeOK
BY DEF DhcpTypeOK, LoopTypeOK, UserTypeOK

LEMMA DhcpInitType == Init => DhcpTypeOK
<1> SUFFICES ASSUME Init PROVE DhcpTypeOK
    OBVIOUS
<1>1. LoopTypeOK
    BY DEF Init, LifecycleInit, LoopTypeOK, Phases
<1>2. client \in [Families -> Statuses] /\ lease \in [Families -> Nat \cup {NoLease}]
    BY DEF Init, Statuses
<1>3. UserTypeOK
    BY <1>2 DEF Init, UserTypeOK, Blocks
<1> QED
    BY <1>1, <1>3, TypeParts

LEMMA LoopNextType == LoopTypeOK /\ [Next]_vars => LoopTypeOK'
<1> SUFFICES ASSUME LoopTypeOK, [Next]_vars PROVE LoopTypeOK'
    OBVIOUS
<1> USE DEF LoopTypeOK, Phases
<1>0. device' \in BOOLEAN
    <2>1. CASE ManageDevice
        <3>1. created' \in BOOLEAN /\ device' \in DeviceAfter(created')
            BY <2>1 DEF ManageDevice, Manage
        <3>2. DeviceAfter(created') \subseteq {created' \/ device, device, FALSE}
            BY Zenon DEF DeviceAfter
        <3> QED
            BY <3>1, <3>2, Zenon
    <2>2. CASE Shutdown
        BY <2>2 DEF Shutdown
    <2>3. CASE UNCHANGED device
        BY <2>3
    <2> QED
        BY <2>1, <2>2, <2>3
           DEF Next, Loop, Outside, Stopped, OpenSession, ChangeTunnels,
               SettleSession, ResetUsers, Threads, Start4, Wait4, Start6, Wait6,
               Expiry, AgainPass, ClientEnds, OrphanEnds, Tick, Block, vars, dhcpVars
<1>1. ASSUME NEW s \in Sessions, Open(s) PROVE LoopTypeOK'
    BY <1>0, <1>1 DEF Open, Tunnels
<1>2. CASE Change
    BY <1>0, <1>2 DEF Change
<1>3. CASE Settle \/ NextPass \/ Exit
    BY <1>0, <1>3 DEF Settle, NextPass, Exit
<1>4. CASE Reset
    BY <1>0, <1>4 DEF Reset
<1>5. CASE Manage
    BY <1>0, <1>5 DEF Manage
<1>6. CASE UNCHANGED lifecycleVars
    BY <1>0, <1>6 DEF lifecycleVars
<1>7. \/ \E s \in Sessions : Open(s)
      \/ Change \/ Settle \/ NextPass \/ Exit \/ Reset \/ Manage
      \/ UNCHANGED lifecycleVars
    BY DEF Next, Loop, Outside, Stopped, OpenSession, ChangeTunnels, SettleSession,
           ManageDevice, ResetUsers, Threads, Start4, Wait4, Start6, Wait6, Expiry,
           AgainPass, Shutdown, ClientEnds, OrphanEnds, Tick, Block, vars
<1> QED
    BY <1>1, <1>2, <1>3, <1>4, <1>5, <1>6, <1>7

-----------------------------------------------------------------------------
(* What the steps do to the clients and the leases. *)

\* The events that trigger_event() is called for, and who has been told.
LEMMA TellType ==
    ASSUME announced \subseteq Families, NEW ups \in SUBSET Families,
           NEW downs \in SUBSET Families, Tell(ups, downs)
    PROVE  /\ announced' \subseteq Families
           /\ event' \subseteq {"dhcpup", "dhcpdown"} \X Families
BY DEF Tell

LEMMA QuietType ==
    ASSUME announced \subseteq Families, Quiet
    PROVE  /\ announced' \subseteq Families
           /\ event' \subseteq {"dhcpup", "dhcpdown"} \X Families
BY DEF Quiet

\* start_udhcpc() starts a client where one is wanted, or none.
LEMMA StartEffect ==
    ASSUME UserTypeOK, NEW f \in Families, Start(f)
    PROVE  /\ client' \in [Families -> Statuses]
           /\ \A g \in Families : client'[g] = client[g]
                                    \/ (Wanted(g) /\ client'[g] = "running")
           /\ Quiet
           /\ UNCHANGED <<lease, orphans, misread, expired>>
<1>1. client \in [Families -> Statuses]
    BY DEF UserTypeOK
<1>2. PICK ok \in BOOLEAN :
        client' = [client EXCEPT ![f] = IF Wanted(f) /\ ok THEN "running" ELSE @]
    BY DEF Start
<1>3. CASE Wanted(f) /\ ok
    BY <1>1, <1>2, <1>3 DEF Start, Statuses
<1>4. CASE ~(Wanted(f) /\ ok)
    BY <1>1, <1>2, <1>4 DEF Start
<1> QED
    BY <1>3, <1>4

\* What the wait for a client makes of what waitpid() says: either the client is
\* still known by its pid, or it is gone, with a lease of t seconds or with none.
Gone(f, t) ==
    /\ client' = [client EXCEPT ![f] = "none"]
    /\ lease' = [lease EXCEPT ![f] = t]
    /\ \/ t = NoLease /\ Quiet
       \/ /\ t \in Nat /\ Tell({f}, {})
          /\ client[f] = "bound" \/ Reachable
    /\ client[f] # "none"

Same ==
    /\ \A g \in Families : /\ (client'[g] = "none") <=> (client[g] = "none")
                           /\ client'[g] = "bound" => client[g] = "bound"
    /\ client' \in [Families -> Statuses]
    /\ lease' = lease
    /\ Quiet

LEMMA WaitEffect ==
    ASSUME UserTypeOK, NEW f \in Families, Wait(f)
    PROVE  /\ Same \/ \E t \in Nat \cup {NoLease} : Gone(f, t)
           /\ expired' = expired
           /\ misread' \subseteq Families /\ misread \subseteq misread'
           /\ orphans' \subseteq Families /\ orphans' \ orphans \subseteq misread'
<1> USE DEF UserTypeOK
<1>1. CASE Exited(f)
    <2>1. LeaseTimes[f] \subseteq Nat
        BY DhcpAssumption
    <2>2. PICK t \in IF client[f] = "bound" THEN LeaseTimes[f] ELSE {NoLease} :
            Output(f, t)
        BY <1>1 DEF Exited
    <2>3. client[f] \in {"bound", "failed"} /\ UNCHANGED <<orphans, misread, expired>>
        BY <1>1 DEF Exited
    <2>4. t \in Nat \cup {NoLease} /\ (t # NoLease => client[f] = "bound")
        BY <2>1, <2>2
    <2>5. Gone(f, t)
        BY <2>2, <2>3, <2>4 DEF Output, Gone, NoLease
    <2> QED
        BY <2>3, <2>4, <2>5
<1>2. CASE Died(f)
    BY <1>2 DEF Died, Same, Statuses
<1>3. CASE StillThere(f)
    BY <1>3 DEF StillThere, Same, clientVars
<1>4. CASE Misread(f)
    <2>1. LeaseTimes[f] \subseteq Nat
        BY DhcpAssumption
    <2>2. PICK t \in {NoLease} \cup IF client[f] = "running" /\ Reachable
                                    THEN LeaseTimes[f] ELSE {} : Output(f, t)
        BY <1>4 DEF Misread
    <2>3. /\ client[f] \in {"running", "reaped"}
          /\ orphans' = orphans \cup ({f} \cap Running)
          /\ misread' = misread \cup ({f} \cap Running)
          /\ expired' = expired
        BY <1>4 DEF Misread
    <2>4. t \in Nat \cup {NoLease} /\ (t # NoLease => Reachable)
        BY <2>1, <2>2
    <2>5. Gone(f, t)
        BY <2>2, <2>3, <2>4 DEF Output, Gone, NoLease
    <2> QED
        BY <2>3, <2>4, <2>5
<1> QED
    BY <1>1, <1>2, <1>3, <1>4 DEF Wait

LEMMA GoneType ==
    ASSUME UserTypeOK, NEW f \in Families, NEW t \in Nat \cup {NoLease}, Gone(f, t)
    PROVE  /\ client' \in [Families -> Statuses]
           /\ lease' \in [Families -> Nat \cup {NoLease}]
           /\ announced' \subseteq Families
           /\ event' \subseteq {"dhcpup", "dhcpdown"} \X Families
<1>1. /\ client' \in [Families -> Statuses]
      /\ lease' \in [Families -> Nat \cup {NoLease}]
    BY DEF Gone, UserTypeOK, Statuses
<1>2. announced \subseteq Families
    BY DEF UserTypeOK
<1>3. Quiet \/ Tell({f}, {})
    BY DEF Gone
<1> QED
    BY <1>1, <1>2, <1>3, TellType, QuietType

-----------------------------------------------------------------------------
(* Type correctness. *)

LEMMA BlocksType ==
    ASSUME UserTypeOK,
           \/ Threads \/ Start4 \/ Wait4 \/ Start6 \/ Wait6 \/ Expiry \/ AgainPass
    PROVE  UserTypeOK'
<1>1. block' \in Blocks
    BY DEF Threads, Start4, Wait4, Start6, Wait6, Expiry, AgainPass, Block, Blocks
<1>2. announced \subseteq Families
    BY DEF UserTypeOK
<1>3. CASE Threads \/ AgainPass
    <2>1. Quiet /\ UNCHANGED <<client, lease, orphans, misread, expired>>
        BY <1>3 DEF Threads, AgainPass, clientVars
    <2> QED
        BY <1>1, <1>2, <2>1, QuietType DEF UserTypeOK
<1>4. CASE Start4 \/ Start6
    <2>1. PICK f \in Families : Start(f)
        BY <1>4 DEF Start4, Start6, Families
    <2> QED
        BY <1>1, <1>2, <2>1, StartEffect, QuietType DEF UserTypeOK
<1>5. CASE Wait4 \/ Wait6
    <2>1. PICK f \in Families : Wait(f)
        BY <1>5 DEF Wait4, Wait6, Families
    <2>2. /\ expired' \subseteq Families /\ misread' \subseteq Families
          /\ orphans' \subseteq Families
        BY <2>1, WaitEffect DEF UserTypeOK
    <2>3. CASE Same
        BY <1>1, <1>2, <2>2, <2>3, QuietType DEF Same, UserTypeOK
    <2>4. ASSUME NEW t \in Nat \cup {NoLease}, Gone(f, t)
          PROVE  UserTypeOK'
        BY <1>1, <2>2, <2>4, GoneType DEF UserTypeOK
    <2> QED
        BY <2>1, <2>3, <2>4, WaitEffect
<1>6. CASE Expiry
    <2>1. /\ lease' = [f \in Families |-> IF f \in Cleared THEN NoLease ELSE lease[f]]
          /\ Tell({}, OverLeases) /\ expired' = expired \cup OverLeases
          /\ UNCHANGED <<client, orphans, misread>>
        BY <1>6 DEF Expiry
    <2>2. OverLeases \subseteq Families
        BY DEF OverLeases
    <2>3. lease' \in [Families -> Nat \cup {NoLease}]
        BY <2>1 DEF UserTypeOK
    <2>4. /\ announced' \subseteq Families
          /\ event' \subseteq {"dhcpup", "dhcpdown"} \X Families
        BY <1>2, <2>1, <2>2, TellType
    <2> QED
        BY <1>1, <2>1, <2>2, <2>3, <2>4 DEF UserTypeOK
<1> QED
    BY <1>3, <1>4, <1>5, <1>6

LEMMA EndsType ==
    ASSUME UserTypeOK, ResetUsers \/ Shutdown
    PROVE  UserTypeOK'
<1>1. announced \subseteq Families /\ block \in Blocks /\ "threads" \in Blocks
    BY DEF UserTypeOK, Blocks
<1>2. Running \subseteq Families /\ EndedLeases \subseteq Families
        /\ Held \subseteq Families
    BY DEF Running, EndedLeases, Held
<1>3. /\ [f \in Families |-> "none"] \in [Families -> Statuses]
      /\ [f \in Families |-> NoLease] \in [Families -> Nat \cup {NoLease}]
    BY DEF Statuses
<1>4. CASE ResetUsers
    <2>1. UNCHANGED <<block, misread, expired>>
        BY <1>4 DEF ResetUsers
    <2>2. CASE Over
        <3>1. /\ client' = [f \in Families |-> "none"]
              /\ orphans' = orphans \cup (Running \ EndedClients)
              /\ lease' = NoLeases
              /\ Tell({}, EndedLeases)
            BY <1>4, <2>2 DEF ResetUsers
        <3>2. /\ announced' \subseteq Families
              /\ event' \subseteq {"dhcpup", "dhcpdown"} \X Families
            BY <1>1, <1>2, <3>1, TellType
        <3> QED
            BY <1>2, <1>3, <2>1, <3>1, <3>2 DEF UserTypeOK, NoLeases
    <2>3. CASE ~Over
        BY <1>1, <1>4, <2>1, <2>3, QuietType DEF ResetUsers, clientVars, UserTypeOK
    <2> QED
        BY <2>2, <2>3
<1>5. CASE Shutdown
    <2>1. /\ block' = "threads"
          /\ client' = [f \in Families |-> "none"]
          /\ orphans' = orphans \cup (Running \ ExitEnded)
          /\ lease' = [f \in Families |-> NoLease]
          /\ Tell({}, Held)
          /\ UNCHANGED <<misread, expired>>
        BY <1>5 DEF Shutdown
    <2>2. /\ announced' \subseteq Families
          /\ event' \subseteq {"dhcpup", "dhcpdown"} \X Families
        BY <1>1, <1>2, <2>1, TellType
    <2> QED
        BY <1>1, <1>2, <1>3, <2>1, <2>2 DEF UserTypeOK
<1> QED
    BY <1>4, <1>5

\* The clients and the clock change one thing at a time.
LEMMA ClientEndsEffect ==
    ASSUME UserTypeOK, NEW f \in Families, ClientEnds(f)
    PROVE  /\ client' \in [Families -> Statuses]
           /\ \A g \in Families : /\ (client'[g] = "none") <=> (client[g] = "none")
                                  /\ client'[g] = "bound" =>
                                       client[g] = "bound" \/ Reachable
           /\ event' = {}
           /\ UNCHANGED <<lifecycleVars, block, lease, orphans, device, announced,
                          misread, expired>>
<1>1. client \in [Families -> Statuses]
    BY DEF UserTypeOK
<1>2. PICK end \in {"bound", "failed", "killed"} :
        /\ end = "bound" => Reachable
        /\ client' = [client EXCEPT ![f] = end]
    BY DEF ClientEnds
<1>3. client[f] = "running"
    BY DEF ClientEnds
<1>4. client' \in [Families -> Statuses]
    BY <1>1, <1>2 DEF Statuses
<1>5. \A g \in Families : client'[g] = IF g = f THEN end ELSE client[g]
    BY <1>1, <1>2
<1>6. \A g \in Families : /\ (client'[g] = "none") <=> (client[g] = "none")
                          /\ client'[g] = "bound" =>
                               client[g] = "bound" \/ Reachable
    BY <1>2, <1>3, <1>5
<1> QED
    BY <1>4, <1>6 DEF ClientEnds

LEMMA TickEffect ==
    ASSUME UserTypeOK, Tick
    PROVE  /\ lease' \in [Families -> Nat \cup {NoLease}]
           /\ \A g \in Families : (lease'[g] = NoLease) <=> (lease[g] = NoLease)
           /\ event' = {}
           /\ UNCHANGED <<lifecycleVars, block, client, orphans, device, announced,
                          misread, expired>>
BY DEF UserTypeOK, Tick, NoLease

LEMMA OutsideType ==
    ASSUME UserTypeOK,
           \/ OpenSession \/ ChangeTunnels \/ SettleSession \/ ManageDevice \/ Tick
           \/ \E f \in Families : ClientEnds(f) \/ OrphanEnds(f)
           \/ UNCHANGED vars
    PROVE  UserTypeOK'
<1>1. CASE OpenSession \/ ChangeTunnels \/ SettleSession \/ ManageDevice
    BY <1>1 DEF OpenSession, ChangeTunnels, SettleSession, ManageDevice, Untouched,
                clientVars, UserTypeOK
<1>2. CASE Tick
    BY <1>2, TickEffect DEF UserTypeOK
<1>3. ASSUME NEW f \in Families, ClientEnds(f)
      PROVE  UserTypeOK'
    BY <1>3, ClientEndsEffect DEF UserTypeOK
<1>4. ASSUME NEW f \in Families, OrphanEnds(f)
      PROVE  UserTypeOK'
    BY <1>4 DEF OrphanEnds, UserTypeOK
<1>5. CASE UNCHANGED vars
    BY <1>5 DEF vars, dhcpVars, clientVars, tellVars, UserTypeOK
<1> QED
    BY <1>1, <1>2, <1>3, <1>4, <1>5

LEMMA DhcpNextType == DhcpTypeOK /\ [Next]_vars => DhcpTypeOK'
<1> SUFFICES ASSUME DhcpTypeOK, [Next]_vars PROVE DhcpTypeOK'
    OBVIOUS
<1>1. LoopTypeOK /\ UserTypeOK
    BY TypeParts
<1>2. UserTypeOK'
    BY <1>1, BlocksType, EndsType, OutsideType DEF Next, Loop, Outside, Stopped
<1>3. LoopTypeOK'
    BY <1>1, LoopNextType
<1> QED
    BY <1>2, <1>3 DEF DhcpTypeOK, LoopTypeOK, UserTypeOK

\* Every variable of the clients and their leases keeps its type.
THEOREM DhcpTypeCorrect == Spec => []DhcpTypeOK
BY DhcpInitType, DhcpNextType, PTL DEF Spec

-----------------------------------------------------------------------------
(* Clients, leases and announcements.                                       *)
(*                                                                          *)
(* The device may be gone only after the reset of a pass without tunnels,   *)
(* which leaves neither client nor lease.  A device that could not be       *)
(* removed, or is only taken to exist, gets clients again, although there   *)
(* is no tunnel; but without one no client comes back with a lease, and the *)
(* reset of the next pass ends them.  The statement for each family is what *)
(* makes this inductive.                                                    *)

UserInv ==
    \A f \in Families :
      /\ client[f] # "none" \/ lease[f] # NoLease => created /\ phase # "exited"
      /\ client[f] = "none" \/ lease[f] = NoLease
      /\ phase = "device" /\ established = {} =>
           client[f] = "none" /\ lease[f] = NoLease
      /\ phase = "users" /\ established = {} =>
           client[f] # "bound" /\ lease[f] = NoLease

\* Without bonding a device that is taken to exist does, until the program removes
\* it and exits; and so does, with and without, the device over which a client has
\* got a lease.
DeviceInv ==
    /\ ~bonding /\ created /\ phase # "exited" => device
    /\ \A f \in Families : client[f] = "bound" \/ lease[f] # NoLease => device

\* Every v4 lease has been announced, and only v6 leases that ran out make for an
\* announced lease that is gone.
ToldInv ==
    /\ lease[V4] # NoLease => V4 \in announced
    /\ V6 \notin expired /\ V4 \in announced => lease[V4] # NoLease

DhcpInv == UserInv /\ DeviceInv /\ ToldInv /\ NoStrayClient

LEMMA DhcpInvImplies ==
    DhcpInv => /\ UsersHaveDevice /\ LeaseHasSession /\ ClientOrLease
               /\ NoStrayClient /\ AnnouncedIffHeld
<1> SUFFICES ASSUME DhcpInv
             PROVE  /\ UsersHaveDevice /\ LeaseHasSession /\ ClientOrLease
                    /\ NoStrayClient /\ AnnouncedIffHeld
    OBVIOUS
<1> USE DEF DhcpInv, UserInv, Started, Held
<1>1. UsersHaveDevice
    BY DEF UsersHaveDevice, DeviceInv
<1>2. LeaseHasSession
    BY DEF LeaseHasSession
<1>3. ClientOrLease
    BY DEF ClientOrLease
<1>4. AnnouncedIffHeld
    BY DEF ToldInv, AnnouncedIffHeld, Families
<1> QED
    BY <1>1, <1>2, <1>3, <1>4

LEMMA DhcpInvInit == Init => DhcpInv
BY DEF Init, LifecycleInit, DhcpInv, UserInv, DeviceInv, ToldInv, NoStrayClient,
       Families, V4, V6, NoLease

\* A step that leaves the device alone, and gives no client and no family a lease
\* but over the device.
LEMMA DeviceInvKept ==
    ASSUME DeviceInv, UNCHANGED <<bonding, created, device>>,
           phase # "exited" \/ phase' = "exited",
           \A f \in Families :
             client'[f] = "bound" \/ lease'[f] # NoLease =>
               client[f] = "bound" \/ lease[f] # NoLease \/ device
    PROVE  DeviceInv'
BY DEF DeviceInv

\* A step that changes neither clients nor leases nor what was told of them.
LEMMA UntouchedKeepsTold ==
    ASSUME DhcpInv, lease' = lease, announced' = announced, expired' = expired,
           orphans' \ orphans \subseteq misread', misread \subseteq misread'
    PROVE  ToldInv' /\ NoStrayClient'
BY DEF DhcpInv, ToldInv, NoStrayClient

\* The loop up to the tunnel device.
LEMMA LoopKeepsInv ==
    ASSUME DhcpTypeOK, DhcpInv,
           \/ OpenSession \/ ChangeTunnels \/ SettleSession \/ ManageDevice
    PROVE  DhcpInv'
<1>1. UNCHANGED <<client, lease, orphans, announced, misread, expired>>
    BY DEF OpenSession, ChangeTunnels, SettleSession, ManageDevice, Untouched,
           clientVars
<1>2. ToldInv' /\ NoStrayClient'
    BY <1>1, UntouchedKeepsTold
<1>3. UserInv /\ DeviceInv
    BY DEF DhcpInv
<1>4. CASE OpenSession \/ ChangeTunnels \/ SettleSession
    <2>1. /\ UNCHANGED <<bonding, created, device>>
          /\ phase = "session" /\ phase' \in {"session", "reset"}
        BY <1>4 DEF OpenSession, ChangeTunnels, SettleSession, Open, Change, Settle
    <2>2. DeviceInv'
        BY <1>1, <1>3, <2>1, DeviceInvKept
    <2> QED
        BY <1>1, <1>2, <1>3, <2>1, <2>2 DEF DhcpInv, UserInv
<1>5. CASE ManageDevice
    <2>1. /\ phase = "device" /\ phase' = "users" /\ established' = established
          /\ bonding' = bonding /\ Managed(created') /\ created' \in BOOLEAN
          /\ device' \in DeviceAfter(created')
        BY <1>5 DEF ManageDevice, Manage
    <2>2. established # {} /\ created => created'
        BY <2>1 DEF Managed, DhcpTypeOK
    <2>3. CASE established = {}
        <3>1. created' => created
            BY <2>1, <2>3 DEF Managed, DhcpTypeOK
        <3>2. ~bonding /\ created' => device' = device
            BY <2>1, <2>3 DEF DeviceAfter
        <3>3. DeviceInv'
            BY <1>1, <1>3, <2>1, <2>3, <3>1, <3>2 DEF UserInv, DeviceInv
        <3> QED
            BY <1>1, <1>2, <1>3, <2>1, <2>3, <3>3 DEF DhcpInv, UserInv
    <2>4. CASE established # {}
        <3>1. created => device' = device
            BY <2>1, <2>4 DEF DeviceAfter
        <3>2. ~created => device' = (created' \/ device)
            BY <2>1, <2>4, Zenon DEF DeviceAfter
        <3>3. DeviceInv'
            BY <1>1, <1>3, <2>1, <2>2, <3>1, <3>2 DEF UserInv, DeviceInv
        <3> QED
            BY <1>1, <1>2, <1>3, <2>1, <2>2, <2>4, <3>3 DEF DhcpInv, UserInv
    <2> QED
        BY <2>3, <2>4
<1> QED
    BY <1>4, <1>5

\* The reset at the end of a session.
LEMMA ResetKeepsInv ==
    ASSUME DhcpTypeOK, DhcpInv, ResetUsers
    PROVE  DhcpInv' /\ (ToldDown(V4) => V4 \in announced)
<1>1. /\ phase = "reset" /\ phase' = "device" /\ created' = created
      /\ established' = established
      /\ UNCHANGED <<bonding, device, misread, expired>>
    BY DEF ResetUsers, Reset
<1>2. UserInv /\ DeviceInv /\ ToldInv /\ NoStrayClient
    BY DEF DhcpInv
<1>3. CASE Over
    <2>1. /\ client' = [f \in Families |-> "none"]
          /\ lease' = [f \in Families |-> NoLease]
          /\ orphans' = orphans \cup (Running \ EndedClients)
          /\ Tell({}, EndedLeases)
        BY <1>3 DEF ResetUsers, NoLeases
    <2>2. UserInv'
        BY <2>1 DEF UserInv
    <2>3. V4 \in EndedLeases <=> lease[V4] # NoLease
        BY <1>2 DEF EndedLeases, Held, Started, UserInv, Families
    <2>4. V4 \notin Running \ EndedClients
        BY DEF Running, EndedClients, Started, Killed, Families
    <2>5. /\ V4 \in announced' <=> V4 \in announced /\ V4 \notin EndedLeases
          /\ ToldDown(V4) <=> V4 \in EndedLeases
        BY <2>1 DEF Tell, ToldDown
    <2>6. ToldInv'
        BY <1>1, <1>2, <2>1, <2>3, <2>5 DEF ToldInv, Families
    <2>7. NoStrayClient'
        BY <1>1, <1>2, <2>1, <2>4 DEF NoStrayClient
    <2>8. ToldDown(V4) => V4 \in announced
        BY <1>2, <2>3, <2>5 DEF ToldInv
    <2>9. DeviceInv'
        BY <1>1, <1>2, <2>1, DeviceInvKept
    <2> QED
        BY <2>2, <2>6, <2>7, <2>8, <2>9 DEF DhcpInv
<1>4. CASE ~Over
    <2>1. Quiet /\ UNCHANGED <<client, lease, orphans>>
        BY <1>4 DEF ResetUsers, clientVars
    <2>2. event' = {} /\ announced' = announced
        BY <2>1 DEF Quiet
    <2>3. UserInv'
        BY <1>1, <1>2, <1>4, <2>1 DEF UserInv, Over
    <2>4. DeviceInv'
        BY <1>1, <1>2, <2>1, DeviceInvKept
    <2> QED
        BY <1>1, <2>1, <2>2, <2>3, <2>4, UntouchedKeepsTold DEF DhcpInv, ToldDown
<1> QED
    BY <1>3, <1>4

\* The blocks after the tunnel device, up to the expiry of leases.
LEMMA BlocksKeepInv ==
    ASSUME DhcpTypeOK, DhcpInv, Threads \/ Start4 \/ Wait4 \/ Start6 \/ Wait6
    PROVE  DhcpInv' /\ ~ToldDown(V4)
<1>1. phase = "users" /\ UNCHANGED <<bonding, phase, established, created, device>>
    BY DEF Threads, Start4, Wait4, Start6, Wait6, Block, lifecycleVars
<1>2. UserInv /\ DeviceInv /\ ToldInv /\ NoStrayClient /\ UserTypeOK
    BY TypeParts DEF DhcpInv
<1>3. CASE Threads
    <2>1. Quiet /\ UNCHANGED <<client, lease, orphans, misread, expired>>
        BY <1>3 DEF Threads, clientVars
    <2>2. event' = {} /\ announced' = announced
        BY <2>1 DEF Quiet
    <2>3. UserInv'
        BY <1>1, <1>2, <2>1 DEF UserInv
    <2>4. DeviceInv'
        BY <1>1, <1>2, <2>1, DeviceInvKept
    <2> QED
        BY <1>1, <2>1, <2>2, <2>3, <2>4, UntouchedKeepsTold DEF DhcpInv, ToldDown
<1>4. CASE Start4 \/ Start6
    <2>1. PICK f \in Families : Start(f)
        BY <1>4 DEF Start4, Start6, Families
    <2>2. /\ \A g \in Families : client'[g] = client[g]
                                   \/ (Wanted(g) /\ client'[g] = "running")
          /\ Quiet
          /\ UNCHANGED <<lease, orphans, misread, expired>>
        BY <1>2, <2>1, StartEffect
    <2>3. event' = {} /\ announced' = announced
        BY <2>2 DEF Quiet
    <2>4. UserInv'
        BY <1>1, <1>2, <2>2 DEF UserInv, Wanted
    <2>5. DeviceInv'
        BY <1>1, <1>2, <2>2, DeviceInvKept
    <2> QED
        BY <2>2, <2>3, <2>4, <2>5, UntouchedKeepsTold DEF DhcpInv, ToldDown
<1>5. CASE Wait4 \/ Wait6
    <2>1. PICK f \in Families : Wait(f)
        BY <1>5 DEF Wait4, Wait6, Families
    <2>2. /\ Same \/ \E t \in Nat \cup {NoLease} : Gone(f, t)
          /\ expired' = expired
          /\ misread \subseteq misread' /\ orphans' \ orphans \subseteq misread'
        BY <1>2, <2>1, WaitEffect
    <2>3. CASE Same
        <3>1. event' = {} /\ announced' = announced /\ lease' = lease
            BY <2>3 DEF Same, Quiet
        <3>2. UserInv'
            BY <1>1, <1>2, <2>3, <3>1 DEF UserInv, Same
        <3>3. \A g \in Families : client'[g] = "bound" => client[g] = "bound"
            BY <2>3 DEF Same
        <3>4. DeviceInv'
            BY <1>1, <1>2, <3>1, <3>3, DeviceInvKept
        <3> QED
            BY <2>2, <3>1, <3>2, <3>4, UntouchedKeepsTold DEF DhcpInv, ToldDown
    <2>4. ASSUME NEW t \in Nat \cup {NoLease}, Gone(f, t)
          PROVE  DhcpInv' /\ ~ToldDown(V4)
        <3>1. lease[f] = NoLease
            BY <1>2, <2>4 DEF UserInv, Gone
        <3>2. \A g \in Families :
                /\ client'[g] = IF g = f THEN "none" ELSE client[g]
                /\ lease'[g] = IF g = f THEN t ELSE lease[g]
            BY <1>2, <2>4 DEF Gone, UserTypeOK
        <3>3. t # NoLease => established # {} /\ device
            BY <1>1, <1>2, <2>4 DEF UserInv, DeviceInv, Gone, Reachable
        <3>4. created
            BY <1>2, <2>4 DEF UserInv, Gone
        <3>5. UserInv'
            BY <1>1, <1>2, <3>2, <3>3, <3>4 DEF UserInv
        <3>6. /\ V4 \in announced' <=> V4 \in announced \/ (f = V4 /\ t # NoLease)
              /\ ~ToldDown(V4)
            BY <2>4 DEF Gone, Quiet, Tell, ToldDown, NoLease
        <3>7. ToldInv'
            BY <1>2, <2>2, <3>1, <3>2, <3>6 DEF ToldInv, Families
        <3>8. NoStrayClient'
            BY <1>2, <2>2 DEF NoStrayClient
        <3>9. DeviceInv'
            BY <1>1, <1>2, <3>2, <3>3, DeviceInvKept
        <3> QED
            BY <3>5, <3>6, <3>7, <3>8, <3>9 DEF DhcpInv
    <2> QED
        BY <2>2, <2>3, <2>4
<1> QED
    BY <1>3, <1>4, <1>5

\* The expiry of leases.
LEMMA ExpiryKeepsInv ==
    ASSUME DhcpTypeOK, DhcpInv, Expiry
    PROVE  DhcpInv' /\ (ToldDown(V4) => V4 \in announced)
<1>1. /\ UNCHANGED <<bonding, phase, established, created, device, client, orphans,
                     misread>>
      /\ lease' = [f \in Families |-> IF f \in Cleared THEN NoLease ELSE lease[f]]
      /\ Tell({}, OverLeases) /\ expired' = expired \cup OverLeases
    BY DEF Expiry, Block, lifecycleVars
<1>2. UserInv /\ DeviceInv /\ ToldInv /\ NoStrayClient
    BY DEF DhcpInv
<1>3. UserInv'
    BY <1>1, <1>2 DEF UserInv
<1>4. /\ V4 \in announced' <=> V4 \in announced /\ V4 \notin OverLeases
      /\ ToldDown(V4) <=> V4 \in OverLeases
    BY <1>1 DEF Tell, ToldDown
<1>5. V4 \in OverLeases => lease[V4] # NoLease /\ V4 \in Cleared
    BY DEF OverLeases, Cleared, NoLease
<1>6. V4 \in Cleared => V4 \in OverLeases \/ V6 \in OverLeases
    BY DEF OverLeases, Cleared, Families
<1>7. V4 \in Families /\ (lease'[V4] # NoLease <=> lease[V4] # NoLease /\ V4 \notin Cleared)
    BY <1>1 DEF Families
<1>8. ToldInv'
    BY <1>1, <1>2, <1>4, <1>5, <1>6, <1>7 DEF ToldInv
<1>9. DeviceInv'
    BY <1>1, <1>2, DeviceInvKept
<1> QED
    BY <1>1, <1>2, <1>3, <1>4, <1>5, <1>8, <1>9 DEF DhcpInv, ToldInv, NoStrayClient

\* The end of the pass, or of the program.
LEMMA PassEndKeepsInv ==
    ASSUME DhcpTypeOK, DhcpInv, AgainPass \/ Shutdown
    PROVE  DhcpInv' /\ (ToldDown(V4) => V4 \in announced)
<1>1. created' = created /\ UNCHANGED <<misread, expired>>
    BY DEF AgainPass, Shutdown, NextPass, Exit
<1>2. UserInv /\ DeviceInv /\ ToldInv /\ NoStrayClient
    BY DEF DhcpInv
<1>3. CASE AgainPass
    <2>1. /\ Quiet /\ phase = "users" /\ phase' = "session"
          /\ UNCHANGED <<bonding, device, client, lease, orphans>>
        BY <1>3 DEF AgainPass, NextPass, clientVars
    <2>2. event' = {} /\ announced' = announced
        BY <2>1 DEF Quiet
    <2>3. UserInv'
        BY <1>1, <1>2, <2>1 DEF UserInv
    <2>4. DeviceInv'
        BY <1>1, <1>2, <2>1, DeviceInvKept
    <2> QED
        BY <1>1, <2>1, <2>2, <2>3, <2>4, UntouchedKeepsTold DEF DhcpInv, ToldDown
<1>4. CASE Shutdown
    <2>1. /\ client' = [f \in Families |-> "none"]
          /\ lease' = [f \in Families |-> NoLease]
          /\ orphans' = orphans \cup (Running \ ExitEnded)
          /\ Tell({}, Held)
          /\ phase' = "exited"
        BY <1>4 DEF Shutdown, Exit
    <2>2. UserInv'
        BY <2>1 DEF UserInv
    <2>3. V4 \in Held <=> lease[V4] # NoLease
        BY DEF Held, Families
    <2>4. V4 \notin Running \ ExitEnded
        BY DEF Running, ExitEnded, Started, Killed, Families
    <2>5. /\ V4 \in announced' <=> V4 \in announced /\ V4 \notin Held
          /\ ToldDown(V4) <=> V4 \in Held
        BY <2>1 DEF Tell, ToldDown
    <2>6. ToldInv'
        BY <1>1, <1>2, <2>1, <2>3, <2>5 DEF ToldInv, Families
    <2>7. NoStrayClient'
        BY <1>1, <1>2, <2>1, <2>4 DEF NoStrayClient
    <2>8. DeviceInv'
        BY <2>1 DEF DeviceInv
    <2> QED
        BY <1>2, <2>2, <2>3, <2>5, <2>6, <2>7, <2>8 DEF DhcpInv, ToldInv
<1> QED
    BY <1>3, <1>4

\* What happens outside the loop.
LEMMA OutsideKeepsInv ==
    ASSUME DhcpTypeOK, DhcpInv,
           Tick \/ (\E f \in Families : ClientEnds(f) \/ OrphanEnds(f))
    PROVE  DhcpInv' /\ ~ToldDown(V4)
<1>1. UserInv /\ DeviceInv /\ ToldInv /\ NoStrayClient /\ UserTypeOK
    BY TypeParts DEF DhcpInv
<1>2. CASE Tick
    <2>1. /\ \A g \in Families : (lease'[g] = NoLease) <=> (lease[g] = NoLease)
          /\ event' = {}
          /\ UNCHANGED <<bonding, phase, established, created, device, client,
                         orphans, announced, misread, expired>>
        BY <1>1, <1>2, TickEffect DEF lifecycleVars
    <2>2. UserInv'
        BY <1>1, <2>1 DEF UserInv
    <2>3. ToldInv' /\ NoStrayClient'
        BY <1>1, <2>1 DEF ToldInv, NoStrayClient, Families
    <2>4. DeviceInv'
        BY <1>1, <2>1, DeviceInvKept
    <2> QED
        BY <2>1, <2>2, <2>3, <2>4 DEF DhcpInv, ToldDown
<1>3. ASSUME NEW f \in Families, ClientEnds(f)
      PROVE  DhcpInv' /\ ~ToldDown(V4)
    <2>1. /\ \A g \in Families : /\ (client'[g] = "none") <=> (client[g] = "none")
                                 /\ client'[g] = "bound" =>
                                      client[g] = "bound" \/ Reachable
          /\ event' = {}
          /\ UNCHANGED <<bonding, phase, established, created, device, lease, orphans,
                         announced, misread, expired>>
        BY <1>1, <1>3, ClientEndsEffect DEF lifecycleVars
    <2>2. UserInv'
        BY <1>1, <2>1 DEF UserInv, Reachable
    <2>3. DeviceInv'
        BY <1>1, <2>1, DeviceInvKept DEF Reachable
    <2> QED
        BY <2>1, <2>2, <2>3, UntouchedKeepsTold DEF DhcpInv, ToldDown
<1>4. ASSUME NEW f \in Families, OrphanEnds(f)
      PROVE  DhcpInv' /\ ~ToldDown(V4)
    <2>1. /\ orphans' \subseteq orphans /\ event' = {}
          /\ UNCHANGED <<bonding, phase, established, created, device, client, lease,
                         announced, misread, expired>>
        BY <1>4 DEF OrphanEnds, lifecycleVars
    <2>2. UserInv'
        BY <1>1, <2>1 DEF UserInv
    <2>3. DeviceInv'
        BY <1>1, <2>1, DeviceInvKept
    <2> QED
        BY <2>1, <2>2, <2>3, UntouchedKeepsTold DEF DhcpInv, ToldDown
<1> QED
    BY <1>2, <1>3, <1>4

LEMMA DhcpInvNext ==
    DhcpTypeOK /\ DhcpInv /\ [Next]_vars
      => DhcpInv' /\ [ToldDown(V4) => V4 \in announced]_vars
<1> SUFFICES ASSUME DhcpTypeOK, DhcpInv, [Next]_vars
             PROVE  DhcpInv' /\ [ToldDown(V4) => V4 \in announced]_vars
    OBVIOUS
<1>1. CASE UNCHANGED vars
    BY <1>1 DEF vars, dhcpVars, clientVars, tellVars, lifecycleVars, DhcpInv, UserInv,
                DeviceInv, ToldInv, NoStrayClient
<1>2. CASE OpenSession \/ ChangeTunnels \/ SettleSession \/ ManageDevice
    <2>1. ~ToldDown(V4)
        BY <1>2 DEF OpenSession, ChangeTunnels, SettleSession, ManageDevice,
                    Untouched, ToldDown
    <2> QED
        BY <1>2, <2>1, LoopKeepsInv
<1>3. CASE ~UNCHANGED vars
    BY <1>2, <1>3, ResetKeepsInv, BlocksKeepInv, ExpiryKeepsInv, PassEndKeepsInv,
       OutsideKeepsInv DEF Next, Loop, Outside, Stopped
<1> QED
    BY <1>1, <1>3

LEMMA DhcpSafe == Spec => [](DhcpTypeOK /\ DhcpInv)
<1>1. Init => DhcpTypeOK /\ DhcpInv
    BY DhcpInitType, DhcpInvInit
<1>2. DhcpTypeOK /\ DhcpInv /\ [Next]_vars => (DhcpTypeOK /\ DhcpInv)'
    BY DhcpNextType, DhcpInvNext
<1> QED
    BY <1>1, <1>2, PTL DEF Spec

\* A lease is held only while the tunnel device exists, and without bonding the
\* same is true of a client the loop knows of, whatever fails.
THEOREM DeviceUnderUsers == Spec => []UsersHaveDevice
BY DhcpSafe, DhcpInvImplies, PTL

\* No lease outlives its session.
THEOREM LeaseEndsWithSession == Spec => []LeaseHasSession
BY DhcpSafe, DhcpInvImplies, PTL

\* The loop never has the pid of a client and a lease of one family at once.
THEOREM NeverClientAndLease == Spec => []ClientOrLease
BY DhcpSafe, DhcpInvImplies, PTL

\* No udhcpc is left running that no pid names, unless it was misread.
THEOREM NoClientLeftBehind == Spec => []NoStrayClient
BY DhcpSafe, DhcpInvImplies, PTL

\* Until a v6 lease has run out, the v4 lease is announced exactly while it is
\* held.
THEOREM AnnouncementsAreTrue == Spec => []AnnouncedIffHeld
BY DhcpSafe, DhcpInvImplies, PTL

\* dhcpdown_ip follows dhcpup_ip, also after v6 leases have run out.
THEOREM DownOnlyAfterUp == Spec => DownAfterUp
BY DhcpSafe, DhcpInvNext, PTL DEF Spec, DownAfterUp

-----------------------------------------------------------------------------
(* The lease in the pipe of a client that has exited. *)

\* What the loop makes of a client that has left a lease: the wait takes the
\* lease, and no start replaces the client.
LEMMA WaitTakesLease ==
    ASSUME UserTypeOK, NEW f \in Families, NEW g \in Families, Wait(f)
    PROVE  ~LeaseLost(g)
<1> SUFFICES ASSUME client[g] = "bound", client'[g] # "bound" PROVE lease'[g] # NoLease
    BY DEF LeaseLost
<1> USE DEF UserTypeOK
<1>1. CASE Exited(f)
    <2>1. PICK t \in IF client[f] = "bound" THEN LeaseTimes[f] ELSE {NoLease} :
            Output(f, t)
        BY <1>1 DEF Exited
    <2>2. g = f
        BY <2>1 DEF Output
    <2>3. t \in Nat
        BY <2>1, <2>2, DhcpAssumption
    <2>4. lease'[g] = t
        BY <2>1, <2>2 DEF Output
    <2> QED
        BY <2>3, <2>4 DEF NoLease
<1>2. CASE Died(f)
    BY <1>2 DEF Died
<1>3. CASE StillThere(f)
    BY <1>3 DEF StillThere, clientVars
<1>4. CASE Misread(f)
    <2>1. client[f] \in {"running", "reaped"}
        BY <1>4 DEF Misread
    <2>2. client' = [client EXCEPT ![f] = "none"]
        BY <1>4 DEF Misread, Output
    <2> QED
        BY <2>1, <2>2
<1> QED
    BY <1>1, <1>2, <1>3, <1>4 DEF Wait

\* A lease that a client has obtained is lost only with the session or the
\* program, however the exits of clients and the blocks of the loop are mixed.
THEOREM LeaseLostOnlyWithSession == Spec => LostWithSession
<1>1. DhcpTypeOK /\ [Next]_vars
        => [\A f \in Families : LeaseLost(f) =>
              (phase = "reset" /\ established = {}) \/ phase' = "exited"]_vars
    <2> SUFFICES ASSUME DhcpTypeOK, Next, NEW g \in Families, LeaseLost(g)
                 PROVE  (phase = "reset" /\ established = {}) \/ phase' = "exited"
        BY DEF LeaseLost, vars, dhcpVars, clientVars
    <2>1. UserTypeOK
        BY TypeParts
    <2>2. client'[g] # client[g] /\ client[g] = "bound"
        BY DEF LeaseLost
    <2>3. CASE ResetUsers
        BY <2>2, <2>3 DEF ResetUsers, Reset, Over, clientVars
    <2>4. CASE Shutdown
        BY <2>4 DEF Shutdown, Exit
    <2>5. CASE Start4 \/ Start6
        <3>1. PICK f \in Families : Start(f)
            BY <2>5 DEF Start4, Start6, Families
        <3> QED
            BY <2>1, <2>2, <3>1, StartEffect DEF Wanted
    <2>6. CASE Wait4 \/ Wait6
        <3>1. PICK f \in Families : Wait(f)
            BY <2>6 DEF Wait4, Wait6, Families
        <3> QED
            BY <2>1, <3>1, WaitTakesLease
    <2>7. ASSUME NEW f \in Families, ClientEnds(f)
          PROVE  FALSE
        <3>1. PICK end : client' = [client EXCEPT ![f] = end]
            BY <2>7 DEF ClientEnds
        <3>2. client[f] = "running" /\ client \in [Families -> Statuses]
            BY <2>1, <2>7 DEF ClientEnds, UserTypeOK
        <3> QED
            BY <2>2, <3>1, <3>2
    <2>8. CASE \/ SettleSession \/ ManageDevice \/ Threads \/ Expiry \/ AgainPass
               \/ OpenSession \/ ChangeTunnels \/ Tick \/ Stopped
               \/ \E f \in Families : OrphanEnds(f)
        <3>1. client' = client
            BY <2>8 DEF SettleSession, ManageDevice, Threads, Expiry, AgainPass,
                        OpenSession, ChangeTunnels, Tick, Stopped, OrphanEnds,
                        Untouched, vars, dhcpVars, clientVars
        <3> QED
            BY <2>2, <3>1
    <2> QED
        BY <2>3, <2>4, <2>5, <2>6, <2>7, <2>8 DEF Next, Loop, Outside
<1> QED
    BY <1>1, DhcpTypeCorrect, PTL DEF Spec, LostWithSession
=============================================================================
