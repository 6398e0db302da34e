-------------------------------- MODULE Dhcp --------------------------------
(***************************************************************************)
(* The DHCP clients udhcpc and udhcpc6 that execute_timers() starts on the *)
(* tunnel device, waits for and kills, and the leases they obtain:         *)
(* src/dhcp.c and the DHCP blocks of src/openhybrid.c.                     *)
(*                                                                         *)
(* The rest of the loop is Lifecycle; the blocks that come after the       *)
(* tunnel device are a walk of block through the phase "users".  The       *)
(* clients are processes of their own and end whenever they like.          *)
(***************************************************************************)
EXTENDS Lifecycle, Integers

CONSTANTS
    LeaseTimes,  \* per family, the lease times in seconds a server may grant
    Faults       \* what may go wrong: "start" (pipe or fork fails), "crash" (a
                 \* client dies of a signal), "status" (the status waitpid()
                 \* left alone happens to look like that of an exit)

V4 == "v4"
V6 == "v6"
Families == {V4, V6}

ASSUME DhcpAssumption ==
    /\ LeaseTimes \in [Families -> SUBSET (Nat \ {0})]
    /\ Faults \subseteq {"start", "crash", "status"}

VARIABLES
    block,       \* the next block of the phase "users"
    client,      \* what became of the process that udhcpc(6)_pid names
    lease,       \* seconds left of the lease, 0 if it is over, or NoLease
    orphans,     \* external: the families of running clients no pid names
    device,      \* external: the tunnel device exists, a tun device only as
                 \* long as its descriptor is open
    event,       \* history: the events the last step triggered
    announced,   \* history: the families told up by dhcpup and not down since
    misread,     \* history: the families a running client of which was taken
                 \* for an exited one
    expired      \* history: the families a lease of which has run out

clientVars == <<client, lease, orphans>>
tellVars   == <<event, announced>>
dhcpVars   == <<block, clientVars, device, tellVars, misread, expired>>
vars       == <<lifecycleVars, dhcpVars>>

Blocks == {"threads", "start4", "wait4", "start6", "wait6", "expiry", "signal"}
Statuses == {"none",     \* pid 0
             "running",
             "bound",    \* it has exited, a lease is in its pipe
             "failed",   \* it has exited without a lease
             "killed",   \* it died of a signal
             "reaped"}   \* ... and waitpid() has said so

NoLease == -1

Init ==
    /\ LifecycleInit
    /\ block = "threads"
    /\ client = [f \in Families |-> "none"]
    /\ lease = [f \in Families |-> NoLease]
    /\ orphans = {} /\ device = FALSE
    /\ event = {} /\ announced = {}
    /\ misread = {} /\ expired = {}

\* trigger_event(): dhcpup for the families in ups, dhcpdown for those in downs.
Tell(ups, downs) ==
    /\ event' = ({"dhcpup"} \X ups) \cup ({"dhcpdown"} \X downs)
    /\ announced' = (announced \ downs) \cup ups
Quiet == event' = {} /\ UNCHANGED announced

Held == {f \in Families : lease[f] # NoLease}
Started == {f \in Families : client[f] # "none"}
Running == {f \in Families : client[f] = "running"}

-----------------------------------------------------------------------------
(* The loop up to the tunnel device. *)

Untouched ==
    /\ event' = {}
    /\ UNCHANGED <<block, clientVars, announced, misread, expired>>

OpenSession   == Untouched /\ (\E s \in Sessions : Open(s)) /\ UNCHANGED device
ChangeTunnels == Untouched /\ Change /\ UNCHANGED device
SettleSession == Untouched /\ Settle /\ UNCHANGED device

\* What becomes of the device if the flag becomes c: it is made, or not; a tun
\* device is closed although the flag stays; a GRE device is removed, or the
\* removal is refused, or skipped and taken for done.
DeviceAfter(c) ==
    IF established # {} /\ ~created THEN {c \/ device}
    ELSE IF established = {} /\ created
         THEN IF bonding THEN {FALSE} ELSE IF c THEN {device} ELSE {FALSE, device}
    ELSE {device}

ManageDevice ==
    /\ Untouched
    /\ Manage
    /\ device' \in DeviceAfter(created')

\* The clients that kill_udhcpc() and kill_udhcpc6() end, if pids are those of
\* the families in pids: kill_udhcpc6() looks at, and kills, udhcpc_pid.
\* Mutant: kill_udhcpc() looks at udhcpc6_pid.
KilledSwapped(pids) == pids \cap {V6}
Killed(pids) == pids \cap {V4}
Killed6(pids) == pids \cap {V4}

\* The reset of both families once the session is over.  A client is killed and
\* forgotten; by the time kill_udhcpc6() runs, udhcpc_pid is 0.  If there is no
\* client, dhcpdown_ip tells the end of a lease.  For dhcpdown_ip6 the code looks
\* at the time of the v4 lease, which is 0 by now.
EndedClients == Killed(Started) \cup Killed6(Started \ {V4})
\* Mutant: dhcpdown_ip looks at a lease that is cleared as well.
NoneEnded == {}
\* Mutant: dhcpdown_ip is triggered whether or not there is a lease.
AlwaysEnded == {V4}
EndedLeases == (Held \ Started) \cap {V4}
\* Mutant: the leases are kept.
KeptLeases == lease
NoLeases == [f \in Families |-> NoLease]

ResetUsers ==
    /\ Reset
    /\ IF Over
       THEN /\ client' = [f \in Families |-> "none"]
            /\ orphans' = orphans \cup (Running \ EndedClients)
            /\ lease' = NoLeases
            /\ Tell({}, EndedLeases)
       ELSE Quiet /\ UNCHANGED clientVars
    /\ UNCHANGED <<block, device, misread, expired>>

-----------------------------------------------------------------------------
(* The blocks after the tunnel device. *)

Block(from, to) ==
    /\ phase = "users" /\ block = from /\ block' = to
    /\ UNCHANGED <<lifecycleVars, device>>

\* The data threads are the subject of DataPath.
Threads ==
    /\ Block("threads", "start4")
    /\ Quiet
    /\ UNCHANGED <<clientVars, misread, expired>>

\* start_udhcpc() and start_udhcpc6(): a client is started on the device if there
\* is neither a lease nor a client.
\* Mutant: nobody looks whether there is a device.
WantedAnyway(f) == lease[f] = NoLease /\ client[f] = "none"
\* Mutant: a lease does not keep a client from being started.
WantedAlways(f) == created /\ client[f] = "none"
\* Mutant: a client does not keep another from being started.
WantedAgain(f) == created /\ lease[f] = NoLease
Wanted(f) == created /\ lease[f] = NoLease /\ client[f] = "none"

Start(f) ==
    /\ \E ok \in BOOLEAN :
         /\ ok \/ "start" \in Faults
         /\ client' = [client EXCEPT ![f] = IF Wanted(f) /\ ok THEN "running" ELSE @]
    /\ Quiet
    /\ UNCHANGED <<lease, orphans, misread, expired>>

\* process_udhcpc_output(): the pid is 0 by now, and the pipe holds a lease of t
\* seconds or none.  Without one the code leaves lease_time alone, which is 0 as
\* it has been since the client was started (ClientOrLease).
Output(f, t) ==
    /\ client' = [client EXCEPT ![f] = "none"]
    /\ lease' = [lease EXCEPT ![f] = t]
    /\ IF t = NoLease THEN Quiet ELSE Tell({f}, {})

\* A client gets a lease over the device and a tunnel only.
Reachable == device /\ established # {}

\* waitpid(WNOHANG) reports an exit ...
Exited(f) ==
    /\ client[f] \in {"bound", "failed"}
    /\ \E t \in IF client[f] = "bound" THEN LeaseTimes[f] ELSE {NoLease} :
         Output(f, t)
    /\ UNCHANGED <<orphans, misread, expired>>

\* ... or a death by a signal, which leaves the pid as it is ...
Died(f) ==
    /\ client[f] = "killed"
    /\ client' = [client EXCEPT ![f] = "reaped"]
    /\ Quiet
    /\ UNCHANGED <<lease, orphans, misread, expired>>

\* ... or nothing, and status is whatever the stack held: most likely no exit,
StillThere(f) ==
    /\ client[f] \in {"none", "running", "reaped"}
    /\ Quiet
    /\ UNCHANGED <<clientVars, misread, expired>>

\* but if it looks like one, the client is forgotten and its output is read,
\* with the lease in it or without.
Misread(f) ==
    /\ "status" \in Faults
    /\ client[f] \in {"running", "reaped"}
    /\ \E t \in {NoLease} \cup
              IF client[f] = "running" /\ Reachable
              THEN LeaseTimes[f] ELSE {} :
         Output(f, t)
    /\ orphans' = orphans \cup ({f} \cap Running)
    /\ misread' = misread \cup ({f} \cap Running)
    /\ UNCHANGED expired

\* Mutant: the wait is left out.
NoWait(f) == Quiet /\ UNCHANGED <<clientVars, misread, expired>>
Wait(f) == Exited(f) \/ Died(f) \/ StillThere(f) \/ Misread(f)

Start4 == Block("start4", "wait4") /\ Start(V4)
Wait4  == Block("wait4", "start6") /\ Wait(V4)
Start6 == Block("start6", "wait6") /\ Start(V6)
Wait6  == Block("wait6", "expiry") /\ Wait(V6)

\* "check if leases are still valid": an expired v6 lease is announced, and the
\* v4 lease is cleared in its place.
OverLeases == {f \in Families : lease[f] = 0}
Cleared == IF OverLeases # {} THEN {V4} ELSE {}

Expiry ==
    /\ Block("expiry", "signal")
    /\ lease' = [f \in Families |-> IF f \in Cleared THEN NoLease ELSE lease[f]]
    /\ Tell({}, OverLeases)
    /\ expired' = expired \cup OverLeases
    /\ UNCHANGED <<client, orphans, misread>>

AgainPass ==
    /\ block = "signal" /\ block' = "threads"
    /\ NextPass
    /\ Quiet
    /\ UNCHANGED <<clientVars, device, misread, expired>>

\* "kill udhcp(s)", tell the end of the leases, remove the device and exit.
ExitEnded == Killed(Started) \cup
             IF V6 \in Started THEN Killed6(Started) ELSE {}

Shutdown ==
    /\ block = "signal" /\ block' = "threads"
    /\ Exit
    /\ orphans' = orphans \cup (Running \ ExitEnded)
    /\ client' = [f \in Families |-> "none"]
    /\ lease' = [f \in Families |-> NoLease]
    /\ Tell({}, Held)
    /\ device' \in IF ~created THEN {device}
                  ELSE IF bonding THEN {FALSE} ELSE {FALSE, device}
    /\ UNCHANGED <<misread, expired>>

Loop == \/ SettleSession \/ ResetUsers \/ ManageDevice
        \/ Threads \/ Start4 \/ Wait4 \/ Start6 \/ Wait6 \/ Expiry
        \/ AgainPass \/ Shutdown

-----------------------------------------------------------------------------
(* The clients and the clock. *)

\* A client exits with a lease or without, or dies.
ClientEnds(f) ==
    /\ client[f] = "running"
    /\ \E end \in {"bound", "failed", "killed"} :
         /\ end = "bound" => Reachable
         /\ end = "killed" => "crash" \in Faults
         /\ client' = [client EXCEPT ![f] = end]
    /\ event' = {}
    /\ UNCHANGED <<lifecycleVars, block, lease, orphans, device, announced, misread,
                   expired>>

\* The last client of its family that no pid names exits, and nobody notices.
OrphanEnds(f) ==
    /\ f \in orphans
    /\ orphans' = orphans \ {f}
    /\ event' = {}
    /\ UNCHANGED <<lifecycleVars, block, client, lease, device, announced, misread,
                   expired>>

Tick ==
    /\ \E f \in Families : lease[f] > 0
    /\ lease' = [f \in Families |-> IF lease[f] > 0 THEN lease[f] - 1 ELSE lease[f]]
    /\ event' = {}
    /\ UNCHANGED <<lifecycleVars, block, client, orphans, device, announced, misread,
                   expired>>

Stopped == phase = "exited" /\ UNCHANGED vars

Outside == \/ OpenSession \/ ChangeTunnels \/ Tick
           \/ \E f \in Families : ClientEnds(f) \/ OrphanEnds(f)

Next == Loop \/ Outside \/ Stopped

Spec == Init /\ [][Next]_vars

\* The loop keeps running; of the clients and the server nothing is assumed.
FairSpec == Spec /\ WF_vars(Loop)

-----------------------------------------------------------------------------
(* Properties. *)

\* Every variable has its type.
DhcpTypeOK ==
    /\ bonding \in BOOLEAN /\ phase \in Phases /\ created \in BOOLEAN
    /\ established \subseteq Tunnels /\ key \in Sessions \cup {NoSession}
    /\ block \in Blocks
    /\ client \in [Families -> Statuses]
    /\ lease \in [Families -> Nat \cup {NoLease}]
    /\ orphans \subseteq Families /\ device \in BOOLEAN
    /\ announced \subseteq Families
    /\ misread \subseteq Families /\ expired \subseteq Families
    /\ event \subseteq {"dhcpup", "dhcpdown"} \X Families

\* A lease is held only while the tunnel device exists, and without bonding so is
\* a client the loop knows of: the loop puts an end to both before it destroys the
\* device, although the blocks look at different flags and the removal may fail or
\* be skipped.  In bonding mode this is not so of clients: once a session has
\* ended, tunnel_interface_created stays set without a device, and the loop starts
\* clients on a device that is gone, in every pass.
UsersHaveDevice ==
    /\ Held # {} => device
    /\ ~bonding /\ Started # {} => device

\* No lease outlives its session: once the reset is past, and until the next
\* message is looked at, a lease means that a tunnel is up.
LeaseHasSession == phase \in {"device", "users"} /\ Held # {} => established # {}

\* The loop never has a pid and a lease of one family at a time: it starts no
\* client for a family with a lease, and forgets the client once it has its lease,
\* however exits, expiries and resets interleave.  It is about the clients the loop
\* knows of: one it has lost track of - misread, or a udhcpc6 that a reset failed
\* to kill - may run beside a lease of its family.
ClientOrLease == Started \cap Held = {}

\* A udhcpc that runs is known by its pid, unless its status was misread: no
\* session and no shutdown leaves one behind that competes with the next.
NoStrayClient == V4 \in orphans => V4 \in misread

\* The event script is told dhcpdown_ip only after dhcpup_ip, once.
ToldDown(f) == <<"dhcpdown", f>> \in event'
DownAfterUp == [][ToldDown(V4) => V4 \in announced]_vars

\* As long as no v6 lease has run out, the script has been told dhcpup_ip and not
\* dhcpdown_ip exactly while there is a v4 lease: also when the session ends, a
\* client is misread or the program exits.
AnnouncedIffHeld == V6 \notin expired => (V4 \in announced <=> V4 \in Held)

\* The lease that a client has left in its pipe is lost only with the session, in
\* the reset of a pass without tunnels, or with the program: no other step
\* forgets the client before its lease is held, or replaces it.
LeaseLost(f) == client[f] = "bound" /\ client'[f] # "bound" /\ lease'[f] = NoLease
LostWithSession ==
    [][\A f \in Families : LeaseLost(f) =>
         (phase = "reset" /\ established = {}) \/ phase' = "exited"]_vars

\* The lease that a client has left in its pipe is taken, unless the tunnels go
\* down before: a client that exits between two looks at it is not missed.
BoundIsTaken ==
    \A f \in Families :
      client[f] = "bound" ~> f \in Held \/ established = {} \/ phase = "exited"
=============================================================================
