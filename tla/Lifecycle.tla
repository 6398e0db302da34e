----------------------------- MODULE Lifecycle -----------------------------
(***************************************************************************)
(* What the control plane promises to the users of the tunnel device - the *)
(* DHCP clients and the data threads - about sessions, tunnels and the     *)
(* device, without hellos, messages or clocks.  Session implements it.     *)
(* Dhcp and DataPath take it for their environment.                        *)
(***************************************************************************)
CONSTANTS
    Sessions,    \* the bonding sessions a HAAP may open
    NoSession    \* a bonding key of 0

VARIABLES
    bonding,     \* runtime.bonding, fixed when the configuration is read
    phase,       \* the part of execute_timers() that is next
    established, \* the tunnels with tunnel_established
    key,         \* runtime.haap.bonding_key
    created      \* runtime.tunnel_interface_created

lifecycleVars == <<bonding, phase, established, key, created>>

LTE == "lte"
DSL == "dsl"
Tunnels == {LTE, DSL}

Phases == {"session", "reset", "device", "users", "exited"}

LifecycleInit ==
    /\ bonding \in BOOLEAN
    /\ phase = "session"
    /\ established = {}
    /\ key = NoSession
    /\ created = FALSE

\* A session opens with its LTE tunnel, and only when no other is known.
Open(s) ==
    /\ phase = "session" /\ established = {} /\ key = NoSession
    /\ established' = {LTE}
    /\ key' = s
    /\ UNCHANGED <<bonding, phase, created>>

\* Tunnels join and leave the session, possibly all of them.
Change ==
    /\ phase = "session" /\ established # {}
    /\ established' \in SUBSET Tunnels
    /\ UNCHANGED <<bonding, phase, key, created>>

Settle ==
    /\ phase = "session" /\ phase' = "reset"
    /\ UNCHANGED <<bonding, established, key, created>>

\* The session is forgotten once no tunnel is left.
Over == established = {}

Reset ==
    /\ phase = "reset" /\ phase' = "device"
    /\ key' = IF Over THEN NoSession ELSE key
    /\ UNCHANGED <<bonding, established, created>>

\* The device is made for the first tunnel and removed after the last.  Either
\* may fail and is tried again in the next pass; in bonding mode the removal
\* never counts as done.
Managed(c) ==
    CASE established # {} /\ ~created -> c \in BOOLEAN
      [] established = {} /\ created  -> c \in BOOLEAN /\ (bonding => c)
      [] OTHER                        -> c = created

Manage ==
    /\ phase = "device" /\ phase' = "users"
    /\ \E c \in BOOLEAN : Managed(c) /\ created' = c
    /\ UNCHANGED <<bonding, established, key>>

NextPass ==
    /\ phase = "users" /\ phase' = "session"
    /\ UNCHANGED <<bonding, established, key, created>>

Exit ==
    /\ phase = "users" /\ phase' = "exited"
    /\ UNCHANGED <<bonding, established, key, created>>

LifecycleNext ==
    \/ \E s \in Sessions : Open(s)
    \/ Change \/ Settle \/ Reset \/ Manage \/ NextPass \/ Exit

LifecycleSpec == LifecycleInit /\ [][LifecycleNext]_lifecycleVars
=============================================================================
