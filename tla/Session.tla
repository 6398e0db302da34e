------------------------------ MODULE Session ------------------------------
(***************************************************************************)
(* The control plane of OpenHybrid: the single thread that loops over      *)
(* recvfrom(), process_grecpmessage() and execute_timers() in              *)
(* src/openhybrid.c, with the GRECP message handlers it calls.             *)
(*                                                                         *)
(* One pass of the loop is a walk of pc through the blocks of              *)
(* execute_timers(); each block is one action, so that the clock, a signal *)
(* and the outside world can move between two blocks.  The HAAP (the       *)
(* server) and the network are external: a reply to any message ever sent  *)
(* may arrive at any later time, any number of times, or never.            *)
(***************************************************************************)
EXTENDS Integers

CONSTANTS
    Bonding,         \* runtime.bonding
    Sessions,        \* the bonding sessions a HAAP may open
    NoSession,       \* a session id or bonding key of 0
    Anycast,         \* runtime.haap.anycast_ip
    Offer,           \* what the accept of a session pushes, see Offers
    ConfInterval,    \* "active hello interval" of the config file, 0 if unset
    ConfRetries,     \* "hello retry times" of the config file, 0 if unset
    MaxMissed,       \* the largest value of missed_hellos, a uint8_t
    AcceptsClosed,   \* may the HAAP accept into a session it has torn down?
    FilterLists,     \* the commit counts of the filter lists a HAAP may push
    DeviceFaults,    \* the operations on the tunnel device that may fail
    MaxTime          \* bound: the clock stops here

LTE == "lte"
DSL == "dsl"
Tunnels == {LTE, DSL}

Offers == [ip : {Offer[s].ip : s \in Sessions}, interval : Nat \ {0},
           retries : Nat \ {0}, bypass : Nat \ {0}]

ASSUME SessionAssumption ==
    /\ Bonding \in BOOLEAN /\ AcceptsClosed \in BOOLEAN
    /\ NoSession \notin Sessions
    /\ Offer \in [Sessions -> Offers]
    /\ \A s \in Sessions : Offer[s].ip # Anycast
    /\ ConfInterval \in Nat /\ ConfRetries \in Nat /\ MaxMissed \in Nat
    /\ FilterLists \subseteq Nat \ {0}
    /\ DeviceFaults \subseteq {"create", "destroy", "netlink"}
    /\ MaxTime \in Nat

VARIABLES
    pc,                            \* the next block of the loop
    established,                   \* the tunnels with tunnel_established
    last_hello_sent,               \* per tunnel, in seconds of uptime
    last_hello_received,           \* per tunnel, the timestamp last echoed
    missed_hellos,                 \* per tunnel
    interface_ip,                  \* the tunnels whose interface has an address
    haap,                          \* runtime.haap, what the HAAP told us
    filter_list_acked,
    tunnel_verification_required,
    last_bypass_traffic_sent,
    tunnel_interface_created,
    signal,                        \* a termination signal is pending
    now,                           \* external: CLOCK_MONOTONIC
    device,                        \* external: the kernel's tunnel device
    requests,                      \* external: the setup requests the HAAP may
                                   \* have accepted so far
    hellos,                        \* external: the hellos sent so far
    event,                         \* history: the event the last step triggered
    heard,                         \* history: when a tunnel last proved alive
    joined                         \* history: the session a tunnel was accepted in

tunnelVars == <<established, last_hello_sent, last_hello_received, missed_hellos>>
notifyVars == <<filter_list_acked, tunnel_verification_required>>
deviceVars == <<tunnel_interface_created, device>>
netVars    == <<requests, hellos>>
history    == <<heard, joined>>
vars == <<pc, tunnelVars, interface_ip, haap, notifyVars,
          last_bypass_traffic_sent, deviceVars, signal, now, netVars, event,
          history>>

\* The device create_tunnel_dev() makes: a tun device knows no session, the key
\* and the remote address of a GRE device are those of the session.
Device(kind, key, remote) == [kind |-> kind, key |-> key, remote |-> remote]
NoDevice == Device("none", NoSession, Anycast)
DeviceOf(h) == IF Bonding THEN Device("tun", NoSession, Anycast)
               ELSE Device("gre", h.bonding_key, h.ip)

NoHaap == [ip |-> Anycast, session_id |-> NoSession, bonding_key |-> NoSession,
           active_hello_interval |-> ConfInterval,
           hello_retry_times |-> ConfRetries,
           bypass_interval |-> 0, commit_count |-> 0]

Init ==
    /\ pc = "recv"
    /\ established = {}
    /\ last_hello_sent = [t \in Tunnels |-> 0]
    /\ last_hello_received = [t \in Tunnels |-> 0]
    /\ missed_hellos = [t \in Tunnels |-> 0]
    /\ interface_ip = {}
    /\ haap = NoHaap
    /\ filter_list_acked = FALSE
    /\ tunnel_verification_required = FALSE
    /\ last_bypass_traffic_sent = 0
    /\ tunnel_interface_created = FALSE
    /\ signal = FALSE
    /\ now = 0
    /\ device = NoDevice
    /\ requests = {}
    /\ hellos = {}
    /\ event = "startup"
    /\ heard = [t \in Tunnels |-> 0]
    /\ joined = [t \in Tunnels |-> NoSession]

-----------------------------------------------------------------------------
(* The loop and the messages it processes. *)

Block(from, to) == pc = from /\ pc' = to /\ event' = "none"

\* main() drops a packet whose source is not runtime.haap.ip,
\* process_grecpmessage() one whose key is not the bonding key.
\* Mutant: the source address is not checked.
AnySource(source) == TRUE
FromHaap(source) == source = haap.ip
KeyValid(key) == key = haap.bonding_key

\* recvfrom() timed out, was interrupted or gave a packet that is discarded, or
\* the message is a deny, or a notify that has no handler: nothing changes.
ReceiveNothing ==
    /\ Block("recv", "connect")
    /\ UNCHANGED <<tunnelVars, interface_ip, haap, notifyVars,
                   last_bypass_traffic_sent, deviceVars, signal, now, netVars,
                   history>>

\* The accept that answers request r.  Only the answer to a request without a
\* session id carries the address, the session id and the key; the key of an
\* accept is not checked.  Hello settings are taken only while they are unset.
HandleAccept(r, s) ==
    /\ Block("recv", "connect")
    /\ FromHaap(r.to)
    /\ r.session_id # NoSession => s = r.session_id
    /\ LET new == r.session_id = NoSession
           Unset(old, pushed) == IF old = 0 THEN pushed ELSE old
       IN haap' = [haap EXCEPT
                     !.ip = IF new THEN Offer[s].ip ELSE @,
                     !.session_id = IF new THEN s ELSE @,
                     !.bonding_key = IF new THEN s ELSE @,
                     !.active_hello_interval = Unset(@, Offer[s].interval),
                     !.hello_retry_times = Unset(@, Offer[s].retries),
                     !.bypass_interval = Offer[s].bypass]
    /\ established' = established \cup {r.tunnel}
    /\ last_hello_sent' = [last_hello_sent EXCEPT ![r.tunnel] = now]
    /\ last_hello_received' = [last_hello_received EXCEPT ![r.tunnel] = now]
    /\ heard' = IF r.tunnel \in established THEN heard
                ELSE [heard EXCEPT ![r.tunnel] = now]
    /\ joined' = [joined EXCEPT ![r.tunnel] = s]
    /\ UNCHANGED <<missed_hellos, interface_ip, notifyVars,
                   last_bypass_traffic_sent, deviceVars, signal, now, netVars>>

\* The echo of hello h.
HandleHello(h) ==
    /\ Block("recv", "connect")
    /\ FromHaap(h.to)
    /\ KeyValid(h.key)
    /\ last_hello_received' = [last_hello_received EXCEPT ![h.tunnel] = h.time]
    /\ missed_hellos' = [missed_hellos EXCEPT ![h.tunnel] = 0]
    /\ heard' = [heard EXCEPT ![h.tunnel] = now]
    /\ UNCHANGED <<established, last_hello_sent, interface_ip, haap, notifyVars,
                   last_bypass_traffic_sent, deviceVars, signal, now, netVars,
                   joined>>

\* A teardown of session s ends both tunnels.
HandleTeardown(s) ==
    /\ Block("recv", "connect")
    /\ FromHaap(Offer[s].ip)
    /\ KeyValid(s)
    /\ established' = {}
    /\ UNCHANGED <<last_hello_sent, last_hello_received, missed_hellos,
                   interface_ip, haap, notifyVars, last_bypass_traffic_sent,
                   deviceVars, signal, now, netVars, history>>

\* A notify of session s that pushes a filter list ...
HandleFilterList(s, commit) ==
    /\ Block("recv", "connect")
    /\ FromHaap(Offer[s].ip)
    /\ KeyValid(s)
    /\ haap' = [haap EXCEPT !.commit_count = commit]
    /\ filter_list_acked' = FALSE
    /\ UNCHANGED <<tunnelVars, interface_ip, tunnel_verification_required,
                   last_bypass_traffic_sent, deviceVars, signal, now, netVars,
                   history>>

\* ... or asks the client to verify its tunnel.
HandleVerification(s) ==
    /\ Block("recv", "connect")
    /\ FromHaap(Offer[s].ip)
    /\ KeyValid(s)
    /\ tunnel_verification_required' = TRUE
    /\ UNCHANGED <<tunnelVars, interface_ip, haap, filter_list_acked,
                   last_bypass_traffic_sent, deviceVars, signal, now, netVars,
                   history>>

Receive ==
    \/ ReceiveNothing
    \/ \E r \in requests, s \in Sessions : HandleAccept(r, s)
    \/ \E h \in hellos : HandleHello(h)
    \/ \E s \in Sessions : HandleTeardown(s)
    \/ \E s \in Sessions, c \in FilterLists : HandleFilterList(s, c)
    \/ \E s \in Sessions : HandleVerification(s)

-----------------------------------------------------------------------------
(* The blocks of execute_timers(), in their order. *)

\* send_grecpmessage() fails without a source address, and may fail with one.
SendResults(t) == IF t \in interface_ip THEN BOOLEAN ELSE {FALSE}

\* The request of send_grecprequest(): it names the session if there is one.
Request(t) == [tunnel |-> t, session_id |-> haap.session_id, to |-> haap.ip]

\* get_primary_ip6(): an interface has a global address at the moment, or none.
Get_primary_ip6(interfaces) == SUBSET interfaces

\* Update the interface addresses, then ask for the tunnel that is missing:
\* LTE first, DSL once LTE is up.
Used == IF Bonding THEN Tunnels ELSE {LTE}
\* Mutant: both tunnels are asked for at once.
AllMissing == Used \ established
Missing == IF LTE \notin established THEN {LTE} ELSE Used \ established

\* Between a teardown and the reset in the same pass the client still asks for
\* the session that is gone.
SessionOpen == established # {} \/ haap.session_id = NoSession \/ AcceptsClosed

Connect ==
    /\ Block("connect", "notify")
    /\ interface_ip' \in Get_primary_ip6(Used)
    /\ \E accepted \in SUBSET {t \in Missing \cap interface_ip' : SessionOpen} :
         requests' = requests \cup {Request(t) : t \in accepted}
    /\ UNCHANGED <<tunnelVars, haap, notifyVars, last_bypass_traffic_sent,
                   deviceVars, signal, now, hellos, history>>

\* Ack a filter list that is not acked, answer a tunnel verification request.
Notify ==
    /\ Block("notify", "hello")
    /\ IF LTE \in established /\ haap.commit_count > 0 /\ ~filter_list_acked
       THEN filter_list_acked' \in SendResults(LTE)
       ELSE UNCHANGED filter_list_acked
    /\ IF LTE \in established /\ tunnel_verification_required
       THEN \E ok \in SendResults(LTE) : tunnel_verification_required' = ~ok
       ELSE UNCHANGED tunnel_verification_required
    /\ UNCHANGED <<tunnelVars, interface_ip, haap, last_bypass_traffic_sent,
                   deviceVars, signal, now, netVars, history>>

\* Send the hellos that are due and count those the last one of which was not
\* echoed.  The time of a hello is recorded whether or not it could be sent.
\* Mutant: <= instead of <.
HelloDueEarly(t) == /\ t \in established
                    /\ last_hello_sent[t] + haap.active_hello_interval <= now
HelloDue(t) == /\ t \in established
               /\ last_hello_sent[t] + haap.active_hello_interval < now

Answered(t) == last_hello_received[t] = last_hello_sent[t]

\* missed_hellos is a uint8_t.
\* Mutant: a wider counter.
Unbounded(count) == count + 1
OneMore(count) == (count + 1) % (MaxMissed + 1)

\* The hello of send_grecphello().
Hello(t) == [tunnel |-> t, key |-> haap.bonding_key, time |-> now, to |-> haap.ip]

SendHellos ==
    /\ Block("hello", "verdict")
    /\ missed_hellos' = [t \in Tunnels |->
         IF HelloDue(t) /\ ~Answered(t)
         THEN OneMore(missed_hellos[t]) ELSE missed_hellos[t]]
    /\ last_hello_sent' = [t \in Tunnels |->
         IF HelloDue(t) THEN now ELSE last_hello_sent[t]]
    /\ \E sent \in SUBSET {t \in interface_ip : HelloDue(t)} :
         hellos' = hellos \cup {Hello(t) : t \in sent}
    /\ UNCHANGED <<established, last_hello_received, interface_ip, haap,
                   notifyVars, last_bypass_traffic_sent, deviceVars, signal, now,
                   requests, history>>

\* Consider a tunnel dead that missed too many hellos.
Dead(t) == missed_hellos[t] >= haap.hello_retry_times

HelloVerdict ==
    /\ Block("verdict", "bypass")
    /\ established' = {t \in established : ~Dead(t)}
    /\ UNCHANGED <<last_hello_sent, last_hello_received, missed_hellos,
                   interface_ip, haap, notifyVars, last_bypass_traffic_sent,
                   deviceVars, signal, now, netVars, history>>

\* Report the bypass traffic over an established DSL tunnel.
Bypass ==
    /\ Block("bypass", "reset")
    /\ IF /\ DSL \in established
          /\ last_bypass_traffic_sent + haap.bypass_interval < now
       THEN \E ok \in SendResults(DSL) :
              last_bypass_traffic_sent' =
                IF ok THEN now ELSE last_bypass_traffic_sent
       ELSE UNCHANGED last_bypass_traffic_sent
    /\ UNCHANGED <<tunnelVars, interface_ip, haap, notifyVars, deviceVars, signal,
                   now, netVars, history>>

\* Reset the statistics of a tunnel that is down, provided that the tunnel
\* device exists, and forget the session once both tunnels are down.
Down == Tunnels \ established
\* Mutant: the statistics are never reset.
NoStale == {}
Stale == IF tunnel_interface_created THEN Down ELSE {}

\* Mutant: only LTE is looked at.
LteDown == LTE \notin established
SessionOver == established = {}

ResetState ==
    LET Cleared(f) == [t \in Tunnels |-> IF t \in Stale THEN 0 ELSE f[t]]
    IN /\ Block("reset", "device")
       /\ missed_hellos' = Cleared(missed_hellos)
       /\ last_hello_sent' = Cleared(last_hello_sent)
       /\ last_hello_received' = Cleared(last_hello_received)
       /\ tunnel_verification_required' =
            (tunnel_verification_required /\ LTE \notin Stale)
       /\ last_bypass_traffic_sent' =
            IF DSL \in Stale THEN 0 ELSE last_bypass_traffic_sent
       /\ IF SessionOver
          THEN /\ haap' = [haap EXCEPT !.ip = Anycast,
                             !.session_id = NoSession,
                             !.bonding_key = NoSession, !.commit_count = 0]
               /\ filter_list_acked' = FALSE
          ELSE UNCHANGED <<haap, filter_list_acked>>
       /\ UNCHANGED <<established, interface_ip, deviceVars, signal, now, netVars,
                      history>>

\* create_tunnel_dev(), which may fail.
CreateDevice(ok) ==
    /\ ok \/ "create" \in DeviceFaults
    /\ device' = IF ok THEN DeviceOf(haap) ELSE device
    /\ event' = IF ok THEN "tunnelup" ELSE "none"

\* destroy_tunnel_dev(): the kernel may refuse to remove a GRE device, and does if
\* there is none, which is reported; or the netlink socket cannot be opened, which
\* is taken for success.  A tun device is closed, even one that is closed already,
\* but destroy_tun_tunnel_dev() returns false.
Outcomes ==
    IF Bonding THEN {"done"}
    ELSE {IF device = NoDevice THEN "destroy" ELSE "done"}
           \cup ({"destroy", "netlink"} \cap DeviceFaults)
DestroyDevice(outcome) ==
    /\ device' = IF outcome = "done" THEN NoDevice ELSE device
    /\ event' = IF outcome = "done" THEN "tunneldown" ELSE "none"
\* Mutant: the negation is forgotten.
ReturnedFalse(outcome) == Bonding \/ outcome = "destroy"
ReturnedTrue(outcome) == ~Bonding /\ outcome # "destroy"

\* Create the tunnel device when the first tunnel is up, destroy it when the
\* last one is down.
FirstUp == established # {} /\ ~tunnel_interface_created
\* Mutant: the flag is not looked at.
NoneUp == established = {}
LastDown == established = {} /\ tunnel_interface_created

ManageDevice ==
    /\ pc = "device" /\ pc' = "signal"
    /\ \/ /\ FirstUp
          /\ \E ok \in BOOLEAN : /\ CreateDevice(ok)
                                 /\ tunnel_interface_created' = ok
       \/ /\ LastDown
          /\ \E outcome \in Outcomes :
               /\ DestroyDevice(outcome)
               /\ tunnel_interface_created' = ~ReturnedTrue(outcome)
       \/ /\ ~FirstUp /\ ~LastDown
          /\ event' = "none"
          /\ UNCHANGED deviceVars
    /\ UNCHANGED <<tunnelVars, interface_ip, haap, notifyVars,
                   last_bypass_traffic_sent, signal, now, netVars, history>>

\* A pending SIGINT or SIGTERM removes the device, whatever the outcome, and
\* ends the program.
\* Mutant: the signal is only handled with a device to remove.
ExitWithDevice == signal /\ tunnel_interface_created
MustExit == signal

Shutdown ==
    /\ pc = "signal" /\ MustExit
    /\ pc' = "exited"
    /\ IF tunnel_interface_created
       THEN \E outcome \in Outcomes : DestroyDevice(outcome)
       ELSE UNCHANGED device /\ event' = "none"
    /\ UNCHANGED <<tunnelVars, interface_ip, haap, notifyVars,
                   last_bypass_traffic_sent, tunnel_interface_created, signal,
                   now, netVars, history>>

NextPass ==
    /\ ~MustExit
    /\ Block("signal", "recv")
    /\ UNCHANGED <<tunnelVars, interface_ip, haap, notifyVars,
                   last_bypass_traffic_sent, deviceVars, signal, now, netVars,
                   history>>

Loop == \/ Receive \/ Connect \/ Notify \/ SendHellos \/ HelloVerdict \/ Bypass
        \/ ResetState \/ ManageDevice \/ Shutdown \/ NextPass

-----------------------------------------------------------------------------
(* What happens outside the loop. *)

\* handle_signal(), at any point of the loop.
HandleSignal ==
    /\ pc # "exited" /\ ~signal
    /\ signal' = TRUE
    /\ event' = "none"
    /\ UNCHANGED <<pc, tunnelVars, interface_ip, haap, notifyVars,
                   last_bypass_traffic_sent, deviceVars, now, netVars, history>>

Tick ==
    /\ now < MaxTime /\ pc # "exited"
    /\ now' = now + 1
    /\ event' = "none"
    /\ UNCHANGED <<pc, tunnelVars, interface_ip, haap, notifyVars,
                   last_bypass_traffic_sent, deviceVars, signal, netVars, history>>

Exited == pc = "exited" /\ UNCHANGED vars

Next == Loop \/ HandleSignal \/ Tick \/ Exited

Spec == Init /\ [][Next]_vars

\* Every call in the loop returns (recvfrom after one second at the latest), so
\* the loop keeps running.  Nothing is assumed of the HAAP or the network.
FairSpec == Spec /\ WF_vars(Loop)

-----------------------------------------------------------------------------
(* Properties. *)

Requests == [tunnel : Tunnels, session_id : Sessions \cup {NoSession},
             to : {Anycast} \cup {Offer[s].ip : s \in Sessions}]
Hellos == [tunnel : Tunnels, key : Sessions \cup {NoSession}, time : Nat,
           to : {Anycast} \cup {Offer[s].ip : s \in Sessions}]
Haaps == [ip : {Anycast} \cup {Offer[s].ip : s \in Sessions},
          session_id : Sessions \cup {NoSession},
          bonding_key : Sessions \cup {NoSession},
          active_hello_interval : Nat, hello_retry_times : Nat,
          bypass_interval : Nat, commit_count : Nat]
Devices == [kind : {"none", "tun", "gre"}, key : Sessions \cup {NoSession},
            remote : {Anycast} \cup {Offer[s].ip : s \in Sessions}]

\* Every variable has its type: in particular the counter of missed hellos,
\* incremented without a check in execute_timers(), stays a uint8_t.
TypeOK ==
    /\ pc \in {"recv", "connect", "notify", "hello", "verdict", "bypass", "reset",
               "device", "signal", "exited"}
    /\ established \subseteq Tunnels
    /\ last_hello_sent \in [Tunnels -> Nat]
    /\ last_hello_received \in [Tunnels -> Nat]
    /\ missed_hellos \in [Tunnels -> 0 .. MaxMissed]
    /\ interface_ip \subseteq Tunnels
    /\ haap \in Haaps
    /\ filter_list_acked \in BOOLEAN
    /\ tunnel_verification_required \in BOOLEAN
    /\ last_bypass_traffic_sent \in Nat
    /\ tunnel_interface_created \in BOOLEAN
    /\ signal \in BOOLEAN
    /\ now \in Nat
    /\ device \in Devices
    /\ requests \subseteq Requests
    /\ hellos \subseteq Hellos
    /\ event \in {"startup", "none", "tunnelup", "tunneldown"}
    /\ heard \in [Tunnels -> Nat]
    /\ joined \in [Tunnels -> Sessions \cup {NoSession}]

\* Whenever the loop waits for a message it knows a session - its id, its key
\* and the unicast address of the HAAP - exactly if a tunnel is up: an accept
\* cannot bring a tunnel up without the data of a session, however late it is,
\* and no way of losing the last tunnel leaves data behind that would turn the
\* next request into one for a dead session.
SessionIffUp ==
    pc = "recv" =>
      /\ (established = {}) <=> (haap.session_id = NoSession)
      /\ (established = {}) <=> (haap.bonding_key = NoSession)
      /\ (established = {}) <=> (haap.ip = Anycast)
      /\ established = {} => haap.commit_count = 0 /\ ~filter_list_acked

\* A second tunnel is only ever asked for in the name of a session, from the
\* HAAP that holds it; a request that opens a session is for LTE and goes to the
\* anycast address.  So the tunnels of a client cannot end up in two sessions
\* because two requests opened one each.
JoinNamesSession ==
    \A r \in requests : /\ (r.session_id = NoSession) <=> (r.to = Anycast)
                        /\ r.tunnel = DSL => r.session_id # NoSession

\* While a tunnel is up the session under it does not change: neither a late or
\* duplicated accept nor any other message moves the client to another HAAP,
\* session or key while traffic flows under the old ones.
SessionKept ==
    established # {} /\ established' # {} =>
      /\ haap'.ip = haap.ip
      /\ haap'.session_id = haap.session_id
      /\ haap'.bonding_key = haap.bonding_key
SessionStable == [][SessionKept]_vars

\* An established tunnel was accepted in the current session.  The accepts in
\* flight when a session ends must not bring up a tunnel of the next one.
TunnelsShareSession == \A t \in established : joined[t] = haap.bonding_key

\* Between two passes a device that the client takes to exist serves a session
\* with a tunnel, and carries the key and the remote address of that session,
\* never those of an earlier one: not even if a removal that was skipped and
\* taken for success has left the device of an earlier session in the kernel.
DeviceCarriesSession ==
    pc = "recv" /\ tunnel_interface_created =>
      established # {} /\ device = DeviceOf(haap)

\* As long as no removal is skipped, a device that the client does not know of
\* does not exist: a removal that the kernel refuses is tried again, and a
\* creation that fails leaves nothing behind.
NoDeviceLeft == ~tunnel_interface_created => device = NoDevice

\* Without bonding a device that the client takes to exist does exist, until the
\* program removes it and exits: the flag follows what the kernel answers, also
\* when creations and removals fail and are tried again, so that no session is
\* left without a device because an earlier one is thought to be there.
KnownDeviceExists ==
    tunnel_interface_created /\ pc # "exited" => device # NoDevice

\* Between two passes a tunnel that is down has no missed hellos left over that
\* would count against its next session ("reset stats in case of tear down,
\* hello failure and such").
StatsReset ==
    pc = "recv" => \A t \in Tunnels \ established : missed_hellos[t] = 0

\* A tunnel is considered dead only when nothing was heard of it - neither the
\* accept that brought it up nor an echo - for as long as the retries say,
\* although the echo of an old hello makes an answered hello count as missed.
DeadOnlyWhenSilent ==
    pc = "verdict" => \A t \in established \ established' :
      now - heard[t] >=
        (haap.hello_retry_times - 1) * (haap.active_hello_interval + 1)
SilenceBeforeDeath == [][DeadOnlyWhenSilent]_vars

\* The event script is told "tunneldown" only when a tunnel device goes away
\* ("Triggered when the tunnel device is destroyed").
TunneldownMeansDestroyed ==
    [][event' = "tunneldown" => device # NoDevice]_vars

\* A termination signal ends the program within the pass in which it arrives:
\* it stays pending, and the loop takes no step but forward to the exit.
Order == <<"recv", "connect", "notify", "hello", "verdict", "bypass", "reset",
           "device", "signal", "exited">>
Forward == \E i, j \in DOMAIN Order : pc = Order[i] /\ pc' = Order[j] /\ i <= j
ExitsThisPass == [][signal => signal' /\ Forward]_vars

\* A termination signal ends the program, in whatever state it arrives.
TerminationHonoured == signal ~> pc = "exited"

\* The loop keeps the promise that Lifecycle makes to the users of the tunnel: a
\* session opens only with an LTE tunnel and where none is known, its key stays
\* until the last tunnel is gone and is forgotten before the device is touched,
\* and in bonding mode the device, once made, is taken to exist for good - for
\* every order in which old and new messages arrive.
Phase == CASE pc \in {"reset", "device", "exited"} -> pc
           [] pc = "signal" -> "users"
           [] OTHER -> "session"
Promise == INSTANCE Lifecycle WITH
             bonding <- Bonding, phase <- Phase, key <- haap.bonding_key,
             created <- tunnel_interface_created
KeepsPromise == Promise!LifecycleSpec
=============================================================================
