# A TLA+ model of OpenHybrid

OpenHybrid is a client for GRE tunnel bonding (RFC 8157): a daemon that sets up
an LTE tunnel, and in bonding mode a DSL tunnel beside it, with a server called
HAAP, keeps them alive with hellos, creates a tunnel device, runs DHCP clients
on it and, in bonding mode, moves the packets itself in two threads. This
directory holds TLA+ specifications of it, the TLC configurations that check
them on small instances, and proofs checked by TLAPS. `PROJECT.json` lists
components, runs, mutants, the source lines each definition models, findings,
hazards and theorems.

## 1. The system

| component | source | state | operations |
|---|---|---|---|
| control loop and session | `openhybrid.c`, `openhybrid.h` | `runtime.haap` (address, session id, bonding key, settings), the tunnel flags, `signal` | one pass: receive one message, run the blocks of `execute_timers()` |
| GRECP messages | `grecp*.c` | none of their own: they write `runtime` | check source and key; handle accept, deny, hello, teardown, notify; send request, hello, notify |
| hello keepalive | `grecp_hello.c`, `openhybrid.c:78-102` | `last_hello_sent`, `last_hello_received`, `missed_hellos` per tunnel | send when due, record an echo, give up a tunnel |
| tunnel device | `tundev.c` | `tunnel_interface_created`, the kernel's device, `sockfd_tun` | create and destroy a GRE or a tun device; open and close the data socket |
| DHCP clients and leases | `dhcp.c`, `openhybrid.c:132-149,181-229` | child pids, pipes, address, prefix, lease times | start, reap, kill; read a lease; expire it |
| data threads | `tun2gre.c`, `gre2tun.c`, `openhybrid.c:159-179` | thread handles, `sockfd_gre`, `sockfd_tun` | tun to GRE, GRE to tun |
| reorder buffer | `gre2tun.c:86-162` | `reorder_buffer`, `sequence_flushed` | add, flush in order, time out, drop late, compact |
| attribute codec | `grecp.c:20-49` | none | read and append one attribute |
| event script | `event.c` | none | fork and exec a script with the name of an event |
| configuration, logging, helpers | `config.c`, `logging.c`, `helpers.c` | `runtime`, once | parse, print, uptime, interface address |

One thread runs the loop: `recvfrom()` with a time-out of a second, at most one
message handled, then `execute_timers()` from top to bottom. Everything meets in
the global `runtime`. A signal handler sets `runtime.signal`. The data threads
read `runtime` without a lock. DHCP clients are child processes whose output
comes through a pipe; the event script is forked and forgotten.

What is hard here:

- *Messages late, twice, out of order, or never.* The protocol is on a raw socket.
  An accept is not bound to a key, and only the accept that opens a session
  says which; the client decides by source address and by what it remembers.
- *Order within a pass.* A teardown is handled first, the request goes out next,
  and the reset comes last, so a request can name a session that is over.
- *Time.* A hello counts as answered if two timestamps are equal; accept, hello
  and echo write them.
- *Partial failure.* The device cannot be created or removed, a message cannot
  be sent, and flags have to follow what really happened.
- *Numbers and time together.* The reorder buffer compares 32-bit sequence numbers,
  marks flushed packets by a size of zero and jumps from the time-outs back into
  the flushing loop.
- *Child processes.* A DHCP client exits or dies at any time; the loop polls for it,
  reads a status that may never have been written, and mixes up the two families.
- *Threads.* The sender thread reads key and address of the session, word by word and
  without a lock, while the loop ends it and writes the next. Whether a thread could be
  created is not looked at.

For each component, what makes it correct:

- session: known exactly while a tunnel is up; never exchanged under a tunnel;
  both tunnels in one session; one that is over is forgotten completely;
- hellos: no tunnel given up before the silence the settings stand for; counters
  of one tunnel do not weigh on the next one; the counter keeps its width;
- device: exists exactly while a tunnel is up and belongs to the session; events
  say what happened to it;
- loop: a termination signal ends the program;
- DHCP: clients and leases end with the session and before the device, no client is
  started or kept for a family with a lease, no client is forgotten, the script is told
  `dhcpup_ip` and `dhcpdown_ip` as the lease comes and goes;
- data path: a session with a device has threads, descriptors and a filter that
  carry it; a packet carries the key and the whole address of the session it is sent in;
- attributes: what is appended can be read again, also of a message that was cut, and
  reading always ends;
- reorder buffer: delivered sequence numbers only rise, each packet at most once,
  none is held longer than the time-out.

## 2. Modules

| module | what it is |
|---|---|
| `Session` | the control plane: the loop, the GRECP handlers, hellos, the session, the device, the signal |
| `MCSession` | instances of `Session` for TLC; used by the `Session*.cfg` |
| `SessionProofs` | theorems about `Session` for all values of its constants, checked by TLAPS |
| `Lifecycle` | what the control plane promises to the users of the tunnel device: sessions, tunnels, device, without messages and clocks |
| `LifecycleProofs` | the theorem that `Session` implements `Lifecycle` |
| `Dhcp` | the DHCP clients and leases of both families, over `Lifecycle` |
| `MCDhcp` | an instance of `Dhcp` for TLC |
| `DhcpProofs` | theorems about `Dhcp` |
| `DataPath` | tun descriptor, data socket, threads and the sender thread's reads, over `Lifecycle`; its `.cfg` uses it directly |
| `DataPathProofs` | theorems about `DataPath` |
| `ReorderBuffer` | the reorder buffer of the receiving thread; its `.cfg` files use it directly |
| `OrderedDelivery` | what the reorder buffer promises, without array, flags and modular numbers |
| `ReorderProofs` | theorems about `ReorderBuffer`, among them that it implements `OrderedDelivery` |
| `GrecpAttributes` | the attribute codec as operators on sequences of bytes, with its theorems; it has no run |
| `GrecpMessage` | a message from the attributes appended to it to those its handler is given |
| `GrecpMessageProofs` | the theorem about `GrecpMessage`, which has no run either |

### How the modules fit together

`Session` is far too detailed to be interleaved with clients and threads, and they
need little of it: who is up, the key, and whether the loop believes in a device.
`Lifecycle` says how these three change, and in which order within a pass.
`Session` is shown to implement it (`KeepsPromise`: model-checked in two runs
and proved for all constants), with the refinement mapping

| `Lifecycle` | `Session` |
|---|---|
| `phase` | the block `pc`: `reset`, `device`, `users` (from the end of the device block to the signal), `exited`, and `session` for all others |
| `key`, `created`, `bonding` | `haap.bonding_key`, `tunnel_interface_created`, `Bonding` |
| `established` | the same |

`Dhcp` and `DataPath` extend `Lifecycle`: their actions conjoin its actions with what
the same block does to clients, leases, descriptors and threads, and they split
the phase `users` into the blocks of `execute_timers()` that come after the device.
Neither changes a variable of `Lifecycle` in any other way, as the code's DHCP and
thread blocks write nothing the control plane reads. So what holds of `Dhcp` and
`DataPath` holds of the client: every behaviour of `Session` is one of `Lifecycle`.
`Lifecycle` allows more than the code, for instance tunnels that come and go in any
number per pass, or a DSL tunnel without bonding; the properties do not need to
know better.

### How `Session` corresponds to the code

`pc` names the next block of the loop; each block is one action, and in between
the clock may tick (`Tick`) and a signal may arrive (`HandleSignal`). The time
that passes inside a block is that of one tick or none.

| action | code |
|---|---|
| `Receive` = `ReceiveNothing`, `HandleAccept`, `HandleHello`, `HandleTeardown`, `HandleFilterList`, `HandleVerification` | `openhybrid.c:310-319`, `process_grecpmessage()` and the handlers |
| `Connect` | `openhybrid.c:55-65`, `send_grecprequest()`, `get_primary_ip6()` |
| `Notify` | `openhybrid.c:67-76` and the two senders of `grecp_notify.c` |
| `SendHellos`, `HelloVerdict` | `openhybrid.c:78-102`, `send_grecphello()` |
| `Bypass` | `openhybrid.c:104-107` |
| `ResetState` | `openhybrid.c:109-131` |
| `ManageDevice` | `openhybrid.c:152-157`, the creation and removal in `tundev.c` |
| `Shutdown`, `NextPass` | `openhybrid.c:231-277`, the loop |

State: `established`, `interface_ip` are the sets of tunnels with
`tunnel_established` and with an address. `last_hello_sent`,
`last_hello_received` and `missed_hellos` are functions of the tunnel. `haap` is
`runtime.haap`, whose `filter_list.commit_count` is the field `commit_count`. A
session id and a bonding key are the same model value, as one HAAP assigns both
when it opens a session. Time is in whole seconds, as in the code, which uses
`tv_sec` only.

The outside world: `requests` holds the requests that a HAAP may have accepted,
and `hellos` the hellos sent. An answer to any of them may arrive at any later
time, repeatedly or never; teardowns and notifies may arrive at any time with
the key and the address of any session, since a HAAP may send one again late.
The HAAP answers a request without a session id with any session, and with one
by an accept of that session. `AcceptsClosed` says whether a HAAP may still
accept into a session that has ended; `device` is what the kernel has.
`DeviceFaults` are the operations on it that may fail; the removal of a GRE device that is not
there always does, and closing a tun device always succeeds, also a second time.

History variables, read by no guard: `event` (the event the last step
triggered), `heard` (when a tunnel last proved alive), `joined` (the session in
which a tunnel was accepted).

Left out of these blocks: text, log output, the round trip time (only logged),
the payload of filter lists (the code ignores it), the link-failure message at
exit (nothing follows it). The DHCP clients and the threads, which `Shutdown` and
`ResetState` end too, are in `Dhcp` and `DataPath`.

### How `Dhcp` corresponds to the code

| action | code |
|---|---|
| `ResetUsers` | `openhybrid.c:124-149`, `kill_udhcpc()`, `kill_udhcpc6()` |
| `ManageDevice` | 152-157; what becomes of the device itself is `DeviceAfter` (`tundev.c`) |
| `Start4`, `Start6` | 182-183, 197-198, `start_udhcpc()`, `start_udhcpc6()` |
| `Wait4`, `Wait6` = `Exited`, `Died`, `StillThere`, `Misread` | 184-194, 199-209, `process_udhcpc_output()`, `process_udhcpc6_output()` |
| `Expiry` | 211-229 |
| `Shutdown` | 231-277 as far as clients and leases go |
| `ClientEnds`, `OrphanEnds`, `Tick` | the clients and the clock (external) |

`client[f]` is what became of the process whose pid is stored: a pid of zero is
`none`; an exited process keeps its lease in the pipe (`bound`) until it is looked at.
`lease[f]` counts down; 0 is a lease that is over and still stored, `NoLease` a
lease time of zero. `orphans` are the families of clients that run although no pid names
them. `created` is the loop's flag, `device` whether the device is there: in bonding mode the flag
stays set when the device is closed, and without bonding a device may stay when the flag is
cleared. A client gets a lease only over the device and a tunnel (`Reachable`). The code's mix-ups of the families are kept: `kill_udhcpc6()` kills the v4
pid, `dhcpdown_ip6` is guarded by the v4 lease time, an expired v6 lease clears the
v4 one. `waitpid()` leaves the status alone while the client runs: `Misread` is
the choice that the stack looks like an exit, `StillThere` that it does not.
`read()` on the pipe of a misread client waits for its next output or its end;
in the model that is when the loop takes the step, with a lease or without.

### How `DataPath` corresponds to the code

| action | code |
|---|---|
| `ReadAccept`, `StoreWord`, `OpenSession` | `grecp_accept.c:27-75`: the attributes of the accept that opens a session, then the flag |
| `ForgetSession`, `StoreWord`, `ResetSession` | `openhybrid.c:124-127` |
| `ManageTun` | 152-157 with `create_tun_tunnel_dev()` and `destroy_tun_tunnel_dev()` |
| `StartThreads`, `StopThreads`, `NoThreads`, `SocketFails` | 159-179, `open_gre_socket()`, `close_gre_socket()` |
| `Shutdown` | 246-258 |
| `ReadTun`, `CheckLte`, `ReadWord`, `Send` | `tun2gre_main()` and `send_gre()`, each read of `runtime` a step |

`words` is the memory the loop and the sender share: the bonding key and the two halves of the
HAAP address, each of which a 64-bit machine reads and writes at once. A session stands for its key in
the word of the key and for its address in the others; `NoSession` is the zero key and the
anycast address. `store` is what the loop is writing there: an accept copies its attributes in the
order in which the HAAP put them, the address half by half, the key first as it came
(`Raw`) and then converted by `ntohl()` (`grecp_accept.c:54-55`); the assignments of the reset
are taken in any order. `key` of `Lifecycle` changes with the flag of the tunnel and with the end of the
reset; the loop itself reads its own words only when they are complete. The accept that
carries key and address is handled only while no session is known: in `Session` that is what the check of
the source does, since such an accept comes from the anycast address (`SessionInv`); so words are not
written again within a session.

The words are taken to be read and written in the order of the code. The C standard does not
promise that of a data race. The build does, as far as the compiler is concerned: between the flag and the
words the code calls functions of other files (`read_grecpattribute()`, `logger()`), and the build has no
link-time optimisation. A processor that reorders stores, as ARM may, is outside the model.

`threads` are the handles that are not zero, `running` the threads that exist.
`pthread_create()` may fail, and leave the handle zero or not; nobody looks. A descriptor is unset (zero), open or closed; the code never
sets one back to zero, nor a thread handle. `filter` is the key the kernel lets
through, `AnyKey` if attaching the filter failed (it is only logged).

`ReadTun` does not ask for an open descriptor: a `read()` that waits keeps the device, and the
number of a closed descriptor may be that of another file.

Left out: the address of the interface, which the sender and the loop share in the same way
and which `Session` knows only as present or not, and `gre2tun`'s comparison of a packet's source
with the HAAP address.

A cancelled thread ends at its next cancellation point; the model lets it take no
further step. In bonding mode the case arises only at exit or before the threads have been
started, as the flag `tunnel_interface_created` is never cleared.

### How `GrecpAttributes` corresponds to the code

A buffer is the sequence of the bytes that are left of it, as in the loops
`while ((bytes_read = read_grecpattribute(buffer += bytes_read, size -= bytes_read, ...)) > 0)`;
`Remaining` is what such a loop goes on with. `WellFormed` is the conjunction of the
three tests of `read_grecpattribute()`. The second subtraction there is unsigned, but
the test before it has established that the size is not below the header, so it does
not wrap, and the model's integers agree with it.

`GrecpMessage` puts a message together and takes it apart with these operators: `Write` is
one `size += append_grecpattribute(...)` of a sender (the HAAP, or the client's own
`send_grecp*()`), `Receive` the `recvfrom()` of `main()`, which stores no more than
`MAX_PKT_SIZE` bytes and does not say that it cut the rest, with the subtraction of the
headers in `process_grecpmessage()`, and `Read` and `ReadNothing` are the two ends of the
loop condition. `sent` and `starts` are history.

### How `ReorderBuffer` corresponds to the code

One round of the loop `gre2tun.c:59-163` is a walk of `pc` through the steps below.
The control thread shares no variable with them, so a round is only interleaved
with the network and the clock.

| action | code |
|---|---|
| `Receive` | 67-101: a packet with a sequence number is appended to the array |
| `ReceiveNothing` | 60-90: the receive timed out, or the packet has no number |
| `ReadClock` | 103: `now` |
| `Flush`, `FlushedAll` | 106-122: one element in order is written and freed; no element is |
| `GiveUp`, `NoneExpired` | 124-134: an element timed out, one number is given up; none did |
| `Drop` | 136-162: late packets are freed, the front of the array is removed |

`buffer` is the array `reorder_buffer.packets`. An element's `live` is `size > 0`;
its `age` is `now` minus its timestamp, capped at the time-out. `scanned` is the
index `i` of the flushing loop, which decides which of two equal numbers is
found first. A packet stands for its place in the HAAP's stream; its sequence
number is that place modulo `Modulus` (2^32 in the code), and `sequence_flushed` is
kept and compared as the code does it. `next` and `out` are history: the place
that `sequence_flushed` stands for, and the packet written last.

`coming` is the network: any packet that may still arrive does so in any order, at
any time, or never. `Duplicates` lets it arrive again. `InOrderStart` says that
packet 0 arrives first.

Left out: errors of `write()` (logged only), rounds that a foreign packet or a
receive error ends early (they change nothing), and the mode without reordering
(a time-out of zero), in which the array stays empty. The model assumes that a
packet has a payload, that less than the time-out passes between the two
readings of the clock in a round (`Lag < Timeout`), and that allocation succeeds.

`OrderedDelivery` has only `next`, `held` and `out`, and three actions: a packet
whose turn is not over arrives and is held; the packet `next` is delivered; `next`
is given up because a later packet is held. The refinement mapping takes `held` to
the packets of live elements whose turn is not over.

## 3. Runs

The runs of `Session` instantiate `MCSession`. Two sessions suffice for a message of an
earlier session to arrive in a later one; nothing in the code looks back further
than one session.

| run | instance | shows |
|---|---|---|
| `session_gre` | LTE only, two sessions at one HAAP, one filter list, creation fails and removal is skipped at will, 4 s | `SessionIffUp`, `DeviceCarriesSession`, `SessionStable`, `KeepsPromise` |
| `session_hello` | LTE only, two sessions, removal fails at will, 6 s: with interval 1 and 2 retries enough to die, rejoin and hear echoes of the first tunnel | `StatsReset`, `SilenceBeforeDeath` |
| `session_bonding` | both tunnels, two sessions at a HAAP each, 1 retry, 4 s: each tunnel dies alone, both die, each rejoins, in the same session or the next | `TunnelsShareSession`, `SessionIffUp`, `JoinNamesSession`, `StatsReset`, `SessionStable`, `KeepsPromise` |
| `session_wrap` | LTE only, a counter that holds 0 and 1 and 2 retries, creation and removal fail at will, 6 s, under `FairSpec`: the counter wraps | `TypeOK`, `NoDeviceLeft`, `KnownDeviceExists`, `ExitsThisPass`, `TerminationHonoured` |
| `session_stale_stats` | as `session_hello`, creation fails | violation of `StatsReset`, see 5 |
| `session_tunneldown` | both tunnels | violation of `TunneldownMeansDestroyed`, see 5 |
| `session_late_accept` | both tunnels, two sessions at one HAAP | violation of `TunnelsShareSession`, see 5 |
| `reorder` | five packets, numbers modulo 8, time-out 3, lag 2, under `FairSpec` | `TypeOK`, `FreedOnce`, `GivenUpForHeld`, `DroppedOnlyLate`, `OutputRises`, `DeliversInOrder`, `NothingOverdue`, `NotHeldForever` |
| `dhcp` | both families, leases of a second, all faults, under `FairSpec` | `UsersHaveDevice`, `LeaseHasSession`, `ClientOrLease`, `NoStrayClient`, `AnnouncedIffHeld`, `DownAfterUp`, `LostWithSession`, `BoundIsTaken` |
| `datapath` | two sessions, each any number of times, all faults | `FirstSessionCarried`, `WholeInSession` |
| `reorder_start` | as `reorder`, any packet may be the first | violation of `DroppedOnlyLate`, see 5 |
| `reorder_duplicate` | as `reorder`, with duplicates | violation of `GivenUpForHeld`, see 5 |

The device can fail in three ways (`DeviceFaults`): it is not created; the kernel refuses to
remove it and the loop knows (`destroy`); or the removal is skipped because there is no
netlink socket, and reported as done (`netlink`, `tundev.c:90`). After the last one a device is
there that the client does not know of, so `NoDeviceLeft` is checked without it; its converse
`KnownDeviceExists` holds in all three. The next creation
finds that device and gives it the new key and address (`NLM_F_CREATE` without `NLM_F_EXCL`), so
`DeviceCarriesSession` holds with it; but not with a refused removal, after
which the old device serves the next session.

`MaxTime` is the only bound of `Session`: the clock stops there, the loop does not.
Sets of messages are bounded by it. Without it the specification is the one proved about
in `SessionProofs`, which uses no bound. `session_bonding` has the view `Unhistoric`, the state
without the histories `event` and `heard`: no action reads them and none of that
run's properties mentions them, so states that differ in them alone are equal for it. Deadlock is checked everywhere;
the program stops only in `Exited`.

The bounds of `ReorderBuffer` are `Stream`, the number of packets, and `Capacity`,
the length of the array, which is as large as the stream in `reorder`. Five packets
allow two gaps with packets held behind both, late packets among them, and
flushed elements kept behind live ones.

`Dhcp` needs no bound but the lease time: one session stands for all, as the reset
clears everything that belongs to one and nothing in the module looks at the key;
a lease of a second runs out before or after the other family's, the next pass and the end of
the session. `DataPath` has two sessions with a key and an address each, which come in any
order and any number of times: enough for a packet of words of two of them, and of none. What
distinguishes a third from the first two nobody looks at.

*Fairness.* In `Session` only `FairSpec` has any: `WF_vars(Loop)`. Every call of the loop
returns; `recvfrom()` does so after a second at the latest, and the model
assumes that the event script's first fork is reaped and netlink answers.
Nothing is assumed of the network, the HAAP or the clock. `session_wrap` is where it
is used.

`Dhcp` has `WF_vars(Loop)` likewise, for `BoundIsTaken`; clients, clock and tunnels owe
nothing. `waitpid()` does not wait; the `read()` of a client's output does so only for a
misread client, and ends when that writes or ends, which its options `-n -q` make it do.

`ReorderBuffer` has `WF_vars(Round)`, the steps of the thread other than receiving
a packet with a number, and `SF_vars(Tick)`, a clock that goes on. `recvfrom()`
returns after 100 ms at the latest, and nothing else in a round blocks; no packet
need ever arrive. Strong fairness of the clock is due to the model: time that
passes in a later part of a round is counted before the next round, so the clock
is not enabled all the time. Rounds that end early are taken not to go on for ever.

The mutants in `PROJECT.json` are the operators of `Session`, `Dhcp`, `DataPath` and `ReorderBuffer` that are commented
"Mutant"; each states a plausible bug (a dropped check of the source, a
forgotten negation, `<=` for `<`, a missing reset, a wider counter) under
which the named property fails.

## 4. Proofs

`SessionProofs` proves for every set of sessions, all settings, any `MaxTime`:

| theorem | statement | assumption |
|---|---|---|
| `TypeCorrect` | `[]TypeOK` | |
| `SessionSafety` | `[]SessionIffUp` | |
| `JoinsAreSafe` | `[]JoinNamesSession` | |
| `SessionNeverExchanged` | `SessionStable` | |
| `OneSessionForAll` | `[]TunnelsShareSession` | every session has an address of its own |
| `NoDeviceUnknown` | `[]NoDeviceLeft` | no removal is skipped, or bonding |
| `DeviceFollowsSession` | `[]DeviceCarriesSession` | not bonding; no removal is refused |
| `StatsAreReset` | `[]StatsReset` | creation does not fail |
| `NoEarlyDeath` | `SilenceBeforeDeath` | creation does not fail |
| `KnownIsThere` | `[]KnownDeviceExists` | not bonding |
| `SignalEndsPass` | `ExitsThisPass` | |

All of them rest on `SessionAssumption`, which says what a HAAP may push: its
own address is not the anycast address and its settings are not zero. The
assumptions in the last column are needed: the three violation runs and section 3 on
`DeviceFaults` say what happens without them.

*The argument.* None of the invariants is inductive.

- `SessionIffUp` speaks of the end of a pass. `SessionInv` says what carries it
  through the blocks: id, key and unicast address come and go together; a tunnel
  is only up in a session; from `ResetState` to the end of the pass no session
  outlives the last tunnel; and the requests in flight without a session are
  those sent to the anycast address (`JoinNamesSession`). An accept that changes
  the session answers such a request, so it passes the check of its source only
  while there is no session. That is also why the session is never exchanged.
- `ShareInv` adds that the accept of a request with a session comes from that
  session's HAAP; if addresses identify sessions, it is the current one.
- Flag and device change in `ManageDevice` and `Shutdown` only (`DeviceSteps`), and neither
  leaves a device without the flag unless a removal is skipped. The converse, `KnownDeviceExists`,
  needs no assumption on failures: without bonding the flag is cleared unless the kernel
  answered with an error, and then the device is still there. `DeviceInv`, which uses it (a
  removal is not refused for want of a device), follows device, flag and session through the five blocks from a lost tunnel to
  `ManageDevice`.
- `ExitsThisPass` is an action property: with a signal pending, each step keeps it pending and
  leads on to the next block, or to `exited` from the last; no step goes back to the start. It is the
  safety half of `TerminationHonoured`, which needs only a loop that goes on besides.
- `CountInv` bounds the count of missed hellos by time: a tunnel with `n > 0`
  missed hellos has been silent for `n - 1` intervals, up to its last hello.
  A late echo makes an answered hello count as missed, but it also proves the
  tunnel alive; a wrap of the counter only lowers it.

`ReorderProofs` proves for every stream, modulus, time-out, lag and capacity:

| theorem | statement | assumption |
|---|---|---|
| `ReorderTypeCorrect` | `[]TypeOK` | |
| `HeldWithinTimeout` | `NothingOverdue` | |
| `NothingFreedTwice` | `[]FreedOnce` | `Distinct` |
| `NothingGivenUpInVain` | `[]GivenUpForHeld` | `Distinct` |
| `WrittenInOrder` | `OutputRises` | `Distinct` |
| `OnlyLateDropped` | `[]DroppedOnlyLate` | `Orderly` |
| `BufferDeliversInOrder` | `DeliversInOrder`: refinement of `OrderedDelivery` | `Orderly` |

They rest on `ReorderAssumption`; `Distinct` says that numbers do not wrap within the
stream and that there are no duplicates, `Orderly` that moreover packet 0 arrives first. So a
stream whose start is reordered loses packets, but is still written in order, frees nothing
twice and gives up nothing in vain. The runs `reorder_duplicate` and `reorder_start` show
that the two assumptions are needed. A stream that wraps meets the comparison of
`gre2tun.c:138` at number 0 again, as at the start.

*The argument.* `OrderInv` says, of the array between any two steps: it holds each
packet once (`UniqueInv`); an element that is not live had its turn (`DeadInv`), so what is
in order is live; a live element whose turn is over is the one just received, too young to
time out (`TurnInv`); after flushing no element is in order (`WaitInv`), so that what times
out is ahead of the number given up; and the packet written last is before `next` (`OutInv`),
so that the one in order comes after it. Before the first delivery every packet is
dropped unless it is packet 0, so that the array is empty after each round and these hold
in any order of arrival. `StartInv` says more if packet 0 comes first: until it is flushed the array holds
nothing else, so `<=` against `UINT32_MAX` drops nothing. `AgeInv` needs none of this: elements are in the
order of arrival, so if the front of the array has not timed out nothing behind it has.

`LifecycleProofs` proves `SessionKeepsPromise`: `Spec => KeepsPromise`, with no further
assumption. *The argument.* Initial states map to initial states. A step that writes
neither tunnels, key, flag nor phase is a stutter; the rest is one lemma per kind
of step. The one that needs an invariant is the accept: `Lifecycle` lets a key appear
only where there is none and together with the LTE tunnel, and `SessionInv` says that
the accept of a request without a session passes the check of its source only then.
It is also needed for the reset, which forgets the key exactly when no tunnel is left.

`DhcpProofs` proves, for every set of sessions, all lease times and all faults:

| theorem | statement |
|---|---|
| `DhcpTypeCorrect` | `[]DhcpTypeOK` |
| `DeviceUnderUsers` | `[]UsersHaveDevice` |
| `LeaseEndsWithSession` | `[]LeaseHasSession` |
| `NeverClientAndLease` | `[]ClientOrLease` |
| `NoClientLeftBehind` | `[]NoStrayClient` |
| `AnnouncementsAreTrue` | `[]AnnouncedIffHeld` |
| `DownOnlyAfterUp` | `DownAfterUp` |
| `LeaseLostOnlyWithSession` | `LostWithSession` |

*The argument.* `UserInv` joins the first properties to the order of a pass, family by
family: when the device block may remove the device, the reset of the same pass has left
neither client nor lease. A device that could not be removed gets clients again, although
there is no tunnel; but without one none comes back with a lease. `DeviceInv` adds the device to
the flag: without bonding the flag means a device until the exit, and a client with a lease in its pipe,
or a lease, means one in either mode, as it came over the device, which goes only after the reset. `ToldInv` says what the script has been told
beyond `AnnouncedIffHeld`: a v4 lease that is held has been announced, even after a v6 lease
has cleared one silently, which is why `dhcpdown_ip` is never unfounded. `LostWithSession`, the
safety half of `BoundIsTaken`, goes through the steps that touch a client: one that came back
with a lease (`bound`) is not started anew, since its pid is still known, and looking
at it always takes the lease (`WaitTakesLease`); only the reset at the end of a session and the exit remain.

`DataPathProofs` proves, for any number of sessions:

| theorem | statement |
|---|---|
| `DataTypeCorrect` | `[]DataTypeOK` |
| `PacketIsWhole` | `[]WholeInSession` |
| `FirstSessionIsCarried` | `[]FirstSessionCarried` |

*The argument.* `MemoryInv` ties the words to the store in progress: a word that is not left to
be written holds the value being stored, and while a tunnel is up the store is
complete and its value is the key of the session. `GatherInv` is about a packet for which no session has ended since the
sender's look at the flag: the session is still there and what has been read is its key and its
address. It is kept by the loop because every write needs a session that is not there, or marks the end of one
first, and by the sender because of `MemoryInv`. `PathInv` says,
block by block, that until a session has ended a device means an open tun descriptor, and that the
socket, once open, has the filter of the current key or none; `ThreadsInv` that a handle that is
set belongs to a thread that runs or to one that was refused.

`GrecpAttributes` proves, for every buffer, `ReadMakesProgress` (a read takes a header at
least and nothing beyond the end, so the loops of the handlers end) and, for
every attribute and whatever follows it, `ReadUndoesAppend`.

`GrecpMessageProofs` proves `HandlersReadWhatWasSent`: for every sequence of attributes and
wherever the message is cut, the handler is given exactly those attributes that arrived whole, as they were
sent (`ReadAsSent`, `WholeOnesRead`), and all of them if the packet fits the buffer (`AllRead`). *The
argument.* That a sequence of bytes is a sequence of attributes would take an induction over data,
which the prover does not have; here the induction is over the steps that write the message. `WriteInv` says
where each attribute lies, `ReadInv` that the loop stands at the start of the next one. The
header of an attribute that was cut still has its length, or was cut itself: either way the
read returns 0 (`NextRead`). The run-time check that finds this is the one of `grecp.c:33`.

*Model-checked only:* `TerminationHonoured`, `NotHeldForever` and `BoundIsTaken`, which are liveness
under fairness and out of the prover's reach; what they say about safety is proved
(`ExitsThisPass`, `NothingOverdue`, `LostWithSession`). The check of all proofs with
`tlapm` takes a few minutes.

## 5. Findings

1. `StatsReset` fails if the device cannot be created: `openhybrid.c:110,117`
   reset the counters only while `tunnel_interface_created` is set. The misses of a tunnel that
   is torn down count against the next one; if it died of them, the next one is declared dead in the
   pass that accepts it.
2. `TunneldownMeansDestroyed` fails in bonding mode: `destroy_tun_tunnel_dev()`
   returns `false` (`tundev.c:167`), so the flag stays set, the event repeats in
   every pass, and the next session gets no device.
3. `TunnelsShareSession` fails if two sessions share a HAAP: an accept is not
   checked against a key (`grecp.c:61`), so a late one brings up a tunnel that
   belongs to an earlier session.
4. `DroppedOnlyLate` fails if packet 0 is not the first to arrive: `sequence_flushed`
   starts at `UINT32_MAX`, every number is `<=` that (`gre2tun.c:138`), and packets that
   overtake packet 0 are dropped at once, not "after the deadline".
5. `GivenUpForHeld` fails if two copies of a packet time out in one round: the second
   goes on timing out after the first was flushed (`gre2tun.c:126-130`) and has number
   after number given up.

Seen while modelling, in the models as the code has it, and without a run of their own:

- `kill_udhcpc6()` tests and kills the v4 pid (`dhcp.c:201-202`), which is zero by
  then at the end of a session: a `udhcpc6` that runs survives its session, and at exit
  it survives the program, under the comment "kill udhcp(s)" (`openhybrid.c:236`).
- An expired v6 lease clears the v4 lease (`openhybrid.c:226-228`): the v4
  lease is gone without `dhcpdown_ip`, and `dhcpdown_ip6` repeats in every pass; as the
  v6 lease time stays, no new prefix is asked for until the session ends.
- `dhcpdown_ip6` is never triggered at the end of a session (`openhybrid.c:144` looks at
  the v4 lease time, cleared in line 138).
- `is_dhcp` is set to true for every packet (`tun2gre.c:136`), so none takes DSL.
- In bonding mode, since finding 2 keeps the flag set, a second session has no device,
  and the filter of the data socket keeps the first session's key; DHCP clients are started
  without a device, one after the other, in every pass, with a session and without.
- `destroy_tun_tunnel_dev()` then closes the same descriptor number in every pass without a
  session, although it may have become a DHCP client's pipe.
- The result of `pthread_create()` is ignored (`openhybrid.c:164,168`): a direction of the data path may be
  missing for the life of the program, since the handle may be set all the same.
- A packet that the sender gathers while a session ends can carry words of two sessions, a key in
  network byte order or half of an address (`DataPath`, outside `WholeInSession`).

## 6. Not modelled

- *Configuration* (`config.c`): text parsing, once, before the loop. Its settings are
  constants of the models. It announces "falling back to 'warning'" for an invalid log
  level (line 86) and leaves the level as it was; the message also appears for `none` and
  `error`, which were set (the `else` belongs to the third `if`). The sample
  configuration names a level `fatal` that the code calls `critical`.
- *Logging* (`logging.c`): output only; that a fatal message ends the program is in
  `SocketFails`.
- *I/O of events and DHCP*: the exec of the event script and its environment, the file
  with the script for busybox (`dhcp.c:40-60`), and busybox itself, of which `Dhcp` knows
  that it ends with a lease, without one or by a signal.
- *Packets*: their contents, the check for DHCP in `tun2gre.c:114-135` (its result is
  overwritten) and the sequence number of the sender, which nothing reads.
- *Pipe descriptors* of killed clients, which leak one each.
- *Fields of attributes*: that a value has the length of the field it is copied to is
  left to the HAAP.
- `src/patches`, `src/sph-pcaps`, `src/examples`: no code of the client.

What could follow: an abstract failure detector (alive, suspected, dead) that `Session`
implements, with the liveness of giving up a silent tunnel; and the descriptors of
the pipes in `Dhcp`.
