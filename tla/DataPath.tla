------------------------------ MODULE DataPath ------------------------------
(***************************************************************************)
(* The data path of bonding mode: the tun device's descriptor sockfd_tun,  *)
(* the raw socket sockfd_gre with its filter, and the threads tun2gre and  *)
(* gre2tun that forward between the two, as the control loop opens, closes *)
(* and starts them (src/openhybrid.c, src/tundev.c), and the sender        *)
(* thread, which reads the state of the loop without a lock                *)
(* (src/tun2gre.c).                                                        *)
(*                                                                         *)
(* The rest of the loop is Lifecycle.  The bonding key and the address of  *)
(* the HAAP are three words of memory, written and read one at a time; a   *)
(* word that holds a session is that of the session's key or address, one  *)
(* that holds NoSession is that of a zero key or of the anycast address.   *)
(***************************************************************************)
EXTENDS Lifecycle

AnyKey == "any"      \* no filter is attached to the socket
Raw    == "raw"      \* a key in network byte order
Unread == "unread"   \* a word that the sender has not read yet

\* Sessions have keys and addresses of their own.
ASSUME DataPathAssumption ==
    /\ NoSession \notin Sessions
    /\ {AnyKey, Raw, Unread} \cap (Sessions \cup {NoSession}) = {}

Address == {"high", "low"}          \* the halves of runtime.haap.ip
Words   == Address \cup {"key"}     \* ... and runtime.haap.bonding_key
Values  == Sessions \cup {NoSession}

VARIABLES
    stage,      \* in the phase "users": the block of the threads, then the rest
    words,      \* the memory that holds the key and the address
    store,      \* what the loop writes there, and the words it has still to write
    tun,        \* sockfd_tun
    socket,     \* sockfd_gre
    filter,     \* external: the key that the kernel's filter on it lets through
    threads,    \* the threads whose handle is not zero
    running,    \* external: the threads that exist and were not cancelled
    sender,     \* the sender thread: its next step, and the words it has read
    refused,    \* history: the threads whose last pthread_create() has failed
    ended,      \* history: a session has ended
    overtaken   \* history: ... since the sender last found LTE established

memoryVars == <<words, store, ended, overtaken>>
pathVars   == <<tun, socket, filter, threads, running, refused>>
dataVars   == <<stage, memoryVars, pathVars, sender>>
vars       == <<lifecycleVars, dataVars>>

Descriptors == {"unset", "open", "closed"}
Both == {"gre2tun", "tun2gre"}

Storing(value, left) == [value |-> value, left |-> left]
Packet(at, taken) == [at |-> at, taken |-> taken]
Nothing == [w \in Words |-> Unread]

Init ==
    /\ LifecycleInit
    /\ stage = "threads"
    /\ words = [w \in Words |-> NoSession]
    /\ store = Storing(NoSession, {})
    /\ tun = "unset" /\ socket = "unset" /\ filter = AnyKey
    /\ threads = {} /\ running = {} /\ refused = {}
    /\ sender = Packet("read", Nothing)
    /\ ended = FALSE /\ overtaken = FALSE

-----------------------------------------------------------------------------
(* The control loop: the key and the address. *)

\* The accept that opens session s: handle_grecpaccept() starts to copy its
\* attributes.
ReadAccept(s) ==
    /\ phase = "session" /\ established = {} /\ key = NoSession
    /\ store = Storing(NoSession, {})
    /\ store' = Storing(s, Words)
    /\ UNCHANGED <<lifecycleVars, stage, words, pathVars, sender, ended, overtaken>>

\* The attributes come in any order, each is copied to the end before the next,
\* and the key is copied as it is and then converted by ntohl().  The
\* assignments of the reset are the compiler's to order.
Half == store.left \cap Address \notin {{}, Address}
NextWords ==
    IF words["key"] = Raw THEN {"key"}
    ELSE IF store.value # NoSession /\ Half THEN store.left \cap Address
    ELSE store.left
CopyFirst(w) == w = "key" /\ store.value # NoSession /\ words[w] # Raw

StoreWord(w) ==
    /\ w \in NextWords
    /\ IF CopyFirst(w)
       THEN words' = [words EXCEPT ![w] = Raw] /\ UNCHANGED store
       ELSE /\ words' = [words EXCEPT ![w] = store.value]
            /\ store' = Storing(store.value, store.left \ {w})
    /\ UNCHANGED <<lifecycleVars, stage, pathVars, sender, ended, overtaken>>

\* Once all attributes are copied, tunnel_established is set.
\* Mutant: it is set as soon as the key is known.
KeyStored == "key" \notin store.left
AllStored == store.left = {}

OpenSession ==
    /\ AllStored
    /\ \E s \in Sessions : store.value = s /\ Open(s)
    /\ UNCHANGED dataVars

\* The handler of the accept has returned.
ChangeTunnels ==
    /\ store.value = key
    /\ Change \/ Settle
    /\ UNCHANGED dataVars

\* The reset without a tunnel: if there is a session, its key and address are
\* overwritten, then the reset goes on.
ForgetSession ==
    /\ phase = "reset" /\ Over /\ store.value # NoSession
    /\ store' = Storing(NoSession, Words)
    /\ ended' = TRUE /\ overtaken' = TRUE
    /\ UNCHANGED <<lifecycleVars, stage, words, pathVars, sender>>

ResetSession ==
    /\ Over => store = Storing(NoSession, {})
    /\ Reset
    /\ UNCHANGED dataVars

-----------------------------------------------------------------------------
(* The control loop: device, socket and threads. *)

\* create_tun_tunnel_dev() opens the descriptor, and closes it if the device
\* cannot be made; destroy_tun_tunnel_dev() closes it, again in every pass.  A
\* descriptor that open() did not return (-1) is as unusable as a closed one.
TunAfter(made) == IF established # {} /\ ~created
                  THEN IF made THEN "open" ELSE "closed"
                  ELSE IF established = {} /\ created THEN "closed" ELSE tun

ManageTun ==
    /\ Manage
    /\ tun' = IF bonding THEN TunAfter(created') ELSE tun
    /\ UNCHANGED <<stage, memoryVars, socket, filter, threads, running, refused,
                   sender>>

ToSignal == /\ phase = "users" /\ stage = "threads" /\ stage' = "signal"
            /\ UNCHANGED <<lifecycleVars, memoryVars, tun, sender>>

\* With a device, the socket is opened unless it has been before - with a filter
\* for the key of now, or with none if that cannot be attached - and the threads
\* are created unless their handles are set.  Nobody looks at what
\* pthread_create() returns: it may have failed, with the handle set or not.
\* Mutant: nobody looks whether there is a device.
BondingAtAll == bonding
Wanted == bonding /\ created
Filters == IF socket = "unset" THEN {words["key"], AnyKey} ELSE {filter}
Missing == Both \ threads

StartThreads ==
    /\ Wanted
    /\ ToSignal
    /\ socket' = IF socket = "unset" THEN "open" ELSE socket
    /\ filter' \in Filters
    /\ \E begun \in SUBSET Missing :
         /\ running' = running \cup begun
         /\ refused' = (refused \ Missing) \cup (Missing \ begun)
         /\ \E set \in SUBSET (Missing \ begun) :
              threads' = threads \cup begun \cup set

\* Without one, the threads are cancelled and the socket is closed; neither the
\* handles nor the descriptor are set back to zero.
Closed == IF socket = "unset" THEN "unset" ELSE "closed"

StopThreads ==
    /\ bonding /\ ~Wanted
    /\ ToSignal
    /\ running' = running \ threads
    /\ socket' = Closed
    /\ UNCHANGED <<filter, threads, refused>>

NoThreads ==
    /\ ~bonding
    /\ ToSignal
    /\ UNCHANGED <<socket, filter, threads, running, refused>>

\* open_gre_socket() ends the program if there is no socket to be had.
SocketFails ==
    /\ stage = "threads" /\ Wanted /\ socket = "unset"
    /\ Exit
    /\ UNCHANGED dataVars

AgainPass ==
    /\ stage = "signal" /\ stage' = "threads"
    /\ NextPass
    /\ UNCHANGED <<memoryVars, pathVars, sender>>

Shutdown ==
    /\ stage = "signal" /\ Exit
    /\ running' = IF bonding THEN running \ threads ELSE running
    /\ socket' = IF bonding THEN Closed ELSE socket
    /\ tun' = IF bonding /\ created THEN "closed" ELSE tun
    /\ UNCHANGED <<stage, memoryVars, filter, threads, refused, sender>>

SessionSteps ==
    \/ \E s \in Sessions : ReadAccept(s)
    \/ \E w \in Words : StoreWord(w)
    \/ OpenSession \/ ChangeTunnels \/ ForgetSession \/ ResetSession

PathSteps ==
    \/ ManageTun \/ StartThreads \/ StopThreads \/ NoThreads \/ SocketFails
    \/ AgainPass \/ Shutdown

-----------------------------------------------------------------------------
(* The sender thread.  Between any two of its steps the loop may go on. *)

Sending(at) == /\ "tun2gre" \in running /\ phase # "exited"
               /\ sender.at = at
               /\ UNCHANGED <<lifecycleVars, stage, words, store, pathVars, ended>>

\* A packet is read from the device, also after the loop has closed it: a read()
\* that waits keeps the device until a packet comes, and the number of a closed
\* descriptor may by then be another file's.
ReadTun ==
    /\ Sending("read")
    /\ sender' = Packet("check", Nothing)
    /\ UNCHANGED overtaken

\* It is dropped unless LTE is established: is_dhcp is set for every packet, so
\* that none takes DSL.
CheckLte ==
    /\ Sending("check")
    /\ \/ /\ LTE \in established
          /\ sender' = Packet("gather", Nothing) /\ overtaken' = FALSE
       \/ /\ LTE \notin established
          /\ sender' = Packet("read", Nothing) /\ UNCHANGED overtaken

\* send_gre() reads the key and the address of the HAAP, in the compiler's order,
\* and sends.
ReadWord(w) ==
    /\ Sending("gather")
    /\ sender.taken[w] = Unread
    /\ sender' = Packet("gather", [sender.taken EXCEPT ![w] = words[w]])
    /\ UNCHANGED overtaken

Complete == sender.at = "gather" /\ \A w \in Words : sender.taken[w] # Unread

Send ==
    /\ Sending("gather") /\ Complete
    /\ sender' = Packet("read", Nothing)
    /\ UNCHANGED overtaken

Sender == ReadTun \/ CheckLte \/ (\E w \in Words : ReadWord(w)) \/ Send

Stopped == phase = "exited" /\ UNCHANGED vars

Next == SessionSteps \/ PathSteps \/ Sender \/ Stopped

Spec == Init /\ [][Next]_vars

-----------------------------------------------------------------------------
(* Properties. *)

\* Every variable has its type.
DataTypeOK ==
    /\ bonding \in BOOLEAN /\ phase \in Phases /\ created \in BOOLEAN
    /\ established \subseteq Tunnels /\ key \in Values
    /\ stage \in {"threads", "signal"}
    /\ words \in [Words -> Values \cup {Raw}]
    /\ store \in [value : Values, left : SUBSET Words]
    /\ tun \in Descriptors /\ socket \in Descriptors
    /\ filter \in Values \cup {Raw, AnyKey}
    /\ threads \subseteq Both /\ running \subseteq Both /\ refused \subseteq Both
    /\ sender \in [at : {"read", "check", "gather"},
                   taken : [Words -> Values \cup {Raw, Unread}]]
    /\ ended \in BOOLEAN /\ overtaken \in BOOLEAN

\* Packets of the current session can pass, in both directions unless a thread
\* could not be created.
Ready == /\ tun = "open" /\ socket = "open" /\ filter \in {key, AnyKey}
         /\ running = Both \ refused

\* Until a session has ended: after its pass through the blocks of the device and
\* of the threads the loop has a data path for the session whose device it takes
\* to exist, whatever device, socket or filter has failed before, and the threads
\* run on open descriptors.  A thread is missing only if pthread_create() failed
\* for it, which the loop does not look at; it tries again in the next pass, but
\* only if the failure has left the handle zero.
\* A later session gets no data path: destroy_tun_tunnel_dev() closes the device
\* and reports a failure, so that no other is made, and the filter keeps the old
\* key.
FirstSessionCarried ==
    stage = "signal" /\ phase = "users" /\ bonding /\ created /\ ~ended => Ready

\* A packet carries the key and the whole address of one session, the current
\* one, unless a session has ended between the sender's look at
\* tunnel_established and the last word it read: the sender never sees the key
\* in network byte order or half an address of the session it sends in, although
\* it takes no lock, and an accept sets the flag only after its last word.
\* (Across the end of a session it may see any of that.)
WholeInSession ==
    Complete /\ ~overtaken =>
      key # NoSession /\ \A w \in Words : sender.taken[w] = key
=============================================================================
