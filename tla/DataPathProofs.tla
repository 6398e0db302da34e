--------------------------- MODULE DataPathProofs ---------------------------
(***************************************************************************)
(* What holds of DataPath for every set of sessions.                       *)
(***************************************************************************)
EXTENDS DataPath, TLAPS

-----------------------------------------------------------------------------
(* Type correctness, in three parts: what Lifecycle and the data path keep, *)
(* the memory, and the sender's packet.                                     *)

PathType ==
    /\ bonding \in BOOLEAN /\ phase \in Phases /\ created \in BOOLEAN
    /\ established \subseteq Tunnels /\ key \in Values
    /\ stage \in {"threads", "signal"}
    /\ tun \in Descriptors /\ socket \in Descriptors
    /\ filter \in Values \cup {Raw, AnyKey}
    /\ threads \subseteq Both /\ running \subseteq Both /\ refused \subseteq Both

MemoryType ==
    /\ words \in [Words -> Values \cup {Raw}]
    /\ store \in [value : Values, left : SUBSET Words]
    /\ ended \in BOOLEAN /\ overtaken \in BOOLEAN

PacketType ==
    sender \in [at : {"read", "check", "gather"},
                taken : [Words -> Values \cup {Raw, Unread}]]

LEMMA TypeParts == DataTypeOK <=> PathType /\ MemoryType /\ PacketType
BY DEF DataTypeOK, PathType, MemoryType, PacketType

LEMMA DataInitType == Init => DataTypeOK
<1> SUFFICES ASSUME Init PROVE DataTypeOK
    OBVIOUS
<1>1. PathType
    BY DEF Init, LifecycleInit, Phases, PathType, Descriptors, Values
<1>2. MemoryType
    BY DEF Init, MemoryType, Storing, Values
<1>3. PacketType
    BY DEF Init, PacketType, Packet, Nothing
<1> QED
    BY <1>1, <1>2, <1>3, TypeParts

LEMMA PathTypeNext == DataTypeOK /\ [Next]_vars => PathType'
<1> SUFFICES ASSUME DataTypeOK, [Next]_vars PROVE PathType'
    OBVIOUS
<1>0. PathType /\ words["key"] \in Values \cup {Raw}
    BY TypeParts DEF MemoryType, Words, Address
<1> USE <1>0 DEF PathType, lifecycleVars, dataVars, pathVars
<1>1. CASE \E s \in Sessions : ReadAccept(s)
    BY <1>1 DEF ReadAccept
<1>2. CASE \E w \in Words : StoreWord(w)
    BY <1>2 DEF StoreWord
<1>3. CASE OpenSession
    BY <1>3 DEF OpenSession, Open, Tunnels, Values
<1>4. CASE ChangeTunnels
    BY <1>4 DEF ChangeTunnels, Change, Settle, Phases
<1>5. CASE ForgetSession
    BY <1>5 DEF ForgetSession
<1>6. CASE ResetSession
    BY <1>6 DEF ResetSession, Reset, Phases, Values
<1>7. CASE ManageTun
    <2>1. /\ phase' = "users" /\ created' \in BOOLEAN
          /\ UNCHANGED <<bonding, established, key>>
        BY <1>7 DEF ManageTun, Manage
    <2>2. tun' \in Descriptors
        BY <1>7 DEF ManageTun, TunAfter, Descriptors
    <2> QED
        BY <1>7, <2>1, <2>2 DEF ManageTun, Phases
<1>8. CASE StartThreads
    <2>1. UNCHANGED <<lifecycleVars, tun>> /\ stage' = "signal"
        BY <1>8 DEF StartThreads, ToSignal
    <2>2. socket' \in Descriptors
        BY <1>8 DEF StartThreads, Descriptors
    <2>3. filter' \in {words["key"], AnyKey, filter}
        BY <1>8 DEF StartThreads, Filters
    <2>4. threads' \subseteq Both /\ running' \subseteq Both /\ refused' \subseteq Both
        BY <1>8 DEF StartThreads, Missing
    <2> QED
        BY <2>1, <2>2, <2>3, <2>4
<1>9. CASE StopThreads
    BY <1>9 DEF StopThreads, ToSignal, Closed, Descriptors
<1>10. CASE NoThreads
    BY <1>10 DEF NoThreads, ToSignal
<1>11. CASE SocketFails
    BY <1>11 DEF SocketFails, Exit, Phases
<1>12. CASE AgainPass
    BY <1>12 DEF AgainPass, NextPass, Phases
<1>13. CASE Shutdown
    BY <1>13 DEF Shutdown, Exit, Closed, Descriptors, Phases
<1>14. CASE Sender
    BY <1>14 DEF Sender, ReadTun, CheckLte, ReadWord, Send, Sending
<1>15. CASE UNCHANGED vars
    BY <1>15 DEF vars
<1> QED
    BY <1>1, <1>2, <1>3, <1>4, <1>5, <1>6, <1>7, <1>8, <1>9, <1>10, <1>11, <1>12,
       <1>13, <1>14, <1>15 DEF Next, SessionSteps, PathSteps, Stopped

\* The steps that leave the memory of the key and the address alone.
LEMMA MemoryUnchanged ==
    ASSUME \/ OpenSession \/ ChangeTunnels \/ ResetSession \/ ManageTun
           \/ StartThreads \/ StopThreads \/ NoThreads \/ SocketFails \/ AgainPass
           \/ Shutdown \/ UNCHANGED vars
    PROVE  UNCHANGED <<words, store, ended, overtaken, sender>>
BY DEF OpenSession, ChangeTunnels, ResetSession, ManageTun, StartThreads,
       StopThreads, NoThreads, ToSignal, SocketFails, AgainPass, Shutdown, vars,
       dataVars, memoryVars

LEMMA MemoryTypeNext == DataTypeOK /\ [Next]_vars => MemoryType'
<1> SUFFICES ASSUME DataTypeOK, [Next]_vars PROVE MemoryType'
    OBVIOUS
<1>0. MemoryType
    BY TypeParts
<1> USE <1>0 DEF MemoryType
<1>1. CASE \E s \in Sessions : ReadAccept(s)
    BY <1>1 DEF ReadAccept, Storing, Values
<1>2. CASE \E w \in Words : StoreWord(w)
    <2>1. PICK w \in Words : StoreWord(w)
        BY <1>2
    <2>2. words' \in [Words -> Values \cup {Raw}]
        BY <2>1 DEF StoreWord
    <2>3. store' \in [value : Values, left : SUBSET Words]
        BY <2>1 DEF StoreWord, Storing
    <2> QED
        BY <2>1, <2>2, <2>3 DEF StoreWord
<1>3. CASE ForgetSession
    BY <1>3 DEF ForgetSession, Storing, Values
<1>4. CASE Sender
    BY <1>4 DEF Sender, ReadTun, CheckLte, ReadWord, Send, Sending
<1>5. CASE UNCHANGED <<words, store, ended, overtaken, sender>>
    BY <1>5
<1> QED
    BY <1>1, <1>2, <1>3, <1>4, <1>5, MemoryUnchanged
       DEF Next, SessionSteps, PathSteps, Stopped

LEMMA PacketTypeNext == DataTypeOK /\ [Next]_vars => PacketType'
<1> SUFFICES ASSUME DataTypeOK, [Next]_vars PROVE PacketType'
    OBVIOUS
<1>0. PacketType /\ MemoryType
    BY TypeParts
<1> USE <1>0 DEF PacketType
<1>1. CASE Sender
    <2>1. CASE ReadTun \/ CheckLte \/ Send
        BY <2>1 DEF ReadTun, CheckLte, Send, Packet, Nothing
    <2>2. CASE \E w \in Words : ReadWord(w)
        BY <2>2 DEF ReadWord, Packet, MemoryType
    <2> QED
        BY <1>1, <2>1, <2>2 DEF Sender
<1>2. CASE UNCHANGED sender
    BY <1>2
<1>3. CASE \/ \E s \in Sessions : ReadAccept(s)
           \/ \E w \in Words : StoreWord(w)
           \/ ForgetSession
    BY <1>2, <1>3 DEF ReadAccept, StoreWord, ForgetSession
<1> QED
    BY <1>1, <1>2, <1>3, MemoryUnchanged DEF Next, SessionSteps, PathSteps, Stopped

LEMMA DataNextType == DataTypeOK /\ [Next]_vars => DataTypeOK'
<1> SUFFICES ASSUME DataTypeOK, [Next]_vars PROVE DataTypeOK'
    OBVIOUS
<1>1. PathType' /\ MemoryType' /\ PacketType'
    BY PathTypeNext, MemoryTypeNext, PacketTypeNext
<1> QED
    BY <1>1 DEF DataTypeOK, PathType, MemoryType, PacketType

\* Every variable of the data path keeps its type.
THEOREM DataTypeCorrect == Spec => []DataTypeOK
BY DataInitType, DataNextType, PTL DEF Spec

-----------------------------------------------------------------------------
(* The memory of the key and the address.                                   *)
(*                                                                          *)
(* A word that the loop has written holds what it writes.  Words are left   *)
(* to write only while no tunnel is up: from the accept to the flag, and    *)
(* from the reset on.  So while a tunnel is up, all three hold the session. *)

MemoryInv ==
    /\ \A w \in Words \ store.left : words[w] = store.value
    /\ store.left # {} => phase \in {"session", "reset"} /\ established = {}
    /\ store.left # {} /\ phase = "session" => key = NoSession /\ store.value # NoSession
    /\ store.left # {} /\ phase = "reset" => store.value = NoSession
    /\ phase \in {"device", "users"} => store.value = key
    /\ established # {} => key # NoSession /\ store.value = key
    /\ key # NoSession /\ store.value # key =>
         phase = "reset" /\ established = {} /\ store.value = NoSession /\ ended
    /\ key = NoSession /\ phase = "reset" => store.value = NoSession

LEMMA MemoryInvInit == Init => MemoryInv
BY DEF Init, LifecycleInit, MemoryInv, Storing

LEMMA MemoryInvNext == DataTypeOK /\ MemoryInv /\ [Next]_vars => MemoryInv'
<1> SUFFICES ASSUME DataTypeOK, MemoryInv, [Next]_vars PROVE MemoryInv'
    OBVIOUS
<1>0. MemoryType /\ key \in Values
    BY TypeParts DEF PathType
<1> USE DEF MemoryInv, lifecycleVars
<1>1. CASE \E s \in Sessions : ReadAccept(s)
    <2>1. PICK s \in Sessions : ReadAccept(s)
        BY <1>1
    <2>2. /\ store'.value = s /\ store'.left = Words /\ phase = "session"
          /\ established = {} /\ key = NoSession /\ s # NoSession
          /\ UNCHANGED <<phase, established, key, ended>>
        BY <2>1, DataPathAssumption DEF ReadAccept, Storing
    <2> QED
        BY <2>2
<1>2. CASE \E w \in Words : StoreWord(w)
    <2>1. PICK w \in Words : StoreWord(w)
        BY <1>2
    <2>2. UNCHANGED <<phase, established, key, ended>>
        BY <2>1 DEF StoreWord
    <2>3. w \in store.left
        <3>1. CASE words["key"] = Raw
            <4>1. w = "key"
                BY <2>1, <3>1 DEF StoreWord, NextWords
            <4>2. "key" \in Words /\ store.value # Raw
                BY <1>0, DataPathAssumption DEF MemoryType, Values, Words
            <4> QED
                BY <3>1, <4>1, <4>2
        <3>2. CASE words["key"] # Raw
            BY <2>1, <3>2 DEF StoreWord, NextWords
        <3> QED
            BY <3>1, <3>2
    <2>4. CASE CopyFirst(w)
        <3>1. store' = store /\ words' = [words EXCEPT ![w] = Raw]
            BY <2>1, <2>4 DEF StoreWord
        <3> QED
            BY <1>0, <2>2, <2>3, <3>1 DEF MemoryType
    <2>5. CASE ~CopyFirst(w)
        <3>1. /\ store'.value = store.value /\ store'.left = store.left \ {w}
              /\ words' = [words EXCEPT ![w] = store.value]
            BY <2>1, <2>5 DEF StoreWord, Storing
        <3>2. \A v \in Words \ store'.left : words'[v] = store'.value
            BY <1>0, <3>1 DEF MemoryType
        <3> QED
            BY <2>2, <2>3, <3>1, <3>2
    <2> QED
        BY <2>4, <2>5
<1>3. CASE OpenSession
    <2>1. PICK s \in Sessions : store.value = s /\ Open(s)
        BY <1>3 DEF OpenSession
    <2>2. /\ store.left = {} /\ key' = s /\ phase = "session" /\ phase' = phase
          /\ s # NoSession /\ UNCHANGED <<words, store, ended>>
        BY <1>3, <2>1, MemoryUnchanged, DataPathAssumption
           DEF OpenSession, AllStored, Open
    <2> QED
        BY <2>1, <2>2
<1>4. CASE ChangeTunnels
    <2>1. UNCHANGED <<words, store, key, ended>> /\ store.value = key
        BY <1>4, MemoryUnchanged DEF ChangeTunnels, Change, Settle
    <2>2. CASE Change
        BY <2>1, <2>2 DEF Change
    <2>3. CASE Settle
        BY <2>1, <2>3 DEF Settle
    <2> QED
        BY <1>4, <2>2, <2>3 DEF ChangeTunnels
<1>5. CASE ForgetSession
    <2>1. /\ store'.value = NoSession /\ store'.left = Words /\ ended'
          /\ phase = "reset" /\ established = {}
          /\ UNCHANGED <<phase, established, key>>
        BY <1>5 DEF ForgetSession, Storing, Over
    <2> QED
        BY <2>1
<1>6. CASE ResetSession
    <2>1. /\ phase' = "device" /\ phase = "reset"
          /\ UNCHANGED <<words, store, established, ended>>
        BY <1>6, MemoryUnchanged DEF ResetSession, Reset
    <2>2. CASE Over
        <3>1. store.value = NoSession /\ store.left = {} /\ key' = NoSession
            BY <1>6, <2>2 DEF ResetSession, Reset, Storing
        <3> QED
            BY <2>1, <2>2, <3>1 DEF Over
    <2>3. CASE ~Over
        <3>1. key' = key
            BY <1>6, <2>3 DEF ResetSession, Reset
        <3> QED
            BY <2>1, <2>3, <3>1 DEF Over
    <2> QED
        BY <2>2, <2>3
<1>7. CASE \/ ManageTun \/ StartThreads \/ StopThreads \/ NoThreads \/ SocketFails
           \/ AgainPass \/ Shutdown
    <2>1. /\ phase \in {"device", "users"}
          /\ phase' \in {"session", "users", "exited"}
          /\ UNCHANGED <<words, store, ended, established, key>>
        BY <1>7, MemoryUnchanged
           DEF ManageTun, Manage, StartThreads, StopThreads, NoThreads, ToSignal,
               SocketFails, Exit, AgainPass, NextPass, Shutdown
    <2> QED
        BY <2>1
<1>8. CASE Sender \/ UNCHANGED vars
    <2>1. UNCHANGED <<words, store, ended, phase, established, key>>
        BY <1>8, MemoryUnchanged
           DEF Sender, ReadTun, CheckLte, ReadWord, Send, Sending, vars
    <2> QED
        BY <2>1
<1> QED
    BY <1>1, <1>2, <1>3, <1>4, <1>5, <1>6, <1>7, <1>8
       DEF Next, SessionSteps, PathSteps, Stopped

-----------------------------------------------------------------------------
(* The packet at hand.                                                      *)
(*                                                                          *)
(* The sender starts to read when LTE is established, so that all words     *)
(* hold the session, and they do until the loop begins to forget it.        *)

GatherInv ==
    sender.at = "gather" /\ ~overtaken =>
      /\ key # NoSession /\ store.value = key /\ store.left = {}
      /\ \A w \in Words : sender.taken[w] \in {Unread, key}

LEMMA GatherInvImplies == GatherInv => WholeInSession
BY DEF GatherInv, WholeInSession, Complete

LEMMA GatherInvInit == Init => GatherInv
BY DEF Init, GatherInv, Packet

LEMMA GatherInvNext ==
    DataTypeOK /\ MemoryInv /\ GatherInv /\ [Next]_vars => GatherInv'
<1> SUFFICES ASSUME DataTypeOK, MemoryInv, GatherInv, [Next]_vars PROVE GatherInv'
    OBVIOUS
<1> USE DEF GatherInv, lifecycleVars
<1>1. CASE \E s \in Sessions : ReadAccept(s)
    BY <1>1 DEF ReadAccept
<1>2. CASE \E w \in Words : StoreWord(w)
    <2>1. PICK w \in Words : StoreWord(w)
        BY <1>2
    <2>2. UNCHANGED <<sender, overtaken, key>>
        BY <2>1 DEF StoreWord
    <2>3. CASE store.left = {}
        <3>1. "key" \in Words /\ words["key"] = store.value
            BY <2>3 DEF MemoryInv, Words
        <3>2. store.value # Raw
            BY TypeParts, DataPathAssumption DEF MemoryType, Values
        <3> QED
            BY <2>1, <2>3, <3>1, <3>2 DEF StoreWord, NextWords
    <2> QED
        BY <2>2, <2>3
<1>3. CASE OpenSession
    BY <1>3 DEF OpenSession, Open, dataVars, memoryVars
<1>4. CASE ForgetSession
    BY <1>4 DEF ForgetSession
<1>5. CASE ResetSession
    <2>1. UNCHANGED <<sender, overtaken, store>> /\ key' \in {key, NoSession}
        BY <1>5, MemoryUnchanged DEF ResetSession, Reset
    <2>2. key' # key => store.value = NoSession
        BY <1>5 DEF ResetSession, Reset, Storing
    <2> QED
        BY <2>1, <2>2
<1>6. CASE \/ ChangeTunnels \/ ManageTun \/ StartThreads \/ StopThreads
           \/ NoThreads \/ SocketFails \/ AgainPass \/ Shutdown \/ UNCHANGED vars
    <2>1. UNCHANGED <<sender, overtaken, store>>
        BY <1>6, MemoryUnchanged
    <2>2. UNCHANGED key
        BY <1>6 DEF ChangeTunnels, Change, Settle, ManageTun, Manage, StartThreads,
                    StopThreads, NoThreads, ToSignal, SocketFails, Exit, AgainPass,
                    NextPass, Shutdown, vars
    <2> QED
        BY <2>1, <2>2
<1>7. CASE ReadTun \/ Send
    BY <1>7 DEF ReadTun, Send, Packet
<1>8. CASE CheckLte
    <2>1. UNCHANGED <<key, store>>
        BY <1>8 DEF CheckLte, Sending
    <2>2. CASE LTE \in established
        <3>1. sender'.taken = Nothing
            BY <1>8, <2>2 DEF CheckLte, Packet
        <3>2. \A w \in Words : Nothing[w] = Unread
            BY DEF Nothing
        <3>3. key # NoSession /\ store.value = key /\ store.left = {}
            BY <2>2 DEF MemoryInv
        <3> QED
            BY <2>1, <3>1, <3>2, <3>3
    <2>3. CASE LTE \notin established
        BY <1>8, <2>3 DEF CheckLte, Packet
    <2> QED
        BY <2>2, <2>3
<1>9. CASE \E w \in Words : ReadWord(w)
    <2>1. PICK w \in Words : ReadWord(w)
        BY <1>9
    <2>2. /\ UNCHANGED <<key, store, overtaken>> /\ sender.at = "gather"
          /\ sender'.taken = [sender.taken EXCEPT ![w] = words[w]]
        BY <2>1 DEF ReadWord, Sending, Packet
    <2>3. \A v \in Words : sender'.taken[v] \in {sender.taken[v], words[v]}
        BY <2>2, TypeParts DEF PacketType
    <2>4. \A v \in Words : store.left = {} => words[v] = store.value
        BY DEF MemoryInv
    <2> QED
        BY <2>2, <2>3, <2>4
<1> QED
    BY <1>1, <1>2, <1>3, <1>4, <1>5, <1>6, <1>7, <1>8, <1>9
       DEF Next, SessionSteps, PathSteps, Sender, Stopped

\* A packet put together within a session carries the key and the whole address
\* of that session, however the steps of the sender, of handle_grecpaccept() and
\* of the reset are mixed.
THEOREM PacketIsWhole == Spec => []WholeInSession
<1>1. Init => DataTypeOK /\ MemoryInv /\ GatherInv
    BY DataInitType, MemoryInvInit, GatherInvInit
<1>2. DataTypeOK /\ MemoryInv /\ GatherInv /\ [Next]_vars =>
        (DataTypeOK /\ MemoryInv /\ GatherInv)'
    BY DataNextType, MemoryInvNext, GatherInvNext
<1> QED
    BY <1>1, <1>2, GatherInvImplies, PTL DEF Spec

-----------------------------------------------------------------------------
(* The data path of the first session.                                      *)
(*                                                                          *)
(* In bonding mode the device, once it is there, is taken to exist for      *)
(* good.  Its descriptor is closed only when it has no session, and that is *)
(* the end of the first; until then the socket is opened once, under the    *)
(* key of that session.  From then on a thread runs or was refused, and one *)
(* that runs has its handle.                                                *)

ThreadsInv ==
    /\ running \subseteq threads
    /\ threads \subseteq running \cup refused
    /\ running \cap refused = {}

PathInv ==
    /\ phase \in {"device", "users"} /\ established = {} => key = NoSession
    /\ phase \notin {"users", "exited"} => stage = "threads"
    /\ created /\ ~ended => key # NoSession
    /\ bonding /\ phase # "exited" =>
         /\ ThreadsInv
         /\ socket \in {"unset", "open"}
         /\ socket = "unset" => threads = {}
         /\ socket = "open" => /\ created /\ running \cup refused = Both
                               /\ ~ended => filter \in {key, AnyKey}
         /\ created /\ ~ended => tun = "open"
         /\ created /\ stage = "signal" => socket = "open"

LEMMA PathInvImplies == DataTypeOK /\ PathInv => FirstSessionCarried
BY DEF DataTypeOK, PathInv, ThreadsInv, FirstSessionCarried, Ready

LEMMA PathInvInit == Init => PathInv
BY DEF Init, LifecycleInit, PathInv, ThreadsInv

LEMMA PathInvNext ==
    DataTypeOK /\ MemoryInv /\ PathInv /\ [Next]_vars => PathInv'
<1> SUFFICES ASSUME DataTypeOK, MemoryInv, PathInv, [Next]_vars PROVE PathInv'
    OBVIOUS
<1> USE DEF PathInv, lifecycleVars, pathVars
<1>1. CASE \/ \E s \in Sessions : ReadAccept(s)
           \/ \E w \in Words : StoreWord(w)
           \/ Sender \/ UNCHANGED vars
    <2>1. UNCHANGED <<lifecycleVars, stage, pathVars, ended>>
        BY <1>1 DEF ReadAccept, StoreWord, Sender, ReadTun, CheckLte, ReadWord,
                    Send, Sending, vars, dataVars, memoryVars
    <2> QED
        BY <2>1 DEF ThreadsInv
<1>2. CASE OpenSession
    <2>1. PICK s \in Sessions : Open(s)
        BY <1>2 DEF OpenSession
    <2>2. /\ established = {} /\ key = NoSession /\ phase = "session"
          /\ key' = s /\ s # NoSession
          /\ UNCHANGED <<bonding, phase, created, stage, pathVars, ended>>
        BY <1>2, <2>1, DataPathAssumption
           DEF OpenSession, Open, dataVars, memoryVars
    <2> QED
        BY <2>2 DEF ThreadsInv
<1>3. CASE ChangeTunnels
    <2>1. UNCHANGED <<bonding, key, created, stage, pathVars, ended>>
        BY <1>3 DEF ChangeTunnels, Change, Settle, dataVars, memoryVars
    <2>2. phase = "session" /\ phase' \in {"session", "reset"}
        BY <1>3 DEF ChangeTunnels, Change, Settle
    <2> QED
        BY <2>1, <2>2 DEF ThreadsInv
<1>4. CASE ForgetSession
    <2>1. /\ UNCHANGED <<lifecycleVars, stage, pathVars>> /\ ended'
        BY <1>4 DEF ForgetSession
    <2> QED
        BY <2>1 DEF ThreadsInv
<1>5. CASE ResetSession
    <2>1. /\ phase = "reset" /\ phase' = "device"
          /\ UNCHANGED <<bonding, established, created, stage, pathVars, ended>>
        BY <1>5 DEF ResetSession, Reset, dataVars, memoryVars
    <2>2. CASE Over
        <3>1. key' = NoSession /\ store.value = NoSession
            BY <1>5, <2>2 DEF ResetSession, Reset, Storing
        <3>2. key = NoSession \/ ended
            BY <3>1 DEF MemoryInv
        <3> QED
            BY <2>1, <2>2, <3>1, <3>2 DEF Over, ThreadsInv
    <2>3. CASE ~Over
        <3>1. key' = key
            BY <1>5, <2>3 DEF ResetSession, Reset
        <3> QED
            BY <2>1, <2>3, <3>1 DEF Over, ThreadsInv
    <2> QED
        BY <2>2, <2>3
<1>6. CASE ManageTun
    <2>1. /\ phase = "device" /\ phase' = "users"
          /\ Managed(created') /\ created' \in BOOLEAN
          /\ UNCHANGED <<bonding, established, key, stage, socket, filter, threads,
                         running, refused, ended>>
        BY <1>6 DEF ManageTun, Manage, memoryVars
    <2>2. created' => established # {} \/ created
        BY <2>1 DEF Managed, DataTypeOK
    <2>3. ASSUME bonding
          PROVE  created => created'
        BY <2>1, <2>3 DEF Managed, DataTypeOK
    <2>4. ASSUME bonding, created', ~ended
          PROVE  tun' = "open"
        BY <1>6, <2>1, <2>2, <2>4 DEF ManageTun, TunAfter
    <2>5. established # {} => key # NoSession
        BY DEF MemoryInv
    <2> QED
        BY <2>1, <2>2, <2>3, <2>4, <2>5 DEF ThreadsInv
<1>7. CASE StartThreads
    <2>1. /\ phase = "users" /\ stage' = "signal" /\ bonding /\ created
          /\ UNCHANGED <<lifecycleVars, tun, ended>>
        BY <1>7 DEF StartThreads, ToSignal, Wanted, memoryVars
    <2>2. PICK begun \in SUBSET Missing, set \in SUBSET Missing :
            /\ set \cap begun = {}
            /\ running' = running \cup begun
            /\ refused' = (refused \ Missing) \cup (Missing \ begun)
            /\ threads' = threads \cup begun \cup set
        BY <1>7 DEF StartThreads
    <2>3. ThreadsInv' /\ running' \cup refused' = Both
        BY <2>1, <2>2 DEF ThreadsInv, Missing, DataTypeOK
    <2>4. words["key"] = key
        <3>1. store.left = {} /\ store.value = key /\ "key" \in Words
            BY <2>1 DEF MemoryInv, Words
        <3> QED
            BY <3>1 DEF MemoryInv
    <2>5. CASE socket = "unset"
        <3>1. socket' = "open" /\ filter' \in {key, AnyKey}
            BY <1>7, <2>4, <2>5 DEF StartThreads, Filters
        <3> QED
            BY <2>1, <2>3, <2>5, <3>1
    <2>6. CASE socket # "unset"
        <3>1. socket' = socket /\ filter' = filter
            BY <1>7, <2>6 DEF StartThreads, Filters
        <3> QED
            BY <2>1, <2>3, <2>6, <3>1
    <2> QED
        BY <2>5, <2>6
<1>8. CASE StopThreads
    <2>1. /\ phase = "users" /\ stage' = "signal" /\ bonding /\ ~created
          /\ UNCHANGED <<lifecycleVars, tun, ended, filter, threads, refused>>
          /\ running' = running \ threads
          /\ socket' = Closed
        BY <1>8 DEF StopThreads, ToSignal, Wanted, memoryVars
    <2>2. socket = "unset" /\ socket' = "unset" /\ running' = running
        BY <2>1 DEF Closed, ThreadsInv
    <2> QED
        BY <2>1, <2>2 DEF ThreadsInv
<1>9. CASE NoThreads
    BY <1>9 DEF NoThreads, ToSignal, memoryVars
<1>10. CASE SocketFails
    BY <1>10 DEF SocketFails, Exit, dataVars, memoryVars
<1>11. CASE AgainPass
    <2>1. /\ stage' = "threads" /\ phase' = "session" /\ phase = "users"
          /\ UNCHANGED <<bonding, established, key, created, pathVars, ended>>
        BY <1>11 DEF AgainPass, NextPass, memoryVars
    <2> QED
        BY <2>1 DEF ThreadsInv
<1>12. CASE Shutdown
    BY <1>12 DEF Shutdown, Exit, memoryVars
<1> QED
    BY <1>1, <1>2, <1>3, <1>4, <1>5, <1>6, <1>7, <1>8, <1>9, <1>10, <1>11, <1>12
       DEF Next, SessionSteps, PathSteps, Stopped

\* Until a session has ended, a device that is taken to exist has threads on open
\* descriptors - all that pthread_create() has not failed for - and a filter that
\* lets the session through.
THEOREM FirstSessionIsCarried == Spec => []FirstSessionCarried
<1>1. Init => DataTypeOK /\ MemoryInv /\ PathInv
    BY DataInitType, MemoryInvInit, PathInvInit
<1>2. DataTypeOK /\ MemoryInv /\ PathInv /\ [Next]_vars =>
        (DataTypeOK /\ MemoryInv /\ PathInv)'
    BY DataNextType, MemoryInvNext, PathInvNext
<1> QED
    BY <1>1, <1>2, PathInvImplies, PTL DEF Spec
=============================================================================
