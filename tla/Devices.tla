------------------------------ MODULE Devices ------------------------------
(* The devices the adb server knows of, and who depends on them: the       *)
(* doubly linked master list, the table of emulator transports, the        *)
(* selection of a device for a request, port forwarding, the clients of    *)
(* track-devices and the threads of wait-for-device.                       *)
(*                                                                         *)
(* The two threads of a transport are reduced to what reaches the rest of  *)
(* the server: the SYNC(0,0) of the output thread, close_all_sockets of    *)
(* the input thread, and one kick and one unref of each at its end; module *)
(* Transport has their steps.                                              *)
EXTENDS Integers, FiniteSets, Sequences

CONSTANTS Transports,  \* atransport structs
          Master,      \* transport_list, the head of the list
          None,
          Slots,       \* ADB_LOCAL_TRANSPORT_MAX
          Port,        \* the port of a transport, if it is an emulator
          Room,        \* lines that always fit the buffer of a list
          Forwards,    \* local names that may be forwarded
          Conns,       \* connections accepted on them
          Trackers,    \* clients of track-devices
          Waiters      \* clients of wait-for-any

ASSUME MasterIsNoTransport == Master \notin Transports /\ None \notin Transports \cup {Master}

VARIABLES next, prev,        \* the links of the list
          life,              \* of the struct
          kind,              \* "usb", "emu" or "tcp" (one address)
          connection_state, ref_count,
          registration,      \* messages to transport_registration_func
          sync,              \* where a SYNC(0,0) is: "no", "main", "input"
          running,           \* the threads that are: <<t, "in">>, <<t, "out">>
          closed,            \* transports whose input thread closed their sockets
          unplugged,         \* read-only devices that have left
          cut,               \* transports unlinked by a disconnect request
          local_transports,  \* the emulator table
          fwd, dis,          \* a listener's transport; whose disconnect list it is on
          conn, open,        \* a connection's transport; the connected ones
          seen,              \* the list last sent to a tracker
          wait               \* a wait_for_state thread

list == <<next, prev>>
struct == <<life, kind, ref_count, registration>>
thread == <<sync, running, closed>>
forward == <<fwd, dis, conn, open>>
vars == <<list, struct, connection_state, thread, unplugged, cut, local_transports, forward,
          seen, wait>>

Nodes == Transports \cup {Master}

Init ==
  /\ next = [n \in Nodes |-> n] /\ prev = [n \in Nodes |-> n]
  /\ life = [t \in Transports |-> "none"] /\ kind = [t \in Transports |-> None]
  /\ connection_state = [t \in Transports |-> "OFFLINE"]
  /\ ref_count = [t \in Transports |-> 0] /\ registration = <<>>
  /\ sync = [t \in Transports |-> "no"] /\ running = {} /\ closed = {}
  /\ unplugged = {} /\ cut = {} /\ local_transports = {}
  /\ fwd = [n \in Forwards |-> None] /\ dis = [n \in Forwards |-> None]
  /\ conn = [x \in Conns |-> None] /\ open = {}
  /\ seen = [k \in Trackers |-> None]
  /\ wait = [w \in Waiters |-> "idle"]

---------------------------------------------------------------------------
(* The master list.                                                        *)

(* What a loop over the list visits, given the links: the head's successor, *)
(* and the successor of each transport visited.                            *)
Walk(link) ==
  {t \in Transports : \A S \in SUBSET Nodes :
     Master \in S /\ (\A n \in S : link[n] \in S) => t \in S}

Listed == Walk(next)

(* Mutant: the link back is not mended.                                    *)
Unlink_forth(t) ==
  /\ prev' = prev
  /\ next' = [next EXCEPT ![prev[t]] = next[t]]

(* t->next->prev = t->prev; t->prev->next = t->next, in this order.        *)
Unlink(t) ==
  /\ prev' = [prev EXCEPT ![next[t]] = prev[t]]
  /\ next' = [next EXCEPT ![prev[t]] = next[t]]

(* list_transports: the transports in the list, with their states, up to   *)
(* the first line that does not fit the buffer.  How many fit depends on   *)
(* the lengths of the serial numbers, but Room lines always do.            *)
list_transports(nx, states) ==
  LET lines == {<<t, states[t]>> : t \in Walk(nx)}
  IN  {shown \in SUBSET lines :
         /\ shown = lines \/ Cardinality(shown) >= Room
         /\ \A t \in Walk(nx) : nx[t] \in Walk(nx) /\ <<t, states[t]>> \notin shown
                               => <<nx[t], states[nx[t]]>> \notin shown}

(* update_transports: one list is made, and sent to every tracker.         *)
update_transports ==
  \E shown \in list_transports(next', connection_state') :
    seen' = [k \in Trackers |-> IF seen[k] = None THEN None ELSE shown]

(* A request asks for a serial number, or else for a type of device.  An   *)
(* emulator's serial number is made from its port, a TCP device's is its   *)
(* address.                                                                *)
Serial(t) ==
  CASE kind[t] = "usb" -> <<"usb", t>> [] kind[t] = "emu" -> <<"emu", Port[t]>> [] OTHER -> <<"tcp">>

Type(t) == IF kind[t] = "usb" THEN "usb" ELSE "local"

AnyDevice == [serial |-> None, type |-> "any"]
Requests == [serial : {None}, type : {"any", "usb", "local"}]
              \cup [serial : {Serial(t) : t \in Transports}, type : {"any"}]

(* acquire_one_transport, up to the release of transport_lock: read-only   *)
(* transports are passed over; of a serial number the first in the list is *)
(* taken, of a type the only one.                                          *)
Matching(r) ==
  {t \in Listed : /\ connection_state[t] # "NOPERM"
                  /\ IF r.serial # None THEN Serial(t) = r.serial ELSE r.type \in {"any", Type(t)}}

(* Where a walk that stops at the members of S ends.                       *)
First(S) ==
  {t \in S : \A R \in SUBSET Nodes :
     Master \in R /\ (\A n \in R \ S : next[n] \in R) => t \in R}

Ambiguous(r) == r.serial = None /\ \E t, u \in Matching(r) : t # u

Found(r) == IF r.serial # None THEN First(Matching(r))
            ELSE IF Ambiguous(r) THEN {} ELSE Matching(r)

(* ... and after it, with CS_ANY: offline devices are not taken.  The main *)
(* thread is the only one to set states and to free, so to it the two      *)
(* parts are one.                                                          *)
Acquire(r) == {t \in Found(r) : connection_state[t] # "OFFLINE"}

---------------------------------------------------------------------------
(* Registration.                                                           *)

(* Structs are taken in a fixed order: nothing tells them apart.           *)
Fresh(t) == life[t] = "none" /\ t = CHOOSE u \in Transports : life[u] = "none"

Post(t, k, state) ==
  /\ Fresh(t)
  /\ life' = [life EXCEPT ![t] = "posted"]
  /\ kind' = [kind EXCEPT ![t] = k]
  /\ connection_state' = [connection_state EXCEPT ![t] = state]
  /\ registration' = Append(registration, [action |-> 1, transport |-> t])
  /\ UNCHANGED <<list, ref_count, thread, unplugged, cut, forward, seen, wait>>

(* register_usb_transport, by the thread that polls for devices.           *)
register_usb_transport(t, writeable) ==
  /\ Post(t, "usb", IF writeable THEN "OFFLINE" ELSE "NOPERM")
  /\ UNCHANGED local_transports

(* Mutant: the port is not looked up.                                      *)
CanTakeSlot_anyPort(t) == Cardinality(local_transports) < Slots

(* init_socket_transport, under local_transports_lock: an emulator needs a *)
(* free slot, and its port must not be in the table.  connect_emulator     *)
(* looks for both before, in critical sections of their own, and gives up; *)
(* when it does not, what it saw may be stale here, and the scan and       *)
(* host:emulator come here without a look.                                 *)
CanTakeSlot(t) ==
  /\ \A u \in local_transports : Port[u] # Port[t]
  /\ Cardinality(local_transports) < Slots

(* local_connect, by the scan at start-up (client_socket_thread) or for    *)
(* host:emulator and host:connect:emu requests.                            *)
local_connect(t) ==
  /\ CanTakeSlot(t)
  /\ local_transports' = local_transports \cup {t}
  /\ Post(t, "emu", "OFFLINE")

(* connect_device: unless the address is in the list.                      *)
connect_device(t) ==
  /\ \A u \in Listed : kind[u] # "tcp"
  /\ Post(t, "tcp", "OFFLINE")
  /\ UNCHANGED local_transports

(* The reference that is dropped is the last one: t is closed and its      *)
(* removal posted (transport_unref_locked).                                *)
Unref(t) ==
  /\ ref_count' = [ref_count EXCEPT ![t] = @ - 1]
  /\ registration' = IF ref_count[t] = 1
                       THEN Append(registration, [action |-> 0, transport |-> t])
                       ELSE registration
  /\ UNCHANGED <<life, kind>>

(* remote_kick, of the first to kick t: an emulator leaves the table.      *)
Kick(t) == local_transports' = local_transports \ {t}

(* The references of a new transport: its two threads.                     *)
InitialRefs == 2

(* The main loop takes a registration.                                     *)
registration_add ==
  /\ registration # <<>> /\ Head(registration).action = 1
  /\ LET t == Head(registration).transport
         threads == connection_state[t] # "NOPERM"
     IN  /\ next' = [next EXCEPT ![t] = Master, ![prev[Master]] = t]
         /\ prev' = [prev EXCEPT ![t] = prev[Master], ![Master] = t]
         /\ life' = [life EXCEPT ![t] = "live"]
         /\ ref_count' = [ref_count EXCEPT ![t] = IF threads THEN InitialRefs ELSE @]
         /\ running' = IF threads THEN running \cup {<<t, "in">>, <<t, "out">>} ELSE running
  /\ registration' = Tail(registration)
  /\ UNCHANGED connection_state /\ update_transports
  /\ UNCHANGED <<kind, sync, closed, unplugged, cut, local_transports, forward, wait>>

(* run_transport_disconnects: the listeners on t's disconnect list are     *)
(* freed, the remote sockets on it close their connections.                *)
run_transport_disconnects(t) ==
  /\ fwd' = [n \in Forwards |-> IF dis[n] = t THEN None ELSE fwd[n]]
  /\ dis' = [n \in Forwards |-> IF dis[n] = t THEN None ELSE dis[n]]
  /\ conn' = [x \in Conns |-> IF x \in open /\ conn[x] = t THEN None ELSE conn[x]]
  /\ open' = {x \in open : conn[x] # t}

(* The main loop takes a removal.                                          *)
registration_remove ==
  /\ registration # <<>> /\ Head(registration).action = 0
  /\ LET t == Head(registration).transport
     IN  /\ Unlink(t)
         /\ run_transport_disconnects(t)
         /\ life' = [life EXCEPT ![t] = "freed"]
  /\ registration' = Tail(registration)
  /\ UNCHANGED connection_state /\ update_transports
  /\ UNCHANGED <<kind, ref_count, thread, unplugged, cut, local_transports, wait>>

transport_registration_func == registration_add \/ registration_remove

---------------------------------------------------------------------------
(* The end of a transport's threads.                                       *)

(* The output thread cannot read from the device any more: SYNC(0,0) to    *)
(* the main loop, kick, unref.                                             *)
output_ends(t) ==
  /\ <<t, "out">> \in running
  /\ running' = running \ {<<t, "out">>}
  /\ sync' = [sync EXCEPT ![t] = IF life[t] = "live" THEN "main" ELSE @]
  /\ Kick(t) /\ Unref(t)
  /\ UNCHANGED <<list, connection_state, closed, unplugged, cut, forward, seen, wait>>

(* The input thread is told, or its socket is gone: close_all_sockets.     *)
input_close_all(t) ==
  /\ <<t, "in">> \in running /\ t \notin closed
  /\ sync[t] = "input" \/ life[t] = "freed"
  /\ closed' = closed \cup {t}
  /\ conn' = [x \in Conns |-> IF conn[x] = t THEN None ELSE conn[x]]
  /\ open' = {x \in open : conn[x] # t}
  /\ UNCHANGED <<list, struct, connection_state, sync, running, unplugged, cut,
                 local_transports, fwd, dis, seen, wait>>

input_ends(t) ==
  /\ <<t, "in">> \in running /\ t \in closed
  /\ running' = running \ {<<t, "in">>}
  /\ Kick(t) /\ Unref(t)
  /\ UNCHANGED <<list, connection_state, sync, closed, unplugged, cut, forward, seen, wait>>

(* unregister_usb_transport: a read-only device is looked for in the list, *)
(* and unlinked.                                                           *)
unregister_usb_transport(t) ==
  /\ kind[t] = "usb" /\ connection_state[t] = "NOPERM" /\ t \notin unplugged
  /\ unplugged' = unplugged \cup {t}
  /\ IF t \in Listed THEN Unlink(t) ELSE UNCHANGED list
  /\ UNCHANGED <<struct, connection_state, thread, cut, local_transports, forward, seen, wait>>

(* host:disconnect of the TCP device: unlink, kick, unref.                 *)
unregister_transport(t) ==
  /\ kind[t] = "tcp" /\ t \in Listed
  /\ Unlink(t) /\ Kick(t) /\ Unref(t)
  /\ cut' = cut \cup {t}
  /\ UNCHANGED <<connection_state, thread, unplugged, forward, seen, wait>>

---------------------------------------------------------------------------
(* handle_packet, of what changes a transport's state.                     *)

(* Mutant: handle_offline is not called.                                   *)
packet_offline_keepsForwards(t) ==
  /\ life[t] = "live" /\ sync[t] = "main"
  /\ sync' = [sync EXCEPT ![t] = "input"]
  /\ connection_state' = [connection_state EXCEPT ![t] = "OFFLINE"]
  /\ UNCHANGED <<list, struct, running, closed, unplugged, cut, local_transports, forward,
                 seen, wait>>

(* SYNC(0,0).                                                              *)
packet_offline(t) ==
  /\ life[t] = "live" /\ sync[t] = "main"
  /\ sync' = [sync EXCEPT ![t] = "input"]
  /\ connection_state' = [connection_state EXCEPT ![t] = "OFFLINE"]
  /\ run_transport_disconnects(t)
  /\ UNCHANGED <<list, struct, running, closed, unplugged, cut, local_transports, seen, wait>>

(* Mutant: the trackers are not told of the new state.                     *)
packet_cnxn_quiet(t, banner) ==
  /\ life[t] = "live" /\ sync[t] = "no" /\ <<t, "in">> \in running
  /\ connection_state' = [connection_state EXCEPT ![t] = banner]
  /\ IF connection_state[t] # "OFFLINE" THEN run_transport_disconnects(t) ELSE UNCHANGED forward
  /\ UNCHANGED <<list, struct, thread, unplugged, cut, local_transports, seen, wait>>

(* CNXN: handle_offline for a device that was not, then parse_banner; only *)
(* for a banner it knows are the trackers told.                            *)
packet_cnxn(t, banner) ==
  /\ life[t] = "live" /\ sync[t] = "no" /\ <<t, "in">> \in running
  /\ connection_state' = [connection_state EXCEPT ![t] = banner]
  /\ IF connection_state[t] # "OFFLINE" THEN run_transport_disconnects(t) ELSE UNCHANGED forward
  /\ UNCHANGED list
  /\ IF banner = "HOST" THEN UNCHANGED seen ELSE update_transports
  /\ UNCHANGED <<struct, thread, unplugged, cut, local_transports, wait>>

---------------------------------------------------------------------------
(* Port forwarding.                                                        *)

Quiet == UNCHANGED <<list, struct, connection_state, thread, unplugged, cut, local_transports>>

(* Mutant: a listener stays on the disconnect list of its first device.    *)
install_listener_rebound(n, r) ==
  /\ \E t \in Acquire(r) : /\ fwd' = [fwd EXCEPT ![n] = t]
                           /\ dis' = [dis EXCEPT ![n] = IF fwd[n] = None THEN t ELSE @]
  /\ Quiet /\ UNCHANGED <<conn, open, seen, wait>>

(* host:forward: a new listener, or one that is bound to another device.   *)
install_listener(n, r) ==
  /\ \E t \in Acquire(r) : /\ fwd' = [fwd EXCEPT ![n] = t]
                           /\ dis' = [dis EXCEPT ![n] = t]
  /\ Quiet /\ UNCHANGED <<conn, open, seen, wait>>

(* host:killforward.                                                       *)
remove_listener(n, r) ==
  /\ fwd[n] \in Acquire(r)
  /\ fwd' = [fwd EXCEPT ![n] = None] /\ dis' = [dis EXCEPT ![n] = None]
  /\ Quiet /\ UNCHANGED <<conn, open, seen, wait>>

(* listener_event_func: a connection is accepted and bound to the device,  *)
(* without a look at the device's state.                                   *)
listener_event_func(n, x) ==
  /\ fwd[n] # None /\ conn[x] = None
  /\ conn' = [conn EXCEPT ![x] = fwd[n]]
  /\ Quiet /\ UNCHANGED <<fwd, dis, open, seen, wait>>

(* OKAY of the device: create_remote_socket.                               *)
packet_okay(x) ==
  /\ conn[x] # None /\ x \notin open
  /\ sync[conn[x]] = "no" /\ connection_state[conn[x]] # "OFFLINE"
  /\ open' = open \cup {x}
  /\ Quiet /\ UNCHANGED <<fwd, dis, conn, seen, wait>>

(* Either end closes a connection; one that is not open yet can only be    *)
(* refused by the device.                                                  *)
socket_close(x) ==
  /\ conn[x] # None
  /\ x \in open \/ (sync[conn[x]] = "no" /\ connection_state[conn[x]] # "OFFLINE")
  /\ conn' = [conn EXCEPT ![x] = None] /\ open' = open \ {x}
  /\ Quiet /\ UNCHANGED <<fwd, dis, seen, wait>>

---------------------------------------------------------------------------
(* track-devices and wait-for-any.                                         *)

(* create_device_tracker; the socket is ready at once, so the list is sent. *)
create_device_tracker(k) ==
  /\ seen[k] = None
  /\ \E shown \in list_transports(next, connection_state) : seen' = [seen EXCEPT ![k] = shown]
  /\ Quiet /\ UNCHANGED <<forward, wait>>

device_tracker_close(k) ==
  /\ seen[k] # None
  /\ seen' = [seen EXCEPT ![k] = None]
  /\ Quiet /\ UNCHANGED <<forward, wait>>

wait_for_state(w) ==
  /\ wait[w] = "idle"
  /\ wait' = [wait EXCEPT ![w] = "look"]
  /\ Quiet /\ UNCHANGED <<forward, seen>>

(* Mutant: more than one device is waited out, too.                        *)
wait_look_patient(w) ==
  /\ wait[w] = "look" /\ Found(AnyDevice) # {}
  /\ wait' = [wait EXCEPT ![w] = CHOOSE t \in Found(AnyDevice) : TRUE]
  /\ Quiet /\ UNCHANGED <<forward, seen>>

(* acquire_one_transport(CS_DEVICE) in a service thread.  Under            *)
(* transport_lock: nothing is looked for again after a second, more than   *)
(* one is an error.                                                        *)
wait_look(w) ==
  /\ wait[w] = "look"
  /\ wait' = [wait EXCEPT ![w] = IF Ambiguous(AnyDevice) THEN "FAIL"
                                 ELSE IF Found(AnyDevice) = {} THEN @
                                 ELSE CHOOSE t \in Found(AnyDevice) : TRUE]
  /\ Quiet /\ UNCHANGED <<forward, seen>>

(* After the lock is released: the state is read, of a transport that may  *)
(* have been freed since.                                                  *)
wait_test(w) ==
  /\ wait[w] \in Transports
  /\ \E state \in IF life[wait[w]] = "freed" THEN {"DEVICE", "freed"}
                  ELSE {connection_state[wait[w]]} :
       wait' = [wait EXCEPT ![w] = IF state = "DEVICE" THEN "OKAY" ELSE "look"]
  /\ Quiet /\ UNCHANGED <<forward, seen>>

Wait(w) == wait_look(w) \/ wait_test(w)

---------------------------------------------------------------------------
Next ==
  \/ \E t \in Transports :
       \/ \E writeable \in BOOLEAN : register_usb_transport(t, writeable)
       \/ local_connect(t) \/ connect_device(t)
       \/ output_ends(t) \/ input_close_all(t) \/ input_ends(t)
       \/ unregister_usb_transport(t)
       \/ packet_offline(t)
       \/ \E banner \in {"DEVICE", "HOST"} : packet_cnxn(t, banner)
  \/ transport_registration_func
  \/ \E n \in Forwards, r \in Requests : install_listener(n, r) \/ remove_listener(n, r)
  \/ \E n \in Forwards, x \in Conns : listener_event_func(n, x)
  \/ \E x \in Conns : packet_okay(x) \/ socket_close(x)
  \/ \E k \in Trackers : create_device_tracker(k) \/ device_tracker_close(k)
  \/ \E w \in Waiters : wait_for_state(w) \/ Wait(w)

(* The server that also serves host:disconnect requests.                   *)
NextDisconnect == Next \/ \E t \in Transports : unregister_transport(t)

(* The threads run, and the main loop serves all its descriptors.          *)
Fairness ==
  /\ WF_vars(transport_registration_func)
  /\ \A t \in Transports : /\ WF_vars(packet_offline(t))
                           /\ WF_vars(input_close_all(t) \/ input_ends(t))
  /\ \A w \in Waiters : WF_vars(Wait(w))

Spec == Init /\ [][Next]_vars
FairSpec == Spec /\ Fairness
SpecDisconnect == Init /\ [][NextDisconnect]_vars

---------------------------------------------------------------------------
(* The types; a transport never has more references than threads.          *)
TypeOK ==
  /\ next \in [Nodes -> Nodes] /\ prev \in [Nodes -> Nodes]
  /\ life \in [Transports -> {"none", "posted", "live", "freed"}]
  /\ kind \in [Transports -> {None, "usb", "emu", "tcp"}]
  /\ connection_state \in [Transports -> {"OFFLINE", "DEVICE", "HOST", "NOPERM"}]
  /\ ref_count \in [Transports -> 0..2]
  /\ sync \in [Transports -> {"no", "main", "input"}]
  /\ running \subseteq Transports \X {"in", "out"}
  /\ closed \cup unplugged \cup cut \cup local_transports \subseteq Transports
  /\ fwd \in [Forwards -> Transports \cup {None}] /\ dis \in [Forwards -> Transports \cup {None}]
  /\ conn \in [Conns -> Transports \cup {None}] /\ open \subseteq Conns
  /\ wait \in [Waiters -> Transports \cup {"idle", "look", "OKAY", "FAIL"}]

(* adb.c:1203 "return a list of all connected devices": a transport that   *)
(* has been put on the list, and neither removed nor disconnected, is      *)
(* found on it, and what is found is not freed.                            *)
ConnectedIsListed ==
  /\ \A t \in Transports : life[t] = "live" /\ t \notin unplugged \cup cut => t \in Listed
  /\ \A t \in Listed : life[t] = "live"

(* adb.c:1125: two threads may find a port free, but no two transports are *)
(* registered for one port: of the emulators that are not yet kicked there *)
(* is one per port, and the table holds nothing that has been freed.  The  *)
(* types are part of it.                                                   *)
OnePerPort ==
  /\ TypeOK
  /\ \A t, u \in local_transports : Port[t] = Port[u] => t = u
  /\ \A t \in local_transports : life[t] # "freed"

(* A forward exists only for as long as its device is online, however it   *)
(* was bound and bound again: no connection is accepted for a device that  *)
(* is offline, or on behalf of a transport that has been freed.            *)
ForwardIsOnline ==
  \A n \in Forwards : fwd[n] # None => life[fwd[n]] = "live" /\ connection_state[fwd[n]] # "OFFLINE"

(* transport.c:349: once the input thread has closed the sockets of its    *)
(* transport nothing is bound to it any more, and nothing is bound later.  *)
NothingLeftOpen == \A x \in Conns : conn[x] \notin closed

(* What a tracker was last told: every usable device is shown as one -     *)
(* unless the buffer was full before its line (transport.c:856 "discard    *)
(* last line if buffer is too short"), and then it is not shown with an    *)
(* old state either - and a transport that has been freed is not shown.    *)
TrackersTold ==
  \A k \in Trackers : seen[k] # None =>
    /\ \A t \in Listed : connection_state[t] = "DEVICE" =>
         \/ <<t, "DEVICE">> \in seen[k]
         \/ Cardinality(seen[k]) >= Room /\ \A shown \in seen[k] : shown[1] # t
    /\ \A shown \in seen[k] : life[shown[1]] = "live"

(* wait-for-device returns when there is, and stays, a device: the states  *)
(* a waiter read earlier, and transports freed between its look and its    *)
(* test, do not make it miss it.                                           *)
WaiterReturns ==
  \A w \in Waiters :
    <>[](\E t \in Listed : connection_state[t] = "DEVICE")
      => (wait[w] = "look" ~> wait[w] \in {"OKAY", "FAIL"})

============================================================================
