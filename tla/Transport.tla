----------------------------- MODULE Transport -----------------------------
(***************************************************************************)
(* The life of an atransport in the adb host server: the registration      *)
(* socket, the input and the output thread of every transport, the packet  *)
(* socketpair between those threads and the main loop, the SYNC protocol,  *)
(* reference counting, kicking, closing and freeing - and the client       *)
(* sockets that are bound to a transport while all of this happens.        *)
(*                                                                         *)
(* Threads: the main loop (fdevent_loop), one input and one output thread  *)
(* per registered transport, and whatever thread registers a device (USB   *)
(* poll thread, emulator scan).  One action is one step of one thread that *)
(* no other thread can interleave with: a handler of the main loop, or the *)
(* part of a thread between two operations on shared state.                *)
(***************************************************************************)
EXTENDS Integers, Sequences

CONSTANTS
  Transports,     \* the atransport structures that may be allocated
  Clients,        \* local sockets: of clients, each with its smart socket,
                  \* or of services that a device opens here
  NoTransport,    \* s->transport == NULL
  Local,          \* transports over a TCP socket (transport_local.c)
  MaxRecv         \* bound: packets each device sends per connection

ASSUME TransportAssumption ==
  /\ Local \subseteq Transports
  /\ NoTransport \notin Transports
  /\ MaxRecv \in [Transports -> Nat]

VARIABLES
  alloc,            \* "none", "live" or "freed": the struct itself
  registration,     \* tmsgs in the registration socketpair
  transport_list,   \* the transports linked in the master list
  ref_count, sync_token, connection_state,   \* fields of atransport
  kicked,           \* the transports with t->kicked set
  out, inp,         \* program counters of the output and the input thread
  active,           \* the transports whose input_thread has active set
  toMain,           \* packets written to t->fd, read at transport_socket
  toThread,         \* packets written to transport_socket, read at t->fd
  sockOpen,         \* those whose transport_socket (and fdevent) is open
  fdCloses,         \* how often t->fd has been closed
  kicks, closes,    \* calls of t->kick and of t->close
  remote,           \* "up" while the link to the device works
  recvd,            \* packets read from the device so far
  opened,           \* sockets whose stream the device knows of
  cstate, ctrans,   \* life of a client socket, and its transport
  status,           \* status message the client has been sent
  fatal             \* "no", or why send_packet called fatal_errno

structVars == <<alloc, registration, transport_list>>
refVars    == <<ref_count, kicked, kicks, closes>>
pipeVars   == <<toMain, toThread, sockOpen, fdCloses>>
devVars    == <<remote, recvd, opened>>
clientVars == <<cstate, ctrans, status>>
vars == <<structVars, refVars, pipeVars, devVars, clientVars, sync_token,
          connection_state, out, inp, active, fatal>>

---------------------------------------------------------------------------
(* Packets.  arg is arg0 of SYNC(0,0), the token of SYNC(1,token), or the  *)
(* client whose socket id the packet carries.                              *)
Sync(n)    == [cmd |-> "SYNC", arg |-> n]
Cnxn       == [cmd |-> "CNXN", arg |-> 0]
Pkt(cmd,c) == [cmd |-> cmd, arg |-> c]
Offline    == Sync(0)

Packet == [cmd : {"SYNC"}, arg : Nat] \cup {Cnxn}
            \cup [cmd : {"OPEN", "OKAY", "CLSE", "WRTE"}, arg : Clients]

Tmsg == [transport : Transports, action : {0, 1}]

ConnStates == {"OFFLINE", "DEVICE", "HOST", "NOPERM"}
OutPcs == {"none", "start", "read", "offline", "kick", "kicking", "unref", "done"}
InPcs  == {"none", "read", "close_all", "kick", "kicking", "unref", "done"}

(* A device sends CNXN, opens streams of its own, and answers and closes   *)
(* the streams it knows.  The c of its OPEN is the local socket that the   *)
(* stream gets here, if it gets one.  SYNC is never on the wire: the input *)
(* thread, the same code on the device, takes it out (transport.c:325-337).*)
FromDevice(t) == {Cnxn} \cup [cmd : {"OPEN"}, arg : Clients]
                        \cup [cmd : {"OKAY", "CLSE", "WRTE"}, arg : opened[t]]

Init ==
  /\ alloc = [t \in Transports |-> "none"]
  /\ registration = << >>
  /\ transport_list = {}
  /\ ref_count = [t \in Transports |-> 0]
  /\ kicked = {}
  /\ sync_token = [t \in Transports |-> 1]
  /\ connection_state = [t \in Transports |-> "OFFLINE"]
  /\ out = [t \in Transports |-> "none"]
  /\ inp = [t \in Transports |-> "none"]
  /\ active = {}
  /\ toMain = [t \in Transports |-> << >>]
  /\ toThread = [t \in Transports |-> << >>]
  /\ sockOpen = {}
  /\ fdCloses = [t \in Transports |-> 0]
  /\ kicks = [t \in Transports |-> 0]
  /\ closes = [t \in Transports |-> 0]
  /\ remote = [t \in Transports |-> "up"]
  /\ recvd = [t \in Transports |-> 0]
  /\ opened = [t \in Transports |-> {}]
  /\ cstate = [c \in Clients |-> "idle"]
  /\ ctrans = [c \in Clients |-> NoTransport]
  /\ status = [c \in Clients |-> "none"]
  /\ fatal = "no"

---------------------------------------------------------------------------
(* Registration.                                                           *)

(* register_usb_transport / register_socket_transport: allocate the        *)
(* struct and post it to the main loop.  Only a USB device can be one we   *)
(* may not write to.                                                       *)
register_transport(t, state) ==
  /\ alloc[t] = "none"
  /\ state = "NOPERM" => t \notin Local
  /\ alloc' = [alloc EXCEPT ![t] = "live"]
  /\ connection_state' = [connection_state EXCEPT ![t] = state]
  /\ registration' = Append(registration, [transport |-> t, action |-> 1])
  /\ UNCHANGED <<transport_list, refVars, pipeVars, devVars, clientVars,
                 sync_token, out, inp, active, fatal>>

(* The main loop takes a registration: socketpair, two references, two     *)
(* threads - unless the device is inaccessible - and the master list.      *)
registration_add ==
  /\ registration # << >> /\ Head(registration).action = 1
  /\ LET t == Head(registration).transport
         threads == connection_state[t] # "NOPERM"
     IN /\ transport_list' = transport_list \cup {t}
        /\ ref_count' = [ref_count EXCEPT ![t] = IF threads THEN 2 ELSE @]
        /\ sockOpen' = IF threads THEN sockOpen \cup {t} ELSE sockOpen
        /\ out' = [out EXCEPT ![t] = IF threads THEN "start" ELSE @]
        /\ inp' = [inp EXCEPT ![t] = IF threads THEN "read" ELSE @]
  /\ registration' = Tail(registration)
  /\ UNCHANGED <<alloc, kicked, kicks, closes, toMain, toThread, fdCloses,
                 devVars, clientVars, sync_token, connection_state, active, fatal>>

(* run_transport_disconnects: every remote socket on t goes away and       *)
(* closes the local socket it is the peer of.                              *)
Disconnected(t) ==
  [c \in Clients |-> IF cstate[c] = "connected" /\ ctrans[c] = t THEN "closed" ELSE cstate[c]]

run_transport_disconnects(t) == cstate' = Disconnected(t)

(* The main loop takes a removal: both halves of the socketpair are        *)
(* closed, t leaves the list, its disconnects run, and it is freed.        *)
registration_remove ==
  /\ registration # << >> /\ Head(registration).action = 0
  /\ LET t == Head(registration).transport IN
       /\ sockOpen' = sockOpen \ {t}
       /\ fdCloses' = [fdCloses EXCEPT ![t] = @ + 1]
       /\ transport_list' = transport_list \ {t}
       /\ run_transport_disconnects(t)
       /\ alloc' = [alloc EXCEPT ![t] = "freed"]
  /\ registration' = Tail(registration)
  /\ UNCHANGED <<refVars, toMain, toThread, devVars, ctrans, status,
                 sync_token, connection_state, out, inp, active, fatal>>

(* The reference that transport_unref_locked drops is the last one.        *)
LastRef_early(t) == ref_count[t] <= 2
LastRef(t) == ref_count[t] = 1

(* transport_unref_locked, called with transport_lock held.                *)
(* The last reference closes t and posts its removal.                      *)
transport_unref_locked(t) ==
  LET last == LastRef(t)
      first == last /\ t \notin kicked
  IN /\ ref_count' = [ref_count EXCEPT ![t] = @ - 1]
     /\ kicks' = [kicks EXCEPT ![t] = IF first THEN @ + 1 ELSE @]
     /\ kicked' = IF last THEN kicked \cup {t} ELSE kicked
     /\ remote' = [remote EXCEPT ![t] = IF first THEN "down" ELSE @]
     /\ closes' = [closes EXCEPT ![t] = IF last THEN @ + 1 ELSE @]
     /\ fdCloses' = [fdCloses EXCEPT ![t] = IF last /\ t \in Local THEN @ + 1 ELSE @]
     /\ registration' = IF last THEN Append(registration, [transport |-> t, action |-> 0])
                                ELSE registration

---------------------------------------------------------------------------
(* The output thread: device -> main loop.                                 *)

(* A write to t->fd fails once the main loop has closed the other half.    *)
output_start(t) ==
  /\ out[t] = "start"
  /\ sync_token' = [sync_token EXCEPT ![t] = @ + 1]
  /\ toMain' = [toMain EXCEPT ![t] =
                   IF t \in sockOpen THEN Append(@, Sync(sync_token[t] + 1)) ELSE @]
  /\ out' = [out EXCEPT ![t] = IF t \in sockOpen THEN "read" ELSE "kick"]
  /\ UNCHANGED <<structVars, refVars, toThread, sockOpen, fdCloses, devVars,
                 clientVars, connection_state, inp, active, fatal>>

(* read_from_remote succeeded: the packet goes to the main loop.           *)
output_read(t, p) ==
  /\ out[t] = "read" /\ remote[t] = "up" /\ recvd[t] < MaxRecv[t]
  /\ recvd' = [recvd EXCEPT ![t] = @ + 1]
  /\ toMain' = [toMain EXCEPT ![t] = IF t \in sockOpen THEN Append(@, p) ELSE @]
  /\ out' = [out EXCEPT ![t] = IF t \in sockOpen THEN @ ELSE "kick"]
  /\ UNCHANGED <<structVars, refVars, toThread, sockOpen, fdCloses, remote,
                 opened, clientVars, sync_token, connection_state, inp, active, fatal>>

(* read_from_remote failed.                                                *)
output_read_failed(t) ==
  /\ out[t] = "read" /\ remote[t] = "down"
  /\ out' = [out EXCEPT ![t] = "offline"]
  /\ UNCHANGED <<structVars, refVars, pipeVars, devVars, clientVars,
                 sync_token, connection_state, inp, active, fatal>>

(* SYNC(0,0) to the main loop; a failure to write it is only logged.       *)
output_offline_unsent(t) ==
  /\ out[t] = "offline"
  /\ out' = [out EXCEPT ![t] = "kick"]
  /\ UNCHANGED <<structVars, refVars, pipeVars, devVars,
                 clientVars, sync_token, connection_state, inp, active, fatal>>

output_offline(t) ==
  /\ out[t] = "offline"
  /\ toMain' = [toMain EXCEPT ![t] = IF t \in sockOpen THEN Append(@, Offline) ELSE @]
  /\ out' = [out EXCEPT ![t] = "kick"]
  /\ UNCHANGED <<structVars, refVars, toThread, sockOpen, fdCloses, devVars,
                 clientVars, sync_token, connection_state, inp, active, fatal>>

(* kick_transport: the first one to set t->kicked under transport_lock     *)
(* goes on to call t->kick, outside the lock.                              *)
FirstKick(t) == t \notin kicked

output_kick(t) ==
  /\ out[t] = "kick"
  /\ kicked' = kicked \cup {t}
  /\ out' = [out EXCEPT ![t] = IF FirstKick(t) THEN "kicking" ELSE "unref"]
  /\ UNCHANGED <<structVars, ref_count, kicks, closes, pipeVars, devVars,
                 clientVars, sync_token, connection_state, inp, active, fatal>>

(* t->kick(t): shut down the TCP socket or cancel the USB transfers.       *)
kick(t) ==
  /\ kicks' = [kicks EXCEPT ![t] = @ + 1]
  /\ remote' = [remote EXCEPT ![t] = "down"]

output_kicking(t) ==
  /\ out[t] = "kicking"
  /\ kick(t)
  /\ out' = [out EXCEPT ![t] = "unref"]
  /\ UNCHANGED <<structVars, ref_count, kicked, closes, pipeVars, recvd, opened,
                 clientVars, sync_token, connection_state, inp, active, fatal>>

output_unref(t) ==
  /\ out[t] = "unref"
  /\ transport_unref_locked(t)
  /\ out' = [out EXCEPT ![t] = "done"]
  /\ UNCHANGED <<alloc, transport_list, toMain, toThread, sockOpen, recvd, opened,
                 clientVars, sync_token, connection_state, inp, active, fatal>>

---------------------------------------------------------------------------
(* The input thread: main loop -> device.                                  *)

(* The next packet of the socketpair.  What the device is sent is ignored  *)
(* by the code when it cannot be written.                                  *)
input_read(t) ==
  /\ inp[t] = "read" /\ toThread[t] # << >>
  /\ LET p == Head(toThread[t]) IN
       /\ inp' = [inp EXCEPT ![t] = IF p = Offline THEN "close_all" ELSE @]
       /\ active' = IF p = Sync(sync_token[t]) THEN active \cup {t} ELSE active
       /\ opened' = [opened EXCEPT ![t] =
                       IF p.cmd \in {"OPEN", "OKAY"} /\ t \in active /\ remote[t] = "up"
                         THEN @ \cup {p.arg} ELSE @]
  /\ toThread' = [toThread EXCEPT ![t] = Tail(@)]
  /\ UNCHANGED <<structVars, refVars, toMain, sockOpen, fdCloses, remote, recvd,
                 clientVars, sync_token, connection_state, out, fatal>>

(* read_packet fails: the socketpair is gone.                              *)
input_read_failed(t) ==
  /\ inp[t] = "read"
  /\ t \notin sockOpen \/ fdCloses[t] > 0
  /\ inp' = [inp EXCEPT ![t] = "close_all"]
  /\ UNCHANGED <<structVars, refVars, pipeVars, devVars, clientVars,
                 sync_token, connection_state, out, active, fatal>>

(* send_packet ends the server in fatal_errno when the socketpair cannot be *)
(* written, and just the same when t itself is no more: its                *)
(* transport_socket then is the 0xee that fills a freed transport.         *)
SendResult(t) ==
  IF alloc[t] = "freed" THEN "freed"
  ELSE IF t \notin sockOpen \/ fdCloses[t] > 0 THEN "write" ELSE fatal

(* Any number of calls of send_packet, in order.                           *)
send_packet(t, ps) ==
  /\ toThread' = [toThread EXCEPT ![t] = @ \o ps]
  /\ fatal' = IF ps = << >> THEN fatal ELSE SendResult(t)

(* close_all_sockets, with socket_list_lock held: every local socket whose *)
(* transport - or whose smart or remote socket's transport - is t.  It     *)
(* closes them directly, so no status message is sent.  A remote socket    *)
(* sends a CLSE that nobody reads any more: its reader is this thread.     *)
SocketsOf_peersOnly(t) == {c \in Clients : ctrans[c] = t /\ cstate[c] \in {"smart", "connected"}}
SocketsOf(t) == {c \in Clients : ctrans[c] = t /\ cstate[c] \in {"smart", "opening", "connected"}}
Bound(t, states) == {c \in Clients : ctrans[c] = t /\ cstate[c] \in states}

input_close_all(t) ==
  /\ inp[t] = "close_all"
  /\ cstate' = [c \in Clients |->
                  IF c \in SocketsOf(t) THEN "closed" ELSE cstate[c]]
  /\ fatal' = IF Bound(t, {"connected"}) = {} THEN fatal ELSE SendResult(t)
  /\ inp' = [inp EXCEPT ![t] = "kick"]
  /\ UNCHANGED <<structVars, refVars, pipeVars, devVars, ctrans,
                 status, sync_token, connection_state, out, active>>

input_kick(t) ==
  /\ inp[t] = "kick"
  /\ kicked' = kicked \cup {t}
  /\ inp' = [inp EXCEPT ![t] = IF FirstKick(t) THEN "kicking" ELSE "unref"]
  /\ UNCHANGED <<structVars, ref_count, kicks, closes, pipeVars, devVars,
                 clientVars, sync_token, connection_state, out, active, fatal>>

input_kicking(t) ==
  /\ inp[t] = "kicking"
  /\ kick(t)
  /\ inp' = [inp EXCEPT ![t] = "unref"]
  /\ UNCHANGED <<structVars, ref_count, kicked, closes, pipeVars, recvd, opened,
                 clientVars, sync_token, connection_state, out, active, fatal>>

input_unref(t) ==
  /\ inp[t] = "unref"
  /\ transport_unref_locked(t)
  /\ inp' = [inp EXCEPT ![t] = "done"]
  /\ UNCHANGED <<alloc, transport_list, toMain, toThread, sockOpen, recvd, opened,
                 clientVars, sync_token, connection_state, out, active, fatal>>

---------------------------------------------------------------------------
(* transport_socket_events: the main loop reads one packet of a transport  *)
(* and handles it.                                                         *)
Reads(t, p) ==
  /\ t \in sockOpen /\ toMain[t] # << >> /\ Head(toMain[t]) = p
  /\ toMain' = [toMain EXCEPT ![t] = Tail(@)]

(* SYNC(1,token): echo it to the input thread, then introduce ourselves.   *)
packet_sync_online(t) ==
  /\ LET p == Head(toMain[t]) IN
       /\ Reads(t, p) /\ p.cmd = "SYNC" /\ p # Offline
       /\ send_packet(t, <<p, Cnxn>>)
  /\ UNCHANGED <<structVars, refVars, sockOpen, fdCloses, devVars, clientVars,
                 sync_token, connection_state, out, inp, active>>

(* SYNC(0,0): the transport is offline, its remote sockets go away, and    *)
(* the input thread is told.                                               *)
packet_sync_offline_stillOnline(t) ==
  /\ Reads(t, Offline)
  /\ run_transport_disconnects(t)
  /\ send_packet(t, <<Offline>>)
  /\ UNCHANGED <<structVars, refVars, sockOpen, fdCloses, devVars, ctrans, status,
                 connection_state, sync_token, out, inp, active>>

packet_sync_offline(t) ==
  /\ Reads(t, Offline)
  /\ connection_state' = [connection_state EXCEPT ![t] = "OFFLINE"]
  /\ run_transport_disconnects(t)
  /\ send_packet(t, <<Offline>>)
  /\ UNCHANGED <<structVars, refVars, sockOpen, fdCloses, devVars, ctrans, status,
                 sync_token, out, inp, active>>

(* CNXN: a device that was online is first taken offline; parse_banner     *)
(* then gives the state, CS_HOST for a banner it does not know.            *)
Banners == {"DEVICE", "HOST"}

packet_cnxn(t) ==
  /\ Reads(t, Cnxn)
  /\ cstate' = IF connection_state[t] # "OFFLINE" THEN Disconnected(t) ELSE cstate
  /\ \E banner \in Banners :
        connection_state' = [connection_state EXCEPT ![t] = banner]
  /\ UNCHANGED <<structVars, refVars, toThread, sockOpen, fdCloses, devVars, ctrans,
                 status, sync_token, out, inp, active, fatal>>

(* The packets that name a local socket are dropped while offline, and     *)
(* when find_local_socket does not know the id.                            *)
Found(t, c) == connection_state[t] # "OFFLINE" /\ cstate[c] \in {"opening", "connected"}

packet_dropped(t, c) ==
  /\ \/ Reads(t, Pkt("OPEN", c)) /\ connection_state[t] = "OFFLINE"
     \/ \E cmd \in {"OKAY", "CLSE", "WRTE"} : Reads(t, Pkt(cmd, c)) /\ ~Found(t, c)
  /\ UNCHANGED <<structVars, refVars, toThread, sockOpen, fdCloses, devVars, clientVars,
                 sync_token, connection_state, out, inp, active, fatal>>

(* OPEN: create_local_service_socket makes a local socket, connected from  *)
(* the start, and OKAY goes back; or it cannot, and CLSE does.             *)
packet_open(t, c) ==
  /\ Reads(t, Pkt("OPEN", c))
  /\ connection_state[t] # "OFFLINE"
  /\ \/ /\ cstate[c] = "idle"
        /\ cstate' = [cstate EXCEPT ![c] = "connected"]
        /\ ctrans' = [ctrans EXCEPT ![c] = t]
        /\ send_packet(t, <<Pkt("OKAY", c)>>)
     \/ /\ UNCHANGED <<cstate, ctrans>>
        /\ send_packet(t, <<Pkt("CLSE", c)>>)
  /\ UNCHANGED <<structVars, refVars, sockOpen, fdCloses, devVars, status,
                 sync_token, connection_state, out, inp, active>>

(* OKAY: the first one makes the remote socket and, through                *)
(* local_socket_ready_notify, tells the client.                            *)
packet_okay(t, c) ==
  /\ Reads(t, Pkt("OKAY", c))
  /\ Found(t, c)
  /\ cstate' = [cstate EXCEPT ![c] = "connected"]
  /\ ctrans' = [ctrans EXCEPT ![c] = IF cstate[c] = "opening" THEN t ELSE @]
  /\ status' = [status EXCEPT ![c] = IF cstate[c] = "opening" THEN "OKAY" ELSE @]
  /\ UNCHANGED <<structVars, refVars, toThread, sockOpen, fdCloses, devVars,
                 sync_token, connection_state, out, inp, active, fatal>>

(* s->close of the socket that a packet names.  One that waits for its     *)
(* OKAY has local_socket_close_notify and fails its client; a connected    *)
(* one answers CLSE from its remote socket's close.                        *)
packet_closes(t, cmd, c) ==
  /\ Reads(t, Pkt(cmd, c))
  /\ Found(t, c)
  /\ cstate' = [cstate EXCEPT ![c] = "closed"]
  /\ status' = [status EXCEPT ![c] = IF cstate[c] = "opening" THEN "FAIL" ELSE @]
  /\ send_packet(ctrans[c], IF cstate[c] = "connected" THEN <<Pkt("CLSE", c)>> ELSE << >>)
  /\ UNCHANGED <<structVars, refVars, sockOpen, fdCloses, devVars, ctrans,
                 sync_token, connection_state, out, inp, active>>

(* CLSE, and a WRTE that local_socket_enqueue cannot write to the fd.      *)
packet_clse(t, c) == packet_closes(t, "CLSE", c)
packet_wrte_failed(t, c) == packet_closes(t, "WRTE", c)

(* WRTE: OKAY goes back at once unless the client's socket is full.        *)
packet_wrte(t, c) ==
  /\ Reads(t, Pkt("WRTE", c))
  /\ Found(t, c)
  /\ \E reply \in {<< >>, <<Pkt("OKAY", c)>>} : send_packet(t, reply)
  /\ UNCHANGED <<structVars, refVars, sockOpen, fdCloses, devVars, clientVars,
                 sync_token, connection_state, out, inp, active>>

---------------------------------------------------------------------------
(* Client sockets, all served by the main loop.                            *)

(* acquire_one_transport(CS_ANY) may return t: it is in the list, is not   *)
(* passed over for want of permission, and is not refused as offline.      *)
acquire_one_transport(t) ==
  t \in transport_list /\ connection_state[t] \notin {"NOPERM", "OFFLINE"}

(* handle_host_request of "host:transport...": the smart socket keeps the  *)
(* pointer to what is found, and nothing counts it.                        *)
client_transport(c, t) ==
  /\ cstate[c] = "idle"
  /\ acquire_one_transport(t)
  /\ cstate' = [cstate EXCEPT ![c] = "smart"]
  /\ ctrans' = [ctrans EXCEPT ![c] = t]
  /\ UNCHANGED <<structVars, refVars, pipeVars, devVars, status,
                 sync_token, connection_state, out, inp, active, fatal>>

(* The client's second request: FAIL when the transport is offline, else   *)
(* OPEN to the device.  A freed transport reads 0xee, which is not         *)
(* CS_OFFLINE.                                                             *)
client_request(c) ==
  /\ cstate[c] = "smart"
  /\ LET t == ctrans[c]
         offline == connection_state[t] = "OFFLINE" /\ alloc[t] # "freed"
     IN /\ cstate' = [cstate EXCEPT ![c] = IF offline THEN "closed" ELSE "opening"]
        /\ status' = [status EXCEPT ![c] = IF offline THEN "FAIL" ELSE @]
        /\ send_packet(t, IF offline THEN << >> ELSE <<Pkt("OPEN", c)>>)
  /\ UNCHANGED <<structVars, refVars, toMain, sockOpen, fdCloses, devVars, ctrans,
                 sync_token, connection_state, out, inp, active>>

(* The client hangs up.  While it waits for OKAY nobody reads its fd.      *)
client_hangup(c) ==
  /\ cstate[c] \in {"smart", "connected"}
  /\ cstate' = [cstate EXCEPT ![c] = "closed"]
  /\ send_packet(ctrans[c], IF cstate[c] = "connected" THEN <<Pkt("CLSE", c)>> ELSE << >>)
  /\ UNCHANGED <<structVars, refVars, toMain, sockOpen, fdCloses, devVars, ctrans, status,
                 sync_token, connection_state, out, inp, active>>

---------------------------------------------------------------------------
(* The environment, and the operations of other threads.                   *)

(* The device goes away or sends a packet check_header refuses.            *)
Unplug(t) ==
  /\ remote[t] = "up" /\ out[t] # "none"
  /\ remote' = [remote EXCEPT ![t] = "down"]
  /\ UNCHANGED <<structVars, refVars, pipeVars, recvd, opened, clientVars,
                 sync_token, connection_state, out, inp, active, fatal>>

(* usb_kick of a handle we cannot write: the transport only leaves the     *)
(* list; it is not freed.                                                  *)
unregister_usb_transport(t) ==
  /\ t \in transport_list /\ connection_state[t] = "NOPERM"
  /\ transport_list' = transport_list \ {t}
  /\ UNCHANGED <<alloc, registration, refVars, pipeVars, devVars, clientVars,
                 sync_token, connection_state, out, inp, active, fatal>>

---------------------------------------------------------------------------
Receives(t) == \E p \in FromDevice(t) : output_read(t, p)

OutputThread(t) ==
  \/ output_start(t)
  \/ output_read_failed(t)
  \/ output_offline(t)
  \/ output_kick(t)
  \/ output_kicking(t)
  \/ output_unref(t)

InputThread(t) ==
  \/ input_read(t)
  \/ input_read_failed(t)
  \/ input_close_all(t)
  \/ input_kick(t)
  \/ input_kicking(t)
  \/ input_unref(t)

handle_packet(t) ==
  \/ packet_sync_online(t)
  \/ packet_sync_offline(t)
  \/ packet_cnxn(t)
  \/ \E c \in Clients : \/ packet_dropped(t, c)
                        \/ packet_open(t, c)
                        \/ packet_okay(t, c)
                        \/ packet_clse(t, c)
                        \/ packet_wrte(t, c)
                        \/ packet_wrte_failed(t, c)

transport_registration_func == registration_add \/ registration_remove

Next ==
  /\ fatal = "no"
  /\ \/ \E t \in Transports :
          \/ \E s \in {"OFFLINE", "NOPERM"} : register_transport(t, s)
          \/ Receives(t)
          \/ OutputThread(t)
          \/ InputThread(t)
          \/ handle_packet(t)
          \/ Unplug(t)
          \/ unregister_usb_transport(t)
          \/ \E c \in Clients : client_transport(c, t)
     \/ transport_registration_func
     \/ \E c \in Clients : client_request(c) \/ client_hangup(c)

(* Every thread runs, and fdevent_process serves every descriptor that is  *)
(* ready in each round.  Nothing is assumed of devices and of clients.     *)
Fairness ==
  /\ \A t \in Transports : /\ WF_vars(fatal = "no" /\ OutputThread(t))
                           /\ WF_vars(fatal = "no" /\ InputThread(t))
                           /\ WF_vars(fatal = "no" /\ handle_packet(t))
  /\ WF_vars(fatal = "no" /\ transport_registration_func)

Spec == Init /\ [][Next]_vars
FairSpec == Spec /\ Fairness

---------------------------------------------------------------------------
(* Properties.                                                             *)

(* The types of all variables; a transport is in the list only while its   *)
(* struct is allocated.                                                    *)
TypeOK ==
  /\ alloc \in [Transports -> {"none", "live", "freed"}]
  /\ registration \in Seq(Tmsg)
  /\ transport_list \subseteq Transports
  /\ ref_count \in [Transports -> Int]
  /\ kicked \subseteq Transports
  /\ sync_token \in [Transports -> Nat]
  /\ connection_state \in [Transports -> ConnStates]
  /\ out \in [Transports -> OutPcs]
  /\ inp \in [Transports -> InPcs]
  /\ active \subseteq Transports
  /\ toMain \in [Transports -> Seq(Packet)]
  /\ toThread \in [Transports -> Seq(Packet)]
  /\ sockOpen \subseteq Transports
  /\ fdCloses \in [Transports -> Nat]
  /\ kicks \in [Transports -> Nat]
  /\ closes \in [Transports -> Nat]
  /\ remote \in [Transports -> {"up", "down"}]
  /\ recvd \in [Transports -> Nat]
  /\ opened \in [Transports -> SUBSET Clients]
  /\ cstate \in [Clients -> {"idle", "smart", "opening", "connected", "closed"}]
  /\ ctrans \in [Clients -> Transports \cup {NoTransport}]
  /\ status \in [Clients -> {"none", "OKAY", "FAIL"}]
  /\ fatal \in {"no", "write", "freed"}

Stopped(t) == out[t] \in {"none", "done"} /\ inp[t] \in {"none", "done"}

(* transport.c:250 "The transport will not actually be closed until both   *)
(* threads exit": neither t->close nor the free happens under a thread     *)
(* that still uses t.                                                      *)
ClosedAfterThreads ==
  \A t \in Transports : closes[t] > 0 \/ alloc[t] = "freed" => Stopped(t)

Removals(t) == {i \in DOMAIN registration : registration[i] = [transport |-> t, action |-> 0]}

(* t is closed once, and its removal is posted and handled once: there is  *)
(* no second free.                                                         *)
RemovedOnce ==
  \A t \in Transports :
    /\ closes[t] <= 1
    /\ \A i, j \in Removals(t) : i = j
    /\ Removals(t) # {} => closes[t] = 1 /\ alloc[t] = "live"

(* However many parties race to kick a transport - its two threads, the    *)
(* last unref, a disconnect request - t->kick runs at most once: a second  *)
(* remote_kick would shut down and close descriptor -1.                    *)
KickedOnce == \A t \in Transports : kicks[t] <= 1

(* Once the input thread has left its loop, t is offline and no client has *)
(* chosen it, waits for a stream of it or is connected to one: nobody      *)
(* hangs on a device that is gone, or keeps a pointer to it.               *)
NobodyLeftBehind ==
  \A t \in Transports : inp[t] \in {"kick", "kicking", "unref", "done"} =>
     connection_state[t] = "OFFLINE" /\ Bound(t, {"smart", "opening", "connected"}) = {}

(* send_packet never meets a socketpair whose other half is closed, nor a  *)
(* transport that has been freed: either would end the server in           *)
(* fatal_errno.                                                            *)
NoWriteAbort == fatal = "no"

(* A transport whose link is down is eventually removed from the list and  *)
(* freed.                                                                  *)
DownIsFreed == \A t \in Transports : remote[t] = "down" ~> alloc[t] = "freed"

(* A client that waits for its stream is not left waiting when the device  *)
(* goes away.                                                              *)
WaitingIsReleased ==
  \A c \in Clients, t \in Transports :
     cstate[c] = "opening" /\ ctrans[c] = t /\ remote[t] = "down" ~> cstate[c] # "opening"
=============================================================================
