------------------------------- MODULE Client -------------------------------
(* The adb command against the adb server: adb_connect with its version    *)
(* check, the killing and the starting of servers by several commands at   *)
(* once, and the smart socket in the server that puts the requests of a    *)
(* connection together from what the network delivers.                     *)
EXTENDS Integers, Sequences

CONSTANTS Clients,    \* running adb commands; each starts one server at most
          Resident,   \* a server that may already be running
          Versions,   \* ADB_SERVER_VERSION of the programs
          Unknown,    \* the version of a server without host:version
          Commands,   \* subset of {"start-server", "kill-server", "devices", "shell"}
          MaxCrash,   \* servers that die unasked, or cannot be started
          None

Servers == Clients \cup {Resident}
Requests == {"host:version", "host:kill", "host:devices", "host:transport", "shell"}
Answers == [req : Requests, status : {"OKAY", "FAIL"}, info : Versions \cup {Unknown, None}]

ASSUME ClientAssumption ==
  /\ Clients # {} /\ Resident \notin Clients
  /\ None \notin Servers /\ None \notin Answers /\ None \notin {"success", "error"}
  /\ Unknown \notin Versions
  /\ Commands \subseteq {"start-server", "kill-server", "devices", "shell"}
  /\ MaxCrash \in Nat

VARIABLES cmd, ver,        \* what a command does, and its version
          at, stage, req,  \* its place, and the request it makes
          result,
          victim,          \* the server it has asked to exit
          fd,              \* the server its socket is connected to
          net,             \* what it has written and the server not yet read
          answer,          \* the status the server has sent
          pkt,             \* pkt_first of its smart socket
          bound,           \* clients whose smart socket has a transport
          opening,         \* clients whose service the device has not answered
          srv, sver, port, \* the servers, their versions, and who has the port
          acked,           \* servers that have said "OK"
          crashes

command == <<cmd, ver>>
client == <<at, stage, req, result, victim>>
link == <<fd, net, answer, pkt, bound, opening>>
server == <<srv, sver, port, acked, crashes>>
vars == <<command, client, link, server>>

Init ==
  /\ cmd \in [Clients -> Commands] /\ ver \in [Clients -> Versions]
  /\ at = [c \in Clients |-> IF cmd[c] = "kill-server" THEN "kill" ELSE "version"]
  /\ stage = [c \in Clients |-> "connect"]
  /\ req = [c \in Clients |-> None] /\ result = [c \in Clients |-> None]
  /\ victim = [c \in Clients |-> None]
  /\ fd = [c \in Clients |-> None] /\ net = [c \in Clients |-> <<>>]
  /\ answer = [c \in Clients |-> None] /\ pkt = [c \in Clients |-> <<>>]
  /\ bound = {} /\ opening = {}
  /\ port \in {None, Resident}
  /\ srv = [s \in Servers |-> IF s = port THEN "up" ELSE "none"]
  /\ \E v \in Versions \cup {Unknown} :
       sver = [s \in Servers |-> IF s = Resident THEN v ELSE ver[s]]
  /\ acked = {} /\ crashes = 0

(* A request is a length and a name, which a delivery can separate.        *)
Size == 2
Units(r) == [i \in 1..Size |-> <<r, i>>]

Move(c, place, how) ==
  /\ at' = [at EXCEPT ![c] = place]
  /\ stage' = [stage EXCEPT ![c] = how]
End(c, status) ==
  /\ Move(c, "done", "done")
  /\ result' = [result EXCEPT ![c] = status]

(* adb_close, or the end of the process.                                   *)
Close(c) ==
  /\ req' = [req EXCEPT ![c] = None]
  /\ fd' = [fd EXCEPT ![c] = None]
  /\ net' = [net EXCEPT ![c] = <<>>] /\ pkt' = [pkt EXCEPT ![c] = <<>>]
  /\ answer' = [answer EXCEPT ![c] = None]
  /\ bound' = bound \ {c} /\ opening' = opening \ {c}

---------------------------------------------------------------------------
(* _adb_connect.                                                           *)

FirstRequest(c) ==
  CASE at[c] = "version" -> "host:version"
    [] at[c] = "kill" -> "host:kill"
    [] at[c] = "service" -> IF cmd[c] = "devices" THEN "host:devices" ELSE "host:transport"

(* No server has the port (-2): start one; for the request proper that is  *)
(* an error, and there is nothing to kill.                                 *)
connect_refused(c) ==
  /\ stage[c] = "connect" /\ port = None
  /\ CASE at[c] = "service" -> End(c, "error")
       [] at[c] = "kill" /\ cmd[c] = "kill-server" -> End(c, "success")
       [] OTHER -> Move(c, "launch", "sleep") /\ UNCHANGED result
  /\ UNCHANGED <<command, req, victim, link, server>>

connect(c) ==
  /\ stage[c] = "connect" /\ port # None
  /\ fd' = [fd EXCEPT ![c] = port]
  /\ req' = [req EXCEPT ![c] = FirstRequest(c)]
  /\ stage' = [stage EXCEPT ![c] = "write"]
  /\ UNCHANGED <<command, at, result, victim, net, answer, pkt, bound, opening, server>>

Alive(c) == srv[fd[c]] \in {"listening", "up", "dying"}

write(c) ==
  /\ stage[c] = "write"
  /\ net' = [net EXCEPT ![c] = IF Alive(c) THEN @ \o Units(req[c]) ELSE @]
  /\ stage' = [stage EXCEPT ![c] = "status"]
  /\ UNCHANGED <<command, at, req, result, victim, fd, answer, pkt, bound, opening, server>>

---------------------------------------------------------------------------
(* adb_status, and what its callers do with it.                            *)

Okay(c) == answer[c] # None /\ answer[c].status = "OKAY"
Lost(c) == answer[c] = None /\ ~Alive(c)
Answered(c) == stage[c] = "status" /\ (answer[c] # None \/ Lost(c))

(* Mutant: the version is not read, and stays at its default.              *)
OutOfDate_unread(c) == ver[c] - 1 # ver[c]
(* adb_connect: the version the server told, or ADB_SERVER_VERSION - 1 for *)
(* one that does not know the request.                                     *)
OutOfDate(c) == ~Okay(c) \/ answer[c].info # ver[c]

version_status(c) ==
  /\ at[c] = "version" /\ Answered(c)
  /\ CASE Lost(c) -> End(c, "error")
       [] ~Lost(c) /\ OutOfDate(c) -> Move(c, "kill", "connect") /\ UNCHANGED result
       [] OTHER -> IF cmd[c] = "start-server" THEN End(c, "success")
                   ELSE Move(c, "service", "connect") /\ UNCHANGED result
  /\ Close(c)
  /\ UNCHANGED <<command, victim, server>>

(* The outcome of host:kill matters to kill-server only.                   *)
kill_status(c) ==
  /\ at[c] = "kill" /\ Answered(c)
  /\ IF cmd[c] = "kill-server" THEN End(c, IF Okay(c) THEN "success" ELSE "error")
     ELSE Move(c, "launch", "sleep") /\ UNCHANGED result
  /\ victim' = [victim EXCEPT ![c] = fd[c]]
  /\ Close(c)
  /\ UNCHANGED <<command, server>>

(* switch_socket_transport, then the service on the same connection.       *)
switch_status(c) ==
  /\ at[c] = "service" /\ req[c] = "host:transport" /\ Answered(c) /\ Okay(c)
  /\ req' = [req EXCEPT ![c] = "shell"]
  /\ answer' = [answer EXCEPT ![c] = None]
  /\ stage' = [stage EXCEPT ![c] = "write"]
  /\ UNCHANGED <<command, at, result, victim, fd, net, pkt, bound, opening, server>>

service_status(c) ==
  /\ at[c] = "service" /\ Answered(c)
  /\ ~(req[c] = "host:transport" /\ Okay(c))
  /\ End(c, IF Okay(c) THEN "success" ELSE "error")
  /\ Close(c)
  /\ UNCHANGED <<command, victim, server>>

---------------------------------------------------------------------------
(* launch_server.                                                          *)

(* Mutant: no pause after host:kill.                                       *)
Exited_atOnce(c) == TRUE
(* adb_sleep_ms(2000) after host:kill is taken to be long enough for the   *)
(* server that was sent it to exit; who found no server does not pause.    *)
Exited(c) == victim[c] # None => srv[victim[c]] # "dying"

launch_server(c) ==
  /\ at[c] = "launch" /\ stage[c] = "sleep" /\ Exited(c)
  /\ srv' = [srv EXCEPT ![c] = "starting"]
  /\ stage' = [stage EXCEPT ![c] = "ack"]
  /\ UNCHANGED <<command, at, req, result, victim, link, sver, port, acked, crashes>>

(* pipe or fork fails; or exec does, and the message of the child comes in *)
(* the place of "OK".                                                      *)
launch_fails(c) ==
  /\ at[c] = "launch" /\ stage[c] = "sleep" /\ Exited(c) /\ crashes < MaxCrash
  /\ End(c, "error")
  /\ crashes' = crashes + 1
  /\ UNCHANGED <<command, req, victim, link, srv, sver, port, acked>>

(* The pipe brings "OK", or its end when the server has exited before.     *)
launch_ack(c) ==
  /\ at[c] = "launch" /\ stage[c] = "ack"
  /\ c \in acked \/ srv[c] = "dead"
  /\ CASE c \notin acked -> End(c, "error")
       [] c \in acked /\ cmd[c] = "start-server" -> End(c, "success")
       [] OTHER -> Move(c, "service", "connect") /\ UNCHANGED result
  /\ UNCHANGED <<command, req, victim, link, server>>

ClientStep(c) ==
  \/ connect_refused(c) \/ connect(c) \/ write(c)
  \/ version_status(c) \/ kill_status(c) \/ switch_status(c) \/ service_status(c)
  \/ launch_server(c) \/ launch_ack(c)

---------------------------------------------------------------------------
(* The server.                                                             *)

(* Mutant: a server that cannot have the port waits for it.                *)
adb_main_waits(s) ==
  /\ srv[s] = "starting" /\ port = None
  /\ srv' = [srv EXCEPT ![s] = "listening"] /\ port' = s
  /\ UNCHANGED <<command, client, link, sver, acked, crashes>>

(* adb_main: the server takes the port, or exits ...                       *)
adb_main(s) ==
  /\ srv[s] = "starting"
  /\ srv' = [srv EXCEPT ![s] = IF port = None THEN "listening" ELSE "dead"]
  /\ port' = IF port = None THEN s ELSE port
  /\ UNCHANGED <<command, client, link, sver, acked, crashes>>

(* ... says "OK" to the command that started it, and enters fdevent_loop.  *)
inform_parent(s) ==
  /\ srv[s] = "listening"
  /\ srv' = [srv EXCEPT ![s] = "up"]
  /\ acked' = acked \cup {s}
  /\ UNCHANGED <<command, client, link, sver, port, crashes>>

(* local_socket_event_func of a client's socket: what has arrived is       *)
(* handed to the smart socket, which adds it to its packet.                *)
Deliver(c, n) == pkt[c] \o SubSeq(net[c], 1, n)

(* smart_socket_enqueue: the length can be read and everything is there.   *)
Complete(p) == Len(p) >= Size

enqueue_waits(c, n) ==
  /\ fd[c] # None /\ srv[fd[c]] = "up" /\ n \in 1..Len(net[c])
  /\ ~Complete(Deliver(c, n))
  /\ pkt' = [pkt EXCEPT ![c] = Deliver(c, n)]
  /\ net' = [net EXCEPT ![c] = SubSeq(@, n + 1, Len(@))]
  /\ UNCHANGED <<command, client, fd, answer, bound, opening, server>>

Reply(c, r, status, info) ==
  answer' = [answer EXCEPT ![c] = [req |-> r, status |-> status, info |-> info]]

(* Mutant: the packet is kept when the transport has been set.             *)
RestOfPacket_kept(p, r) == IF r = "host:transport" THEN p ELSE <<>>
(* p->len = 0: whatever follows a request in the packet is dropped.        *)
RestOfPacket(p, r) == <<>>

(* handle_host_request; a service fails here for want of a device.         *)
enqueue_handles(c, n) ==
  /\ fd[c] # None /\ srv[fd[c]] = "up" /\ n \in 1..Len(net[c])
  /\ Complete(Deliver(c, n))
  /\ LET r == Deliver(c, n)[1][1]
         s == fd[c]
     IN  /\ CASE r = "host:version" ->
                   Reply(c, r, IF sver[s] = Unknown THEN "FAIL" ELSE "OKAY", sver[s])
              [] r \in {"host:kill", "host:devices"} -> Reply(c, r, "OKAY", None)
              [] r = "host:transport" -> \E status \in {"OKAY", "FAIL"} : Reply(c, r, status, None)
              [] r = "shell" -> Reply(c, r, "FAIL", None)
         /\ bound' = IF r = "host:transport" /\ answer'[c].status = "OKAY"
                     THEN bound \cup {c} ELSE bound
         /\ srv' = [srv EXCEPT ![s] = IF r = "host:kill" THEN "dying" ELSE @]
         /\ pkt' = [pkt EXCEPT ![c] = RestOfPacket(Deliver(c, n), r)]
  /\ net' = [net EXCEPT ![c] = SubSeq(@, n + 1, Len(@))]
  /\ UNCHANGED <<command, client, fd, opening, sver, port, acked, crashes>>

(* A service of the device is opened there: the client hears nothing yet.  *)
connect_to_remote(c, n) ==
  /\ fd[c] # None /\ srv[fd[c]] = "up" /\ n \in 1..Len(net[c])
  /\ Complete(Deliver(c, n)) /\ Deliver(c, n)[1][1] = "shell" /\ c \in bound
  /\ opening' = opening \cup {c}
  /\ pkt' = [pkt EXCEPT ![c] = <<>>]
  /\ net' = [net EXCEPT ![c] = SubSeq(@, n + 1, Len(@))]
  /\ UNCHANGED <<command, client, fd, answer, bound, server>>

(* The device answers the OPEN (local_socket_ready_notify), or refuses it, *)
(* closes it or goes away (local_socket_close_notify).                     *)
device_answers(c) ==
  /\ c \in opening /\ srv[fd[c]] = "up"
  /\ \E status \in {"OKAY", "FAIL"} : Reply(c, "shell", status, None)
  /\ opening' = opening \ {c}
  /\ UNCHANGED <<command, client, fd, net, pkt, bound, server>>

(* The end of the process: its sockets are closed, the port is free.       *)
exit(s) ==
  /\ srv[s] = "dying"
  /\ srv' = [srv EXCEPT ![s] = "dead"] /\ port' = None
  /\ UNCHANGED <<command, client, link, sver, acked, crashes>>

crash(s) ==
  /\ srv[s] \in {"listening", "up"} /\ crashes < MaxCrash
  /\ srv' = [srv EXCEPT ![s] = "dead"] /\ port' = None
  /\ crashes' = crashes + 1
  /\ UNCHANGED <<command, client, link, sver, acked>>

Serve(c) ==
  \E n \in 1..Size : enqueue_waits(c, n) \/ enqueue_handles(c, n) \/ connect_to_remote(c, n)

Next ==
  \/ \E c \in Clients : ClientStep(c) \/ Serve(c) \/ device_answers(c) \/ launch_fails(c)
  \/ \E s \in Servers : adb_main(s) \/ inform_parent(s) \/ exit(s) \/ crash(s)

(* Commands and servers run, and a server's loop serves every connection.  *)
(* Devices need never answer.                                              *)
Fairness ==
  /\ \A c \in Clients : WF_vars(ClientStep(c)) /\ WF_vars(Serve(c))
  /\ \A s \in Servers : WF_vars(adb_main(s)) /\ WF_vars(inform_parent(s)) /\ WF_vars(exit(s))

Spec == Init /\ [][Next]_vars
FairSpec == Spec /\ Fairness

---------------------------------------------------------------------------
(* The types.  A packet is never longer than a request, and the port       *)
(* belongs to a server that runs (adb_main and the exit of a server).      *)
TypeOK ==
  /\ cmd \in [Clients -> Commands] /\ ver \in [Clients -> Versions]
  /\ at \in [Clients -> {"version", "kill", "launch", "service", "done"}]
  /\ stage \in [Clients -> {"connect", "write", "status", "sleep", "ack", "done"}]
  /\ req \in [Clients -> Requests \cup {None}]
  /\ result \in [Clients -> {None, "success", "error"}]
  /\ victim \in [Clients -> Servers \cup {None}]
  /\ fd \in [Clients -> Servers \cup {None}]
  /\ net \in [Clients -> Seq(Requests \X (1..Size))]
  /\ pkt \in [Clients -> Seq(Requests \X (1..Size))]
  /\ answer \in [Clients -> Answers \cup {None}]
  /\ bound \subseteq Clients /\ opening \subseteq Clients /\ acked \subseteq Clients
  /\ srv \in [Servers -> {"none", "starting", "listening", "up", "dying", "dead"}]
  /\ sver \in [Servers -> Versions \cup {Unknown}]
  /\ port \in Servers \cup {None} /\ (port # None => srv[port] \in {"listening", "up", "dying"})
  /\ crashes \in Nat
  /\ \A c \in Clients : Len(net[c]) <= Size /\ Len(pkt[c]) < Size

(* However the network splits a connection, a live server has, read or     *)
(* still to be read, exactly the request its client waits for, and nothing *)
(* of it once the device has been asked: the bytes the smart socket drops  *)
(* after host:transport are none of the next request's, and none of the    *)
(* last request's are left in front of it.                                 *)
RequestIntact ==
  \A c \in Clients :
    stage[c] = "status" /\ answer[c] = None /\ Alive(c) =>
      pkt[c] \o net[c] = IF c \in opening THEN <<>> ELSE Units(req[c])

(* A status is read by the request it answers.                             *)
StatusIsOurs == \A c \in Clients : answer[c] # None => answer[c].req = req[c]

(* commandline.c:159 "start-server - ensure that there is a server         *)
(* running": whoever started, found out of date, killed and replaced       *)
(* servers, once all commands have ended one is running (unless one was    *)
(* asked for its end, crashed, or could not be started).                   *)
ServerAtTheEnd ==
  (\A c \in Clients : at[c] = "done" /\ cmd[c] # "kill-server") /\ crashes = 0 => port # None

SameVersion == \A c \in Clients : cmd[c] # "kill-server" /\ ver[c] = sver[Resident]

(* Commands of one version leave each other's server alone: once one of    *)
(* them, or an earlier one, has got the port it stays the server, however  *)
(* many were started at the same time.                                     *)
SameVersionKeepsServer ==
  [][SameVersion /\ port # None /\ crashes' = crashes => port' = port]_vars

(* Every command returns, whatever the others do to the server meanwhile,  *)
(* unless the device never answers its OPEN: for that adb_status waits     *)
(* without a limit.                                                        *)
Returns == \A c \in Clients : <>(at[c] = "done") \/ <>[](c \in opening)

=============================================================================
