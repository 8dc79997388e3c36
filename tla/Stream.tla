------------------------------- MODULE Stream -------------------------------
(***************************************************************************)
(* One stream between a client of the host server and a service of the     *)
(* device (sockets.c and handle_packet of adb.c, which both ends run).     *)
(* Each end has a local socket bound to a descriptor and a remote socket   *)
(* bound to the transport; WRTE carries data, OKAY asks for more, CLSE     *)
(* ends the stream.  The transport delivers packets in order, until it is  *)
(* lost.  Bytes are numbered as the application at their source writes     *)
(* them.                                                                   *)
(***************************************************************************)
EXTENDS Naturals, Sequences, FiniteSetsExt

CONSTANTS
  Quota,        \* bound: bytes the application at each end writes
  MaxPayload    \* MAX_PAYLOAD

Ends == {"host", "device"}
Other(e) == IF e = "host" THEN "device" ELSE "host"

ASSUME StreamAssumption ==
  /\ Quota \in [Ends -> Nat]
  /\ MaxPayload \in Nat \ {0}

VARIABLES
  st,        \* the local socket: "none", "opening", "open", "closing", "closed"
  readOn,    \* the ends whose fdevent asks for FDE_READ
  pkts,      \* the packets waiting to be written to the descriptor
  chan,      \* chan[e]: packets on their way from e
  up,        \* the transport works
  wrote,     \* how many bytes the application has written
  inbuf,     \* of those, the ones not yet read from the descriptor
  eof,       \* the ends whose application has finished writing
  gone,      \* the ends whose application has closed the descriptor
  got,       \* how many bytes the application can read or has read
  status,    \* what the client was told: "", "OKAY", "FAIL"
  refused    \* the device has no such service

endVars == <<st, readOn, pkts, status>>
appVars == <<wrote, inbuf, eof, gone>>
vars == <<endVars, chan, up, appVars, got, refused>>

Pkt(cmd) == [cmd |-> cmd, data |-> << >>]
Wrte(data) == [cmd |-> "WRTE", data |-> data]

(* A client has connected and sends its request; its local socket has a    *)
(* smart socket as its peer.                                               *)
Init ==
  /\ st = [e \in Ends |-> "none"]
  /\ readOn = {}
  /\ pkts = [e \in Ends |-> << >>]
  /\ chan = [e \in Ends |-> << >>]
  /\ up = TRUE
  /\ wrote = [e \in Ends |-> 0]
  /\ inbuf = [e \in Ends |-> << >>]
  /\ eof = {}
  /\ gone = {}
  /\ got = [e \in Ends |-> << >>]
  /\ status = ""
  /\ refused = FALSE

---------------------------------------------------------------------------
(* What the handlers have in common.  Each handler sends at most two       *)
(* packets and hands bytes to one application.                             *)

(* send_packet: what is sent into a transport that is down is lost.        *)
Send(e, ps) == chan' = [chan EXCEPT ![e] = IF up THEN @ \o ps ELSE @]

(* send_packet to the other end of a handler that has just taken a packet. *)
Reply(e, ps) ==
  chan' = [chan EXCEPT ![Other(e)] = Tail(@), ![e] = IF up THEN @ \o ps ELSE @]

(* local_socket_close_locked, given the packets left to write: the remote  *)
(* socket sends CLSE, and a socket with packets stays on the closing list. *)
Closing_discards(e, left) == FALSE
Closing(e, left) == st[e] # "closing" /\ left # << >>

CloseMsg_silent(e) == << >>
CloseMsg(e) == IF st[e] = "open" THEN << Pkt("CLSE") >> ELSE << >>

Close(e, left) ==
  /\ st' = [st EXCEPT ![e] = IF Closing(e, left) THEN "closing" ELSE "closed"]
  /\ pkts' = [pkts EXCEPT ![e] = IF Closing(e, left) THEN left ELSE << >>]
  /\ readOn' = readOn \ {e}

(* find_local_socket: neither a closing nor a closed socket has its id.    *)
Found(e) == st[e] \in {"opening", "open"}

(* adb_write of the first k bytes.                                         *)
Written(e, data, k) == got' = [got EXCEPT ![e] = @ \o SubSeq(data, 1, k)]
Rest(data, k) == SubSeq(data, k + 1, Len(data))

---------------------------------------------------------------------------
(* The client's request: local_socket_event_func reads it and hands it to  *)
(* smart_socket_enqueue.                                                   *)

(* connect_to_remote sends OPEN, and the client's socket waits for the     *)
(* answer without reading.  When the end of file was read together with    *)
(* the request, the same handler closes the socket, which has no peer yet  *)
(* (local_socket_close_notify): the client is told FAIL, and the other end *)
(* is told nothing.                                                        *)
smart_socket_enqueue ==
  /\ st["host"] = "none"
  /\ Send("host", << Pkt("OPEN") >>)
  /\ IF "host" \in eof THEN /\ st' = [st EXCEPT !["host"] = "closed"]
                            /\ status' = "FAIL"
                       ELSE /\ st' = [st EXCEPT !["host"] = "opening"]
                            /\ UNCHANGED status
  /\ UNCHANGED <<readOn, pkts, up, appVars, got, refused>>

(* The transport is known to be offline.                                   *)
smart_socket_offline ==
  /\ st["host"] = "none" /\ ~up
  /\ st' = [st EXCEPT !["host"] = "closed"]
  /\ status' = "FAIL"
  /\ UNCHANGED <<readOn, pkts, chan, up, appVars, got, refused>>

---------------------------------------------------------------------------
(* local_socket_event_func.                                                *)

(* FDE_READ: up to MAX_PAYLOAD bytes go to the remote socket, which        *)
(* accepts no more until the other end asks for it; an end of file that    *)
(* was seen closes the socket.                                             *)
ReadOn_kept(e) == readOn
ReadOn_after(e) == readOn \ {e}

ReadSize(e) == Min({Len(inbuf[e]), MaxPayload})

event_read(e) ==
  LET n     == ReadSize(e)
      isEof == e \in eof /\ n < MaxPayload
      data  == SubSeq(inbuf[e], 1, n)
      ps    == IF n > 0 THEN << Wrte(data) >> ELSE << >>
  IN /\ st[e] = "open" /\ e \in readOn
     /\ n > 0 \/ isEof
     /\ inbuf' = [inbuf EXCEPT ![e] = Rest(@, n)]
     /\ IF isEof THEN Close(e, pkts[e]) /\ Send(e, ps \o CloseMsg(e))
                 ELSE readOn' = ReadOn_after(e) /\ Send(e, ps) /\ UNCHANGED <<st, pkts>>
     /\ UNCHANGED <<up, wrote, eof, gone, got, status, refused>>

(* FDE_WRITE: the descriptor takes k more bytes of the first packet.  When *)
(* the last packet is out, a closing socket is destroyed and an open one   *)
(* asks the other end for more.                                            *)
Ready_forgotten(e) == << >>
Ready(e) == IF st[e] = "open" THEN << Pkt("OKAY") >> ELSE << >>

event_write(e, k) ==
  LET p    == Head(pkts[e])
      left == IF k < Len(p) THEN << Rest(p, k) >> \o Tail(pkts[e]) ELSE Tail(pkts[e])
  IN /\ pkts[e] # << >> /\ e \notin gone
     /\ k \in 1 .. Len(p)
     /\ Written(e, p, k)
     /\ pkts' = [pkts EXCEPT ![e] = left]
     /\ st' = IF left = << >> /\ st[e] = "closing" THEN [st EXCEPT ![e] = "closed"] ELSE st
     /\ Send(e, IF left = << >> THEN Ready(e) ELSE << >>)
     /\ UNCHANGED <<readOn, up, appVars, status, refused>>

(* FDE_WRITE, and the application is gone: the socket is closed.           *)
event_write_failed(e) ==
  /\ pkts[e] # << >> /\ e \in gone
  /\ Close(e, pkts[e])
  /\ Send(e, CloseMsg(e))
  /\ UNCHANGED <<up, appVars, got, status, refused>>

---------------------------------------------------------------------------
(* handle_packet at end e.                                                 *)

Receives(e, cmd) == chan[Other(e)] # << >> /\ Head(chan[Other(e)]).cmd = cmd

(* OPEN: the service is started, or there is none of that name.            *)
packet_open(e) ==
  /\ Receives(e, "OPEN")
  /\ st' = [st EXCEPT ![e] = "open"]
  /\ readOn' = readOn \cup {e}
  /\ Reply(e, << Pkt("OKAY") >>)
  /\ UNCHANGED <<pkts, up, appVars, got, status, refused>>

packet_open_refused(e) ==
  /\ Receives(e, "OPEN")
  /\ st' = [st EXCEPT ![e] = "closed"]
  /\ Reply(e, << Pkt("CLSE") >>)
  /\ refused' = TRUE
  /\ UNCHANGED <<readOn, pkts, up, appVars, got, status>>

(* OKAY: the first one connects the client (local_socket_ready_notify),    *)
(* every one lets the socket read again.                                   *)
packet_okay(e) ==
  /\ Receives(e, "OKAY")
  /\ Reply(e, << >>)
  /\ IF Found(e) THEN /\ st' = [st EXCEPT ![e] = "open"]
                      /\ readOn' = readOn \cup {e}
                      /\ status' = IF st[e] = "opening" THEN "OKAY" ELSE status
                 ELSE UNCHANGED <<st, readOn, status>>
  /\ UNCHANGED <<pkts, up, appVars, got, refused>>

(* CLSE: the socket is closed, and says so to the other end again; a       *)
(* client that was not yet connected is told (local_socket_close_notify).  *)
packet_clse(e) ==
  /\ Receives(e, "CLSE")
  /\ IF Found(e) THEN /\ Close(e, pkts[e])
                      /\ Reply(e, CloseMsg(e))
                      /\ status' = IF st[e] = "opening" THEN "FAIL" ELSE status
                 ELSE Reply(e, << >>) /\ UNCHANGED <<st, readOn, pkts, status>>
  /\ UNCHANGED <<up, appVars, got, refused>>

(* WRTE: local_socket_enqueue.  Behind other packets the data waits;       *)
(* otherwise the descriptor takes k bytes of it, and only when it took all *)
(* of them is the other end asked for more.                                *)
packet_wrte(e, k) ==
  LET p    == Head(chan[Other(e)]).data
      left == IF k < Len(p) THEN Append(pkts[e], Rest(p, k)) ELSE pkts[e]
  IN /\ Receives(e, "WRTE") /\ Found(e)
     /\ e \notin gone \/ pkts[e] # << >>
     /\ k \in IF pkts[e] = << >> THEN 0 .. Len(p) ELSE {0}
     /\ Written(e, p, k)
     /\ pkts' = [pkts EXCEPT ![e] = left]
     /\ Reply(e, IF left = << >> THEN << Pkt("OKAY") >> ELSE << >>)
     /\ UNCHANGED <<st, readOn, up, appVars, status, refused>>

(* WRTE, and the application is gone.                                      *)
packet_wrte_failed(e) ==
  /\ Receives(e, "WRTE") /\ Found(e) /\ e \in gone /\ pkts[e] = << >>
  /\ Close(e, << >>)
  /\ Reply(e, CloseMsg(e))
  /\ UNCHANGED <<up, appVars, got, status, refused>>

packet_wrte_dropped(e) ==
  /\ Receives(e, "WRTE") /\ ~Found(e)
  /\ Reply(e, << >>)
  /\ UNCHANGED <<endVars, up, appVars, got, refused>>

---------------------------------------------------------------------------
(* The transport and the applications.                                     *)

(* The transport fails: an end may still handle the packets it had         *)
(* received.                                                               *)
LinkLost ==
  /\ up
  /\ up' = FALSE
  /\ \E i \in 0 .. Len(chan["host"]), j \in 0 .. Len(chan["device"]) :
       chan' = [e \in Ends |-> SubSeq(chan[e], 1, IF e = "host" THEN i ELSE j)]
  /\ UNCHANGED <<endVars, appVars, got, refused>>

(* close_all_sockets at e, some time after.                                *)
close_all_sockets(e) ==
  /\ ~up /\ Found(e)
  /\ Close(e, pkts[e])
  /\ UNCHANGED <<chan, up, appVars, got, status, refused>>

(* A client writes after its request, a service once it was started.       *)
AppWrite(e) ==
  /\ st[e] # "none"
  /\ e \notin eof /\ wrote[e] < Quota[e]
  /\ wrote' = [wrote EXCEPT ![e] = @ + 1]
  /\ inbuf' = [inbuf EXCEPT ![e] = Append(@, wrote[e] + 1)]
  /\ UNCHANGED <<endVars, chan, up, eof, gone, got, refused>>

(* It finishes writing, and perhaps reads no more either.                  *)
AppFinish(e, closes) ==
  /\ e = "device" => st[e] # "none"
  /\ e \notin (IF closes THEN gone ELSE eof)
  /\ eof' = eof \cup {e}
  /\ gone' = IF closes THEN gone \cup {e} ELSE gone
  /\ UNCHANGED <<endVars, chan, up, wrote, inbuf, got, refused>>

App(e) == AppWrite(e) \/ \E closes \in BOOLEAN : AppFinish(e, closes)

local_socket_event_func(e) ==
  \/ event_read(e)
  \/ \E k \in 1 .. MaxPayload : event_write(e, k)
  \/ event_write_failed(e)

handle_packet(e) ==
  \/ packet_open(e) \/ packet_open_refused(e)
  \/ packet_okay(e)
  \/ packet_clse(e)
  \/ \E k \in 0 .. MaxPayload : packet_wrte(e, k)
  \/ packet_wrte_failed(e) \/ packet_wrte_dropped(e)

Next ==
  \/ \E e \in Ends : App(e) \/ local_socket_event_func(e) \/ handle_packet(e) \/ close_all_sockets(e)
  \/ smart_socket_enqueue \/ smart_socket_offline
  \/ LinkLost

(* Both main loops run; an application that has not closed its descriptor  *)
(* reads what it is sent.                                                  *)
Fairness ==
  \A e \in Ends : /\ WF_vars(event_read(e))
                  /\ WF_vars(event_write_failed(e) \/ \E k \in 1 .. MaxPayload : event_write(e, k))
                  /\ WF_vars(handle_packet(e))
                  /\ WF_vars(close_all_sockets(e))

Spec == Init /\ [][Next]_vars
FairSpec == Spec /\ Fairness

---------------------------------------------------------------------------
(* Properties.                                                             *)

Packet == [cmd : {"OPEN", "OKAY", "CLSE", "WRTE"}, data : Seq(Nat \ {0})]

(* The types, and no packet is larger than an apacket's data.              *)
TypeOK ==
  /\ st \in [Ends -> {"none", "opening", "open", "closing", "closed"}]
  /\ readOn \subseteq Ends
  /\ pkts \in [Ends -> Seq(Seq(Nat \ {0}))]
  /\ chan \in [Ends -> Seq(Packet)]
  /\ \A e \in Ends : \A i \in DOMAIN chan[e] : Len(chan[e][i].data) <= MaxPayload
  /\ up \in BOOLEAN
  /\ wrote \in [Ends -> Nat]
  /\ inbuf \in [Ends -> Seq(Nat \ {0})]
  /\ gone \subseteq eof /\ eof \subseteq Ends
  /\ got \in [Ends -> Seq(Nat \ {0})]
  /\ status \in {"", "OKAY", "FAIL"}
  /\ refused \in BOOLEAN

(* The flow control of the protocol: while both ends are open, for each    *)
(* direction either the source may read its descriptor, or one WRTE is on  *)
(* its way, or its data waits to be written, or one OKAY is on its way     *)
(* back - exactly one of these, so neither end is ever flooded, and no     *)
(* direction gets stuck (remote_socket_enqueue returns 1, handle_packet    *)
(* and local_socket_event_func answer each WRTE once).  The types are part *)
(* of it.                                                                  *)
Places(s, cmd) == {i \in DOMAIN s : s[i].cmd = cmd}

Credits(e) ==
  ({"reads"} \X (readOn \cap {e})) \cup ({"sent"} \X Places(chan[e], "WRTE"))
  \cup ({"waits"} \X DOMAIN pkts[Other(e)]) \cup ({"asked"} \X Places(chan[Other(e)], "OKAY"))

OneCredit ==
  /\ TypeOK
  /\ up /\ (\A e \in Ends : st[e] = "open") => \A e \in Ends : Credits(e) # {}
  /\ \A e \in Ends : \A x, y \in Credits(e) : x = y

(* The stream implements Pipe.                                             *)
Abstract == INSTANCE Pipe WITH done <- {e \in Ends : st[e] = "closed"}
ImplementsPipe == Abstract!Spec

(* What an application wrote arrives, as long as nobody finishes or closes *)
(* and the transport holds.                                                *)
Disturbed == ~up \/ eof # {} \/ refused

EverythingArrives ==
  \A e \in Ends : \A n \in 1 .. Quota[e] :
     (wrote[e] = n) ~> (Disturbed \/ Len(got[Other(e)]) >= n)

(* A stream closed at one end gets closed at the other: a closing socket   *)
(* drains, and CLSE reaches the other end or, when the transport is lost,  *)
(* close_all_sockets does.  There are two exceptions.  The device never    *)
(* sees the OPEN that was lost with the transport.  And while the          *)
(* transport works, nobody closes the device's end of a stream whose       *)
(* client had finished writing when its request was read: the host has     *)
(* dropped the socket without CLSE and drops the answer to its OPEN.       *)
Abandoned == status = "FAIL" /\ ~refused
NeverOpened == st["device"] = "none" /\ chan["host"] = << >>

BothClose ==
  \A e \in Ends : (st[e] \in {"closing", "closed"}) ~>
     (st[Other(e)] = "closed" \/ (IF up THEN Abandoned ELSE NeverOpened))
=============================================================================
