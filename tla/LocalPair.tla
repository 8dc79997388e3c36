----------------------------- MODULE LocalPair -----------------------------
(***************************************************************************)
(* Two local sockets that are each other's peer: a client of the host      *)
(* server and a host service such as host:wait-for-device (sockets.c, the  *)
(* end of smart_socket_enqueue).  Unlike in Stream there is no transport   *)
(* between them: a socket's handler calls its peer's enqueue, ready and    *)
(* close directly, and close frees both structures while the handler of    *)
(* one of them is still running.                                           *)
(***************************************************************************)
EXTENDS Naturals, Sequences, SequencesExt

CONSTANTS
  Quota,        \* bound: bytes the application at each end writes
  MaxPayload    \* MAX_PAYLOAD

Ends == {"client", "service"}
Other(e) == IF e = "client" THEN "service" ELSE "client"

ASSUME LocalPairAssumption ==
  /\ Quota \in [Ends -> Nat]
  /\ MaxPayload \in Nat \ {0}

VARIABLES
  st,        \* "open", "closing" (no peer any more) or "freed"
  readOn,    \* the sockets whose fdevent asks for FDE_READ
  pkts,      \* the packets waiting to be written to the descriptor
  wrote, inbuf, eof, gone, got,   \* the applications, as in Stream
  fault      \* a handler used its socket after it was freed: the end

vars == <<st, readOn, pkts, wrote, inbuf, eof, gone, got, fault>>

(* The client has been answered and s2->ready(s2) was called; the client's *)
(* own socket never stopped reading.                                       *)
Init ==
  /\ st = [e \in Ends |-> "open"]
  /\ readOn = Ends
  /\ pkts = [e \in Ends |-> << >>]
  /\ wrote = [e \in Ends |-> 0]
  /\ inbuf = [e \in Ends |-> << >>]
  /\ eof = {} /\ gone = {}
  /\ got = [e \in Ends |-> << >>]
  /\ fault = FALSE

(* local_socket_close_locked of either of two open sockets, given their    *)
(* unwritten packets: each is destroyed, or closing while it has packets.  *)
CloseBoth_discards(left) == [e \in Ends |-> "freed"]
CloseBoth(left) == [e \in Ends |-> IF left[e] = << >> THEN "freed" ELSE "closing"]

Rest(data, k) == SubSeq(data, k + 1, Len(data))

---------------------------------------------------------------------------
(* local_socket_event_func, FDE_READ.                                      *)

(* The bytes that are read, and the peer's descriptor takes k of them      *)
(* (local_socket_enqueue).  With a backlog at the peer, reading stops.     *)
ReadSize(e) == Min({Len(inbuf[e]), MaxPayload})

Backlog(left) == left # << >>

event_read(e, k) ==
  LET o     == Other(e)
      n     == ReadSize(e)
      isEof == e \in eof /\ n < MaxPayload
      data  == SubSeq(inbuf[e], 1, n)
      left  == [pkts EXCEPT ![o] = IF k < n THEN Append(@, Rest(data, k)) ELSE @]
  IN /\ st[e] = "open" /\ e \in readOn
     /\ n > 0 \/ isEof
     /\ n > 0 => o \notin gone \/ pkts[o] # << >>
     /\ k \in IF pkts[o] = << >> THEN 0 .. n ELSE {0}
     /\ inbuf' = [inbuf EXCEPT ![e] = Rest(@, n)]
     /\ got' = [got EXCEPT ![o] = @ \o SubSeq(data, 1, k)]
     /\ pkts' = left
     /\ st' = IF isEof THEN CloseBoth(left) ELSE st
     /\ readOn' = IF isEof THEN {} ELSE IF n > 0 /\ Backlog(left[o]) THEN readOn \ {e} ELSE readOn
     /\ UNCHANGED <<wrote, eof, gone, fault>>

(* The peer's application is gone: the write fails and enqueue closes the  *)
(* peer, and with it this socket, yet it returns 1, so that the handler    *)
(* goes on: it stops reading and, at end of file, closes the socket again. *)
event_read_failed(e) ==
  LET o     == Other(e)
      n     == ReadSize(e)
      isEof == e \in eof /\ n < MaxPayload
      after == CloseBoth(pkts)
      again == isEof /\ after[e] = "closing"
  IN /\ st[e] = "open" /\ e \in readOn
     /\ n > 0 /\ o \in gone /\ pkts[o] = << >>
     /\ inbuf' = [inbuf EXCEPT ![e] = Rest(@, n)]
     /\ st' = IF again THEN [after EXCEPT ![e] = "freed"] ELSE after
     /\ pkts' = IF again THEN [pkts EXCEPT ![e] = << >>] ELSE pkts
     /\ readOn' = {}
     /\ fault' = (after[e] = "freed")
     /\ UNCHANGED <<wrote, eof, gone, got>>

---------------------------------------------------------------------------
(* local_socket_event_func, FDE_WRITE.                                     *)

Resumed_not(e) == {}
Resumed(e) == {Other(e)}

Drained_kept(e) == st[e]
Drained(e) == IF st[e] = "closing" THEN "freed" ELSE st[e]

event_write(e, k) ==
  LET p    == Head(pkts[e])
      left == IF k < Len(p) THEN << Rest(p, k) >> \o Tail(pkts[e]) ELSE Tail(pkts[e])
  IN /\ pkts[e] # << >> /\ e \notin gone
     /\ k \in 1 .. Len(p)
     /\ got' = [got EXCEPT ![e] = @ \o SubSeq(p, 1, k)]
     /\ pkts' = [pkts EXCEPT ![e] = left]
     /\ st' = IF left = << >> THEN [st EXCEPT ![e] = Drained(e)] ELSE st
     /\ readOn' = IF left = << >> /\ st[e] = "open" THEN readOn \cup Resumed(e) ELSE readOn
     /\ UNCHANGED <<wrote, inbuf, eof, gone, fault>>

(* The application is gone: s->close(s).                                   *)
event_write_failed(e) ==
  /\ pkts[e] # << >> /\ e \in gone
  /\ st' = IF st[e] = "open" THEN CloseBoth(pkts) ELSE [st EXCEPT ![e] = "freed"]
  /\ pkts' = IF st[e] = "open" THEN pkts ELSE [pkts EXCEPT ![e] = << >>]
  /\ readOn' = {}
  /\ UNCHANGED <<wrote, inbuf, eof, gone, got, fault>>

---------------------------------------------------------------------------
AppWrite(e) ==
  /\ e \notin eof /\ wrote[e] < Quota[e]
  /\ wrote' = [wrote EXCEPT ![e] = @ + 1]
  /\ inbuf' = [inbuf EXCEPT ![e] = Append(@, wrote[e] + 1)]
  /\ UNCHANGED <<st, readOn, pkts, eof, gone, got, fault>>

AppFinish(e, closes) ==
  /\ e \notin (IF closes THEN gone ELSE eof)
  /\ eof' = eof \cup {e}
  /\ gone' = IF closes THEN gone \cup {e} ELSE gone
  /\ UNCHANGED <<st, readOn, pkts, wrote, inbuf, got, fault>>

EventWrite(e) == event_write_failed(e) \/ \E k \in 1 .. MaxPayload : event_write(e, k)
EventRead(e) == \E k \in 0 .. MaxPayload : event_read(e, k)

Next ==
  /\ ~fault
  /\ \E e \in Ends : \/ AppWrite(e)
                     \/ \E closes \in BOOLEAN : AppFinish(e, closes)
                     \/ EventRead(e)
                     \/ EventWrite(e)
                     \/ event_read_failed(e)

(* The main loop runs, and applications read what they are sent.           *)
Fairness ==
  \A e \in Ends : /\ WF_vars(~fault /\ (EventRead(e) \/ event_read_failed(e)))
                  /\ WF_vars(~fault /\ EventWrite(e))

Spec == Init /\ [][Next]_vars
FairSpec == Spec /\ Fairness

---------------------------------------------------------------------------

(* The pair implements Pipe.                                               *)
Abstract == INSTANCE Pipe WITH
  up <- TRUE, refused <- FALSE, done <- {e \in Ends : st[e] = "freed"}
ImplementsPipe == Abstract!Spec

(* What an application wrote arrives, as long as nobody finishes or closes.*)
EverythingArrives ==
  \A e \in Ends : \A n \in 1 .. Quota[e] :
     (wrote[e] = n) ~> (eof # {} \/ Len(got[Other(e)]) >= n)

(* When one application is done, both sockets are freed in the end.        *)
BothFreed ==
  \A e \in Ends : (e \in eof) ~> (\A s \in Ends : st[s] = "freed")
=============================================================================
