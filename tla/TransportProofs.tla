-------------------------- MODULE TransportProofs ---------------------------
(* The safety of Transport, for any number of transports and clients.      *)
EXTENDS Transport, TLAPS

(* A leaf that names no prover is Zenon's.                                *)
USE Zenon

---------------------------------------------------------------------------
(***************************************************************************)
(* The inductive invariant of Transport, for any number of transports and  *)
(* clients.  It has one part per concern: who holds references and what has*)
(* been posted (Life, Posted), who has kicked (Kick), where the SYNC(0,0)  *)
(* packet is (Queue), and what the clients may still refer to (Client).    *)
(* Here: that the types, which every other part rests on, are kept.        *)
(***************************************************************************)

Past == {"kick", "kicking", "unref", "done"}

Msg(t, a) == [transport |-> t, action |-> a]

(* References are exactly the threads that have not yet dropped theirs;    *)
(* t is closed when both have, and then - not before - a removal is in the *)
(* registration socket until it has been carried out.                      *)
Life(t) ==
  /\ out[t] = "none" <=> inp[t] = "none"
  /\ out[t] # "none" =>
       ref_count[t] = (IF out[t] = "done" THEN 0 ELSE 1) + (IF inp[t] = "done" THEN 0 ELSE 1)
  /\ closes[t] = IF out[t] = "done" /\ inp[t] = "done" THEN 1 ELSE 0
  /\ alloc[t] = "none" => out[t] = "none"
  /\ alloc[t] = "freed" => closes[t] = 1
  /\ t \in sockOpen <=> out[t] # "none" /\ alloc[t] # "freed"
  /\ fdCloses[t] > 0 => closes[t] = 1
  /\ connection_state[t] = "NOPERM" => out[t] = "none"
  /\ t \in transport_list => alloc[t] = "live" /\ (connection_state[t] = "NOPERM" \/ out[t] # "none")

Posted ==
  /\ \A i \in 1..Len(registration) : LET r == registration[i] IN
       /\ alloc[r.transport] = "live"
       /\ r.action = 1 => out[r.transport] = "none"
       /\ r.action = 0 => closes[r.transport] = 1
  /\ \A i, j \in 1..Len(registration) : registration[i] = registration[j] => i = j

(* kicked is set before t->kick is called, by one thread only.             *)
Kick(t) ==
  /\ kicks[t] = IF t \in kicked /\ out[t] # "kicking" /\ inp[t] # "kicking" THEN 1 ELSE 0
  /\ out[t] \in {"kicking", "unref", "done"} \/ inp[t] \in {"kicking", "unref", "done"} => t \in kicked
  /\ ~(out[t] = "kicking" /\ inp[t] = "kicking")

(* SYNC(0) is the last packet of the output thread; once the main loop has *)
(* handled it nothing can bring t online again.                            *)
Drained(t) == out[t] \in Past /\ toMain[t] = << >> /\ connection_state[t] = "OFFLINE"

Has(q) == \E i \in 1..Len(q) : q[i] = Offline
OnlyLast(q) == \A i \in 1..Len(q) : q[i] = Offline => i = Len(q)

Queue(t) ==
  /\ OnlyLast(toMain[t])
  /\ Has(toMain[t]) => out[t] \in Past
  /\ Has(toThread[t]) => Drained(t)
  /\ inp[t] \notin {"none", "read"} => Drained(t)

(* A client refers to a transport that has been started; it is connected   *)
(* only to one that is online, and has chosen, or waits on, only one whose *)
(* input thread will still close it.                                       *)
Client(c) ==
  /\ cstate[c] \in {"smart", "opening", "connected"} =>
       ctrans[c] \in Transports /\ out[ctrans[c]] # "none"
  /\ cstate[c] = "connected" => connection_state[ctrans[c]] # "OFFLINE"
  /\ cstate[c] \in {"smart", "opening"} => inp[ctrans[c]] \in {"read", "close_all"}

(* The inductive invariant.                                                *)
IInv ==
  /\ TypeOK
  /\ \A t \in Transports : Life(t) /\ Kick(t) /\ Queue(t)
  /\ Posted
  /\ \A c \in Clients : Client(c)
  /\ NoWriteAbort

---------------------------------------------------------------------------
(* Type correctness.                                                       *)

(* The packets the server and its threads make.                            *)
LEMMA PacketFacts ==
  /\ Offline \in Packet /\ Cnxn \in Packet
  /\ \A n \in Nat : Sync(n) \in Packet
  /\ \A c \in Clients : \A cmd \in {"OPEN", "OKAY", "CLSE", "WRTE"} : Pkt(cmd, c) \in Packet
  /\ \A p \in Packet : p.cmd \in {"OPEN", "OKAY"} => p.arg \in Clients
  BY SMT DEF Packet, Offline, Cnxn, Sync, Pkt

(* TypeOK, one group of variables at a time.                               *)
LEMMA StructT == TypeOK =>
  /\ alloc \in [Transports -> {"none", "live", "freed"}]
  /\ registration \in Seq(Tmsg)
  /\ transport_list \subseteq Transports
  BY DEF TypeOK

(* The types by concern, to be cited apart: threads,                       *)
LEMMA ThreadT == TypeOK =>
  /\ out \in [Transports -> OutPcs]
  /\ inp \in [Transports -> InPcs]
  /\ active \subseteq Transports
  BY DEF TypeOK

(* references,                                                             *)
LEMMA RefT == TypeOK =>
  /\ ref_count \in [Transports -> Int]
  /\ kicked \subseteq Transports
  /\ kicks \in [Transports -> Nat]
  /\ closes \in [Transports -> Nat]
  BY DEF TypeOK

(* socketpairs,                                                            *)
LEMMA PipeT == TypeOK =>
  /\ toMain \in [Transports -> Seq(Packet)]
  /\ toThread \in [Transports -> Seq(Packet)]
  BY DEF TypeOK

(* descriptors,                                                            *)
LEMMA SockT == TypeOK => sockOpen \subseteq Transports /\ fdCloses \in [Transports -> Nat]
  BY DEF TypeOK

(* devices,                                                                *)
LEMMA DevT == TypeOK =>
  /\ remote \in [Transports -> {"up", "down"}]
  /\ recvd \in [Transports -> Nat]
  /\ opened \in [Transports -> SUBSET Clients]
  /\ sync_token \in [Transports -> Nat]
  BY DEF TypeOK

(* connection states,                                                      *)
LEMMA StateT == TypeOK => connection_state \in [Transports -> ConnStates]
  BY DEF TypeOK

(* clients,                                                                *)
LEMMA ClientT == TypeOK =>
  /\ cstate \in [Clients -> {"idle", "smart", "opening", "connected", "closed"}]
  /\ ctrans \in [Clients -> Transports \cup {NoTransport}]
  /\ status \in [Clients -> {"none", "OKAY", "FAIL"}]
  BY DEF TypeOK

(* and the abort.                                                          *)
LEMMA FatalT == TypeOK => fatal \in {"no", "write", "freed"}
  BY DEF TypeOK

(* The queues hold packets, whatever is read from or sent to them.         *)
LEMMA SeqFacts ==
  ASSUME NEW S, NEW q \in Seq(S)
  PROVE  /\ \A e \in S : Append(q, e) \in Seq(S)
         /\ q # << >> => Head(q) \in S /\ Tail(q) \in Seq(S)
  BY SMT

(* What a registration message is made of.                                 *)
LEMMA TmsgFacts ==
  /\ \A t \in Transports : \A a \in {0, 1} : Msg(t, a) \in Tmsg
  /\ \A r \in Tmsg : r.transport \in Transports /\ r.action \in {0, 1}
  /\ \A r, s \in Tmsg : r.transport = s.transport /\ r.action = s.action => r = s
  BY SMT DEF Tmsg, Msg

(* Reading a packet keeps the types,                                       *)
LEMMA ReadsType ==
  ASSUME TypeOK, NEW t \in Transports, NEW p, Reads(t, p)
  PROVE  toMain' \in [Transports -> Seq(Packet)] /\ p \in Packet
<1>1. Head(toMain[t]) \in Packet /\ Tail(toMain[t]) \in Seq(Packet)
  BY PipeT, SeqFacts DEF Reads
<1> QED
  BY <1>1, PipeT DEF Reads

(* send_packet does,                                                       *)
LEMMA SendType ==
  ASSUME TypeOK, NEW t, NEW ps \in Seq(Packet), send_packet(t, ps)
  PROVE  toThread' \in [Transports -> Seq(Packet)] /\ fatal' \in {"no", "write", "freed"}
<1>1. fatal' \in {"no", "write", "freed"}
  BY FatalT DEF send_packet, SendResult
<1>2. CASE t \in Transports
  BY <1>1, <1>2, PipeT, SMT DEF send_packet
<1>3. CASE t \notin Transports
  <2>1. toThread' = toThread
    BY <1>3, PipeT DEF send_packet
  <2> QED
    BY <1>1, <2>1, PipeT
<1> QED
  BY <1>2, <1>3

(* and so does dropping a reference.                                       *)
LEMMA UnrefType ==
  ASSUME TypeOK, NEW t \in Transports, transport_unref_locked(t)
  PROVE  /\ ref_count' \in [Transports -> Int]
         /\ kicked' \subseteq Transports
         /\ kicks' \in [Transports -> Nat]
         /\ closes' \in [Transports -> Nat]
         /\ remote' \in [Transports -> {"up", "down"}]
         /\ fdCloses' \in [Transports -> Nat]
         /\ registration' \in Seq(Tmsg)
<1>1. ref_count' \in [Transports -> Int]
  BY RefT, SMT DEF transport_unref_locked
<1>2. kicked' \subseteq Transports
  BY RefT DEF transport_unref_locked
<1>3. kicks' \in [Transports -> Nat]
  BY RefT, SMT DEF transport_unref_locked
<1>4. closes' \in [Transports -> Nat]
  BY RefT, SMT DEF transport_unref_locked
<1>5. remote' \in [Transports -> {"up", "down"}]
  BY DevT DEF transport_unref_locked
<1>6. fdCloses' \in [Transports -> Nat]
  BY SockT, SMT DEF transport_unref_locked
<1>7. registration' \in Seq(Tmsg)
  BY StructT, SeqFacts, TmsgFacts, Zenon DEF transport_unref_locked, Msg
<1> QED
  BY <1>1, <1>2, <1>3, <1>4, <1>5, <1>6, <1>7

(* TypeOK is preserved by every step.                                      *)
LEMMA TypeStep ==
  ASSUME TypeOK, [Next]_vars PROVE TypeOK'
<1>1. ASSUME NEW t \in Transports, NEW s \in {"OFFLINE", "NOPERM"}, register_transport(t, s) PROVE TypeOK'
  <2>1. alloc' \in [Transports -> {"none", "live", "freed"}]
    BY <1>1, StructT DEF register_transport
  <2>2. connection_state' \in [Transports -> ConnStates]
    BY <1>1, StateT DEF register_transport, ConnStates
  <2>3. registration' \in Seq(Tmsg)
    BY <1>1, SeqFacts, TmsgFacts, StructT, Zenon DEF register_transport, Msg
  <2>4. UNCHANGED <<transport_list, out, inp, active, ref_count, kicked, kicks, closes, toMain,
                    toThread, sockOpen, fdCloses, remote, recvd, opened, sync_token,
                    cstate, ctrans, status, fatal>>
    BY <1>1 DEF register_transport, structVars, refVars, pipeVars, devVars, clientVars
  <2> QED
    BY <2>1, <2>2, <2>3, <2>4, Zenon DEF TypeOK
<1>2. ASSUME NEW t \in Transports, output_start(t) PROVE TypeOK'
  <2>1. Sync(sync_token[t] + 1) \in Packet
    BY <1>2, PacketFacts, DevT, SMT
  <2>2. toMain' \in [Transports -> Seq(Packet)]
    BY <1>2, <2>1, SeqFacts, PipeT, Zenon DEF output_start
  <2>3. sync_token' \in [Transports -> Nat]
    BY <1>2, DevT, SMT DEF output_start
  <2>4. out' \in [Transports -> OutPcs]
    BY <1>2, ThreadT DEF output_start, OutPcs
  <2>5. UNCHANGED <<alloc, registration, transport_list, inp, active, ref_count, kicked, kicks,
                    closes, toThread, sockOpen, fdCloses, remote, recvd, opened,
                    connection_state, cstate, ctrans, status, fatal>>
    BY <1>2 DEF output_start, structVars, refVars, pipeVars, devVars, clientVars
  <2> QED
    BY <2>2, <2>3, <2>4, <2>5, Zenon DEF TypeOK
<1>3. ASSUME NEW t \in Transports, output_read_failed(t) PROVE TypeOK'
  <2>1. out' \in [Transports -> OutPcs]
    BY <1>3, ThreadT DEF output_read_failed, OutPcs
  <2>2. UNCHANGED <<alloc, registration, transport_list, inp, active, ref_count, kicked, kicks,
                    closes, toMain, toThread, sockOpen, fdCloses, remote, recvd, opened,
                    sync_token, connection_state, cstate, ctrans, status, fatal>>
    BY <1>3, Zenon DEF output_read_failed, structVars, refVars, pipeVars, devVars, clientVars
  <2> QED
    BY <2>1, <2>2, Zenon DEF TypeOK
<1>4. ASSUME NEW t \in Transports, output_offline(t) PROVE TypeOK'
  <2>1. Append(toMain[t], Offline) \in Seq(Packet)
    BY <1>4, PacketFacts, SeqFacts, PipeT
  <2>2. toMain' \in [Transports -> Seq(Packet)]
    BY <1>4, <2>1, PipeT DEF output_offline
  <2>3. out' \in [Transports -> OutPcs]
    BY <1>4, ThreadT DEF output_offline, OutPcs
  <2>4. UNCHANGED <<alloc, registration, transport_list, inp, active, ref_count, kicked, kicks,
                    closes, toThread, sockOpen, fdCloses, remote, recvd, opened,
                    sync_token, connection_state, cstate, ctrans, status, fatal>>
    BY <1>4 DEF output_offline, structVars, refVars, pipeVars, devVars, clientVars
  <2> QED
    BY <2>2, <2>3, <2>4 DEF TypeOK
<1>5. ASSUME NEW t \in Transports, output_kick(t) PROVE TypeOK'
  <2>1. kicked' \subseteq Transports
    BY <1>5, RefT DEF output_kick
  <2>2. out' \in [Transports -> OutPcs]
    BY <1>5, ThreadT DEF output_kick, OutPcs
  <2>3. UNCHANGED <<alloc, registration, transport_list, inp, active, ref_count, kicks, closes,
                    toMain, toThread, sockOpen, fdCloses, remote, recvd, opened,
                    sync_token, connection_state, cstate, ctrans, status, fatal>>
    BY <1>5 DEF output_kick, structVars, refVars, pipeVars, devVars, clientVars
  <2> QED
    BY <2>1, <2>2, <2>3, Zenon DEF TypeOK
<1>6. ASSUME NEW t \in Transports, output_kicking(t) PROVE TypeOK'
  <2>1. kicks' \in [Transports -> Nat] /\ remote' \in [Transports -> {"up", "down"}]
    BY <1>6, RefT, DevT, SMT DEF output_kicking, kick
  <2>2. out' \in [Transports -> OutPcs]
    BY <1>6, ThreadT DEF output_kicking, OutPcs
  <2>3. UNCHANGED <<alloc, registration, transport_list, inp, active, ref_count, kicked, closes,
                    toMain, toThread, sockOpen, fdCloses, recvd, opened, sync_token,
                    connection_state, cstate, ctrans, status, fatal>>
    BY <1>6 DEF output_kicking, structVars, refVars, pipeVars, devVars, clientVars
  <2> QED
    BY <2>1, <2>2, <2>3, Zenon DEF TypeOK
<1>7. ASSUME NEW t \in Transports, output_unref(t) PROVE TypeOK'
  <2>1. /\ ref_count' \in [Transports -> Int]
       /\ kicked' \subseteq Transports
       /\ kicks' \in [Transports -> Nat]
       /\ closes' \in [Transports -> Nat]
       /\ remote' \in [Transports -> {"up", "down"}]
       /\ fdCloses' \in [Transports -> Nat]
       /\ registration' \in Seq(Tmsg)
    BY <1>7, UnrefType DEF output_unref
  <2>2. out' \in [Transports -> OutPcs]
    BY <1>7, ThreadT DEF output_unref, OutPcs
  <2>3. UNCHANGED <<alloc, transport_list, inp, active, toMain, toThread, sockOpen, recvd,
                    opened, sync_token, connection_state, cstate, ctrans, status,
                    fatal>>
    BY <1>7 DEF output_unref, structVars, refVars, pipeVars, devVars, clientVars
  <2> QED
    BY <2>1, <2>2, <2>3, Zenon DEF TypeOK
<1>8. ASSUME NEW t \in Transports, input_read(t) PROVE TypeOK'
  <2>1. Head(toThread[t]) \in Packet /\ Tail(toThread[t]) \in Seq(Packet)
    BY <1>8, SeqFacts, PipeT DEF input_read
  <2>2. toThread' \in [Transports -> Seq(Packet)]
    BY <1>8, <2>1, PipeT, Zenon DEF input_read
  <2>3. opened' \in [Transports -> SUBSET Clients]
    BY <1>8, <2>1, PacketFacts, DevT DEF input_read
  <2>4. inp' \in [Transports -> InPcs]
    BY <1>8, ThreadT DEF input_read, InPcs
  <2>5. active' \subseteq Transports
    BY <1>8, ThreadT DEF input_read
  <2>6. UNCHANGED <<alloc, registration, transport_list, out, ref_count, kicked, kicks, closes,
                    toMain, sockOpen, fdCloses, remote, recvd, sync_token,
                    connection_state, cstate, ctrans, status, fatal>>
    BY <1>8 DEF input_read, structVars, refVars, pipeVars, devVars, clientVars
  <2> QED
    BY <2>2, <2>3, <2>4, <2>5, <2>6, Zenon DEF TypeOK
<1>9. ASSUME NEW t \in Transports, input_read_failed(t) PROVE TypeOK'
  <2>1. inp' \in [Transports -> InPcs]
    BY <1>9, ThreadT DEF input_read_failed, InPcs
  <2>2. UNCHANGED <<alloc, registration, transport_list, out, active, ref_count, kicked, kicks,
                    closes, toMain, toThread, sockOpen, fdCloses, remote, recvd, opened,
                    sync_token, connection_state, cstate, ctrans, status, fatal>>
    BY <1>9 DEF input_read_failed, structVars, refVars, pipeVars, devVars, clientVars
  <2> QED
    BY <2>1, <2>2, Zenon DEF TypeOK
<1>10. ASSUME NEW t \in Transports, input_close_all(t) PROVE TypeOK'
  <2>1. /\ cstate' \in [Clients -> {"idle", "smart", "opening", "connected", "closed"}]
       /\ fatal' \in {"no", "write", "freed"}
    BY <1>10, ClientT, FatalT DEF input_close_all, SendResult
  <2>2. inp' \in [Transports -> InPcs]
    BY <1>10, ThreadT DEF input_close_all, InPcs
  <2>3. UNCHANGED <<alloc, registration, transport_list, out, active, ref_count, kicked, kicks,
                    closes, toMain, toThread, sockOpen, fdCloses, remote, recvd, opened,
                    sync_token, connection_state, ctrans, status>>
    BY <1>10 DEF input_close_all, structVars, refVars, pipeVars, devVars, clientVars
  <2> QED
    BY <2>1, <2>2, <2>3, Zenon DEF TypeOK
<1>11. ASSUME NEW t \in Transports, input_kick(t) PROVE TypeOK'
  <2>1. kicked' \subseteq Transports
    BY <1>11, RefT DEF input_kick
  <2>2. inp' \in [Transports -> InPcs]
    BY <1>11, ThreadT DEF input_kick, InPcs
  <2>3. UNCHANGED <<alloc, registration, transport_list, out, active, ref_count, kicks, closes,
                    toMain, toThread, sockOpen, fdCloses, remote, recvd, opened,
                    sync_token, connection_state, cstate, ctrans, status, fatal>>
    BY <1>11 DEF input_kick, structVars, refVars, pipeVars, devVars, clientVars
  <2> QED
    BY <2>1, <2>2, <2>3, Zenon DEF TypeOK
<1>12. ASSUME NEW t \in Transports, input_kicking(t) PROVE TypeOK'
  <2>1. kicks' \in [Transports -> Nat] /\ remote' \in [Transports -> {"up", "down"}]
    BY <1>12, RefT, DevT, SMT DEF input_kicking, kick
  <2>2. inp' \in [Transports -> InPcs]
    BY <1>12, ThreadT DEF input_kicking, InPcs
  <2>3. UNCHANGED <<alloc, registration, transport_list, out, active, ref_count, kicked, closes,
                    toMain, toThread, sockOpen, fdCloses, recvd, opened, sync_token,
                    connection_state, cstate, ctrans, status, fatal>>
    BY <1>12 DEF input_kicking, structVars, refVars, pipeVars, devVars, clientVars
  <2> QED
    BY <2>1, <2>2, <2>3, Zenon DEF TypeOK
<1>13. ASSUME NEW t \in Transports, input_unref(t) PROVE TypeOK'
  <2>1. /\ ref_count' \in [Transports -> Int]
       /\ kicked' \subseteq Transports
       /\ kicks' \in [Transports -> Nat]
       /\ closes' \in [Transports -> Nat]
       /\ remote' \in [Transports -> {"up", "down"}]
       /\ fdCloses' \in [Transports -> Nat]
       /\ registration' \in Seq(Tmsg)
    BY <1>13, UnrefType DEF input_unref
  <2>2. inp' \in [Transports -> InPcs]
    BY <1>13, ThreadT DEF input_unref, InPcs
  <2>3. UNCHANGED <<alloc, transport_list, out, active, toMain, toThread, sockOpen, recvd,
                    opened, sync_token, connection_state, cstate, ctrans, status,
                    fatal>>
    BY <1>13 DEF input_unref, structVars, refVars, pipeVars, devVars, clientVars
  <2> QED
    BY <2>1, <2>2, <2>3, Zenon DEF TypeOK
<1>14. ASSUME NEW t \in Transports, packet_sync_online(t) PROVE TypeOK'
  <2>1. Head(toMain[t]) \in Packet
    BY <1>14, ReadsType DEF packet_sync_online
  <2>2. <<Head(toMain[t]), Cnxn>> \in Seq(Packet)
    BY <1>14, <2>1, PacketFacts, SMT
  <2>3. toMain' \in [Transports -> Seq(Packet)]
    BY <1>14, ReadsType DEF packet_sync_online
  <2>4. toThread' \in [Transports -> Seq(Packet)] /\ fatal' \in {"no", "write", "freed"}
    BY <1>14, <2>2, SendType, Zenon DEF packet_sync_online
  <2>5. UNCHANGED <<alloc, registration, transport_list, out, inp, active, ref_count, kicked,
                    kicks, closes, sockOpen, fdCloses, remote, recvd, opened,
                    sync_token, connection_state, cstate, ctrans, status>>
    BY <1>14 DEF packet_sync_online, structVars, refVars, pipeVars, devVars, clientVars
  <2> QED
    BY <2>3, <2>4, <2>5, Zenon DEF TypeOK
<1>15. ASSUME NEW t \in Transports, packet_sync_offline(t) PROVE TypeOK'
  <2>1. <<Offline>> \in Seq(Packet)
    BY PacketFacts, SMT
  <2>2. toMain' \in [Transports -> Seq(Packet)]
    BY <1>15, ReadsType DEF packet_sync_offline
  <2>3. toThread' \in [Transports -> Seq(Packet)] /\ fatal' \in {"no", "write", "freed"}
    BY <1>15, <2>1, SendType, Zenon DEF packet_sync_offline
  <2>4. cstate' \in [Clients -> {"idle", "smart", "opening", "connected", "closed"}]
    BY <1>15, ClientT DEF packet_sync_offline, run_transport_disconnects, Disconnected
  <2>5. connection_state' \in [Transports -> ConnStates]
    BY <1>15, StateT DEF packet_sync_offline, ConnStates
  <2>6. UNCHANGED <<alloc, registration, transport_list, out, inp, active, ref_count, kicked,
                    kicks, closes, sockOpen, fdCloses, remote, recvd, opened,
                    sync_token, ctrans, status>>
    BY <1>15 DEF packet_sync_offline, structVars, refVars, pipeVars, devVars, clientVars
  <2> QED
    BY <2>2, <2>3, <2>4, <2>5, <2>6, Zenon DEF TypeOK
<1>16. ASSUME NEW t \in Transports, packet_cnxn(t) PROVE TypeOK'
  <2>1. toMain' \in [Transports -> Seq(Packet)]
    BY <1>16, ReadsType DEF packet_cnxn
  <2>2. cstate' \in [Clients -> {"idle", "smart", "opening", "connected", "closed"}]
    BY <1>16, ClientT, Zenon DEF packet_cnxn, Disconnected
  <2>3. connection_state' \in [Transports -> ConnStates]
    BY <1>16, StateT DEF packet_cnxn, Banners, ConnStates
  <2>4. UNCHANGED <<alloc, registration, transport_list, out, inp, active, ref_count, kicked,
                    kicks, closes, toThread, sockOpen, fdCloses, remote, recvd, opened,
                    sync_token, ctrans, status, fatal>>
    BY <1>16 DEF packet_cnxn, structVars, refVars, pipeVars, devVars, clientVars
  <2> QED
    BY <2>1, <2>2, <2>3, <2>4, Zenon DEF TypeOK
<1>17. ASSUME NEW t \in Transports, Unplug(t) PROVE TypeOK'
  <2>1. remote' \in [Transports -> {"up", "down"}]
    BY <1>17, DevT DEF Unplug
  <2>2. UNCHANGED <<alloc, registration, transport_list, out, inp, active, ref_count, kicked,
                    kicks, closes, toMain, toThread, sockOpen, fdCloses, recvd, opened,
                    sync_token, connection_state, cstate, ctrans, status, fatal>>
    BY <1>17 DEF Unplug, structVars, refVars, pipeVars, devVars, clientVars
  <2> QED
    BY <2>1, <2>2, Zenon DEF TypeOK
<1>18. ASSUME NEW t \in Transports, unregister_usb_transport(t) PROVE TypeOK'
  <2>1. transport_list' \subseteq Transports
    BY <1>18, StructT DEF unregister_usb_transport
  <2>2. UNCHANGED <<alloc, registration, out, inp, active, ref_count, kicked, kicks, closes,
                    toMain, toThread, sockOpen, fdCloses, remote, recvd, opened,
                    sync_token, connection_state, cstate, ctrans, status, fatal>>
    BY <1>18 DEF unregister_usb_transport, structVars, refVars, pipeVars, devVars, clientVars
  <2> QED
    BY <2>1, <2>2, Zenon DEF TypeOK
<1>19. ASSUME NEW t \in Transports, NEW p \in FromDevice(t), output_read(t, p) PROVE TypeOK'
  <2>1. p \in Packet
    BY <1>19, DevT, Zenon DEF FromDevice, Packet, Cnxn
  <2>2. Append(toMain[t], p) \in Seq(Packet)
    BY <1>19, <2>1, SeqFacts, PipeT
  <2>3. toMain' \in [Transports -> Seq(Packet)]
    BY <1>19, <2>2, PipeT DEF output_read
  <2>4. out' \in [Transports -> OutPcs]
    BY <1>19, ThreadT DEF output_read, OutPcs
  <2>5. recvd' \in [Transports -> Nat]
    BY <1>19, TransportAssumption, DevT, SMT DEF output_read
  <2>6. UNCHANGED <<alloc, registration, transport_list, inp, active, ref_count, kicked, kicks,
                    closes, toThread, sockOpen, fdCloses, remote, opened, sync_token,
                    connection_state, cstate, ctrans, status, fatal>>
    BY <1>19, Zenon DEF output_read, structVars, refVars, pipeVars, devVars, clientVars
  <2> QED
    BY <2>3, <2>4, <2>5, <2>6, Zenon DEF TypeOK
<1>20. ASSUME NEW t \in Transports, NEW c \in Clients, packet_dropped(t, c) PROVE TypeOK'
  <2>1. toMain' \in [Transports -> Seq(Packet)]
    BY <1>20, ReadsType DEF packet_dropped
  <2>2. UNCHANGED <<alloc, registration, transport_list, out, inp, active, ref_count, kicked,
                    kicks, closes, toThread, sockOpen, fdCloses, remote, recvd, opened,
                    sync_token, connection_state, cstate, ctrans, status, fatal>>
    BY <1>20 DEF packet_dropped, structVars, refVars, pipeVars, devVars, clientVars
  <2> QED
    BY <2>1, <2>2, Zenon DEF TypeOK
<1>21. ASSUME NEW t \in Transports, NEW c \in Clients, packet_okay(t, c) PROVE TypeOK'
  <2>1. toMain' \in [Transports -> Seq(Packet)]
    BY <1>21, ReadsType DEF packet_okay
  <2>2. /\ cstate' \in [Clients -> {"idle", "smart", "opening", "connected", "closed"}]
       /\ ctrans' \in [Clients -> Transports \cup {NoTransport}]
       /\ status' \in [Clients -> {"none", "OKAY", "FAIL"}]
    BY <1>21, ClientT, Zenon DEF packet_okay
  <2>3. UNCHANGED <<alloc, registration, transport_list, out, inp, active, ref_count, kicked,
                    kicks, closes, toThread, sockOpen, fdCloses, remote, recvd, opened,
                    sync_token, connection_state, fatal>>
    BY <1>21 DEF packet_okay, structVars, refVars, pipeVars, devVars, clientVars
  <2> QED
    BY <2>1, <2>2, <2>3, Zenon DEF TypeOK
<1>22. ASSUME NEW t \in Transports, NEW c \in Clients, NEW cmd \in {"CLSE", "WRTE"}, packet_closes(t, cmd, c) PROVE TypeOK'
  <2>1. (IF cstate[c] = "connected" THEN <<Pkt("CLSE", c)>> ELSE << >>) \in Seq(Packet)
    BY <1>22, PacketFacts, SMT
  <2>2. toMain' \in [Transports -> Seq(Packet)]
    BY <1>22, ReadsType, Zenon DEF packet_closes
  <2>3. toThread' \in [Transports -> Seq(Packet)] /\ fatal' \in {"no", "write", "freed"}
    BY <1>22, <2>1, SendType, Zenon DEF packet_closes
  <2>4. /\ cstate' \in [Clients -> {"idle", "smart", "opening", "connected", "closed"}]
       /\ status' \in [Clients -> {"none", "OKAY", "FAIL"}]
    BY <1>22, ClientT, Zenon DEF packet_closes
  <2>5. UNCHANGED <<alloc, registration, transport_list, out, inp, active, ref_count, kicked,
                    kicks, closes, sockOpen, fdCloses, remote, recvd, opened,
                    sync_token, connection_state, ctrans>>
    BY <1>22, Zenon DEF packet_closes, structVars, refVars, pipeVars, devVars, clientVars
  <2> QED
    BY <2>2, <2>3, <2>4, <2>5, Zenon DEF TypeOK
<1>23. ASSUME NEW t \in Transports, NEW c \in Clients, packet_wrte(t, c) PROVE TypeOK'
  <2>1. << >> \in Seq(Packet) /\ <<Pkt("OKAY", c)>> \in Seq(Packet)
    BY <1>23, PacketFacts, SMT
  <2>2. toMain' \in [Transports -> Seq(Packet)]
    BY <1>23, ReadsType, Zenon DEF packet_wrte
  <2>3. toThread' \in [Transports -> Seq(Packet)] /\ fatal' \in {"no", "write", "freed"}
    BY <1>23, <2>1, SendType, Zenon DEF packet_wrte
  <2>4. UNCHANGED <<alloc, registration, transport_list, out, inp, active, ref_count, kicked,
                    kicks, closes, sockOpen, fdCloses, remote, recvd, opened,
                    sync_token, connection_state, cstate, ctrans, status>>
    BY <1>23, Zenon DEF packet_wrte, structVars, refVars, pipeVars, devVars, clientVars
  <2> QED
    BY <2>2, <2>3, <2>4, Zenon DEF TypeOK
<1>24. ASSUME NEW t \in Transports, NEW c \in Clients, client_transport(c, t) PROVE TypeOK'
  <2>1. /\ cstate' \in [Clients -> {"idle", "smart", "opening", "connected", "closed"}]
       /\ ctrans' \in [Clients -> Transports \cup {NoTransport}]
    BY <1>24, ClientT, Zenon DEF client_transport
  <2>2. UNCHANGED <<alloc, registration, transport_list, out, inp, active, ref_count, kicked,
                    kicks, closes, toMain, toThread, sockOpen, fdCloses, remote, recvd,
                    opened, sync_token, connection_state, status, fatal>>
    BY <1>24, Zenon DEF client_transport, structVars, refVars, pipeVars, devVars, clientVars
  <2> QED
    BY <2>1, <2>2, Zenon DEF TypeOK
<1>25. ASSUME registration_add PROVE TypeOK'
  <2>1. Head(registration).transport \in Transports
    BY <1>25, SeqFacts, TmsgFacts, StructT, Zenon DEF registration_add
  <2>2. registration' \in Seq(Tmsg)
    BY <1>25, SeqFacts, StructT, Zenon DEF registration_add
  <2>3. out' \in [Transports -> OutPcs]
    BY <1>25, <2>1, ThreadT, Zenon DEF registration_add, OutPcs
  <2>4. inp' \in [Transports -> InPcs]
    BY <1>25, <2>1, ThreadT, Zenon DEF registration_add, InPcs
  <2>5. ref_count' \in [Transports -> Int]
    BY <1>25, <2>1, RefT, SMT DEF registration_add
  <2>6. sockOpen' \subseteq Transports /\ transport_list' \subseteq Transports
    BY <1>25, <2>1, StructT, SockT, Zenon DEF registration_add
  <2>7. UNCHANGED <<alloc, active, kicked, kicks, closes, toMain, toThread, fdCloses, remote,
                    recvd, opened, sync_token, connection_state, cstate, ctrans, status,
                    fatal>>
    BY <1>25, Zenon DEF registration_add, structVars, refVars, pipeVars, devVars, clientVars
  <2> QED
    BY <2>2, <2>3, <2>4, <2>5, <2>6, <2>7 DEF TypeOK
<1>26. ASSUME registration_remove PROVE TypeOK'
  <2>1. Head(registration).transport \in Transports
    BY <1>26, SeqFacts, TmsgFacts, StructT, Zenon DEF registration_remove
  <2>2. registration' \in Seq(Tmsg)
    BY <1>26, SeqFacts, StructT, Zenon DEF registration_remove
  <2>3. alloc' \in [Transports -> {"none", "live", "freed"}]
    BY <1>26, <2>1, StructT, Zenon DEF registration_remove
  <2>4. cstate' \in [Clients -> {"idle", "smart", "opening", "connected", "closed"}]
    BY <1>26, ClientT, Zenon DEF registration_remove, run_transport_disconnects, Disconnected
  <2>5. fdCloses' \in [Transports -> Nat]
    BY <1>26, <2>1, SockT, SMT DEF registration_remove
  <2>6. sockOpen' \subseteq Transports /\ transport_list' \subseteq Transports
    BY <1>26, <2>1, StructT, SockT, Zenon DEF registration_remove
  <2>7. UNCHANGED <<out, inp, active, ref_count, kicked, kicks, closes, toMain, toThread,
                    remote, recvd, opened, sync_token, connection_state, ctrans, status,
                    fatal>>
    BY <1>26, Zenon DEF registration_remove, structVars, refVars, pipeVars, devVars, clientVars
  <2> QED
    BY <2>2, <2>3, <2>4, <2>5, <2>6, <2>7 DEF TypeOK
<1>27. ASSUME NEW c \in Clients, client_request(c) PROVE TypeOK'
  <2>1. (IF connection_state[ctrans[c]] = "OFFLINE" /\ alloc[ctrans[c]] # "freed" THEN << >> ELSE <<Pkt("OPEN", c)>>) \in Seq(Packet)
    BY <1>27, PacketFacts, SMT
  <2>2. toThread' \in [Transports -> Seq(Packet)] /\ fatal' \in {"no", "write", "freed"}
    BY <1>27, <2>1, SendType, Zenon DEF client_request
  <2>3. /\ cstate' \in [Clients -> {"idle", "smart", "opening", "connected", "closed"}]
       /\ status' \in [Clients -> {"none", "OKAY", "FAIL"}]
    BY <1>27, ClientT, Zenon DEF client_request
  <2>4. UNCHANGED <<alloc, registration, transport_list, out, inp, active, ref_count, kicked,
                    kicks, closes, toMain, sockOpen, fdCloses, remote, recvd, opened,
                    sync_token, connection_state, ctrans>>
    BY <1>27, Zenon DEF client_request, structVars, refVars, pipeVars, devVars, clientVars
  <2> QED
    BY <2>2, <2>3, <2>4, Zenon DEF TypeOK
<1>28. ASSUME NEW c \in Clients, client_hangup(c) PROVE TypeOK'
  <2>1. (IF cstate[c] = "connected" THEN <<Pkt("CLSE", c)>> ELSE << >>) \in Seq(Packet)
    BY <1>28, PacketFacts, SMT
  <2>2. toThread' \in [Transports -> Seq(Packet)] /\ fatal' \in {"no", "write", "freed"}
    BY <1>28, <2>1, SendType, Zenon DEF client_hangup
  <2>3. cstate' \in [Clients -> {"idle", "smart", "opening", "connected", "closed"}]
    BY <1>28, ClientT, Zenon DEF client_hangup
  <2>4. UNCHANGED <<alloc, registration, transport_list, out, inp, active, ref_count, kicked,
                    kicks, closes, toMain, sockOpen, fdCloses, remote, recvd, opened,
                    sync_token, connection_state, ctrans, status>>
    BY <1>28, Zenon DEF client_hangup, structVars, refVars, pipeVars, devVars, clientVars
  <2> QED
    BY <2>2, <2>3, <2>4, Zenon DEF TypeOK
<1>29. CASE UNCHANGED vars
  BY <1>29 DEF TypeOK, vars, structVars, refVars, pipeVars, devVars, clientVars
<1>30. ASSUME NEW t \in Transports, NEW c \in Clients, packet_open(t, c) PROVE TypeOK'
  <2>1. <<Pkt("OKAY", c)>> \in Seq(Packet) /\ <<Pkt("CLSE", c)>> \in Seq(Packet)
    BY <1>30, PacketFacts, SMT
  <2>2. toMain' \in [Transports -> Seq(Packet)]
    BY <1>30, ReadsType DEF packet_open
  <2>3. toThread' \in [Transports -> Seq(Packet)] /\ fatal' \in {"no", "write", "freed"}
    BY <1>30, <2>1, SendType DEF packet_open
  <2>4. /\ cstate' \in [Clients -> {"idle", "smart", "opening", "connected", "closed"}]
       /\ ctrans' \in [Clients -> Transports \cup {NoTransport}]
    BY <1>30, ClientT DEF packet_open
  <2>5. UNCHANGED <<alloc, registration, transport_list, out, inp, active, ref_count, kicked,
                    kicks, closes, sockOpen, fdCloses, remote, recvd, opened,
                    sync_token, connection_state, status>>
    BY <1>30 DEF packet_open, structVars, refVars, devVars
  <2> QED
    BY <2>2, <2>3, <2>4, <2>5 DEF TypeOK
<1> QED
  BY <1>1, <1>2, <1>3, <1>4, <1>5, <1>6, <1>7, <1>8, <1>9, <1>10, <1>11, <1>12, <1>13, <1>14, <1>15, <1>16, <1>17, <1>18, <1>19, <1>20, <1>21, <1>22, <1>23, <1>24, <1>25, <1>26, <1>27, <1>28, <1>29, <1>30, Zenon
  DEF Next, Receives, OutputThread, InputThread, handle_packet, packet_clse, packet_wrte_failed, transport_registration_func

(* The message the main loop takes next.                                   *)
LEMMA HeadFacts ==
  ASSUME TypeOK, Posted, registration # << >>
  PROVE  LET r == Head(registration) IN
         /\ r \in Tmsg /\ r.transport \in Transports
         /\ alloc[r.transport] = "live"
         /\ r.action = 1 => out[r.transport] = "none"
         /\ r.action = 0 => closes[r.transport] = 1
<1>1. Head(registration) \in Tmsg
  BY StructT, SeqFacts
<1>2. 1 \in 1..Len(registration) /\ Head(registration) = registration[1]
  BY StructT, SMT
<1>3. Head(registration).transport \in Transports
  BY <1>1, TmsgFacts
<1> QED
  BY <1>1, <1>2, <1>3, Zenon DEF Posted

---------------------------------------------------------------------------
(***************************************************************************)
(* Life, Posted and Kick are kept: references, closes, what waits in the   *)
(* registration socket, and who calls t->kick.                             *)
(***************************************************************************)

(* A thread of u moves on, neither starting nor ending.                    *)
LEMMA LifeFrame ==
  ASSUME NEW u, Life(u),
         out'[u] = out[u] \/ (out[u] \notin {"none", "done"} /\ out'[u] \notin {"none", "done"}),
         inp'[u] = inp[u] \/ (inp[u] \notin {"none", "done"} /\ inp'[u] \notin {"none", "done"}),
         ref_count'[u] = ref_count[u], closes'[u] = closes[u], alloc'[u] = alloc[u],
         u \in sockOpen' <=> u \in sockOpen, fdCloses'[u] = fdCloses[u],
         connection_state'[u] = connection_state[u],
         u \in transport_list' => u \in transport_list
  PROVE  Life(u)'
  BY Zenon DEF Life

(* Every step keeps the account of a transport's references.               *)
LEMMA LifeStep ==
  ASSUME TypeOK, Posted, \A t \in Transports : Life(t), [Next]_vars, NEW u \in Transports
  PROVE  Life(u)'
<1>0. Life(u)
  OBVIOUS
<1>1. ASSUME NEW t \in Transports, NEW s \in {"OFFLINE", "NOPERM"}, register_transport(t, s) PROVE Life(u)'
  <2>1. UNCHANGED <<out, inp, ref_count, closes, sockOpen, fdCloses, transport_list>>
    BY <1>1 DEF register_transport, refVars, pipeVars
  <2>2. CASE u = t
    <3>1. alloc[u] = "none" /\ alloc'[u] = "live" /\ connection_state'[u] = s
      BY <1>1, <2>2, StructT, StateT DEF register_transport
    <3> QED
      BY <1>0, <2>1, <3>1 DEF Life
  <2>3. CASE u # t
    <3>1. alloc'[u] = alloc[u] /\ connection_state'[u] = connection_state[u]
      BY <1>1, <2>3, StructT, StateT DEF register_transport
    <3> QED
      BY <1>0, <2>1, <3>1, LifeFrame
  <2> QED
    BY <2>2, <2>3
<1>2. ASSUME NEW t \in Transports, output_start(t) PROVE Life(u)'
  <2>1. UNCHANGED <<inp, ref_count, closes, alloc, sockOpen, fdCloses, connection_state, transport_list>>
    BY <1>2 DEF output_start, structVars, refVars, pipeVars
  <2>2. out'[u] = out[u] \/ (out[u] \notin {"none", "done"} /\ out'[u] \notin {"none", "done"})
    BY <1>2, ThreadT DEF output_start
  <2> QED
    BY <1>0, <2>1, <2>2, LifeFrame
<1>3. ASSUME NEW t \in Transports, output_read_failed(t) PROVE Life(u)'
  <2>1. UNCHANGED <<inp, ref_count, closes, alloc, sockOpen, fdCloses, connection_state, transport_list>>
    BY <1>3 DEF output_read_failed, structVars, refVars, pipeVars
  <2>2. out'[u] = out[u] \/ (out[u] \notin {"none", "done"} /\ out'[u] \notin {"none", "done"})
    BY <1>3, ThreadT DEF output_read_failed
  <2> QED
    BY <1>0, <2>1, <2>2, LifeFrame
<1>4. ASSUME NEW t \in Transports, output_offline(t) PROVE Life(u)'
  <2>1. UNCHANGED <<inp, ref_count, closes, alloc, sockOpen, fdCloses, connection_state, transport_list>>
    BY <1>4 DEF output_offline, structVars, refVars, pipeVars
  <2>2. out'[u] = out[u] \/ (out[u] \notin {"none", "done"} /\ out'[u] \notin {"none", "done"})
    BY <1>4, ThreadT DEF output_offline
  <2> QED
    BY <1>0, <2>1, <2>2, LifeFrame
<1>5. ASSUME NEW t \in Transports, output_kick(t) PROVE Life(u)'
  <2>1. UNCHANGED <<inp, ref_count, closes, alloc, sockOpen, fdCloses, connection_state, transport_list>>
    BY <1>5 DEF output_kick, structVars, refVars, pipeVars
  <2>2. out'[u] = out[u] \/ (out[u] \notin {"none", "done"} /\ out'[u] \notin {"none", "done"})
    BY <1>5, ThreadT DEF output_kick
  <2> QED
    BY <1>0, <2>1, <2>2, LifeFrame
<1>6. ASSUME NEW t \in Transports, output_kicking(t) PROVE Life(u)'
  <2>1. UNCHANGED <<inp, ref_count, closes, alloc, sockOpen, fdCloses, connection_state, transport_list>>
    BY <1>6 DEF output_kicking, structVars, refVars, pipeVars
  <2>2. out'[u] = out[u] \/ (out[u] \notin {"none", "done"} /\ out'[u] \notin {"none", "done"})
    BY <1>6, ThreadT DEF output_kicking
  <2> QED
    BY <1>0, <2>1, <2>2, LifeFrame
<1>7. ASSUME NEW t \in Transports, output_unref(t) PROVE Life(u)'
  <2>1. UNCHANGED <<alloc, sockOpen, connection_state, transport_list, inp>>
    BY <1>7 DEF output_unref
  <2>2. CASE u = t
    <3>1. ref_count[u] \in Int /\ closes[u] \in Nat /\ fdCloses[u] \in Nat
      BY RefT, SockT
    <3>2. /\ out[u] = "unref" /\ out'[u] = "done" /\ ref_count'[u] = ref_count[u] - 1
      BY <1>7, <2>2, ThreadT, RefT DEF output_unref, transport_unref_locked
    <3>3. closes'[u] = IF ref_count[u] = 1 THEN closes[u] + 1 ELSE closes[u]
      BY <1>7, <2>2, RefT DEF output_unref, transport_unref_locked, LastRef
    <3>4. ref_count[u] # 1 => fdCloses'[u] = fdCloses[u]
      BY <1>7, <2>2, SockT DEF output_unref, transport_unref_locked, LastRef
    <3> QED
      BY <1>0, <2>1, <3>1, <3>2, <3>3, <3>4, SMT DEF Life
  <2>3. CASE u # t
    <3>1. ref_count'[u] = ref_count[u] /\ closes'[u] = closes[u]
      BY <1>7, <2>3, RefT DEF output_unref, transport_unref_locked
    <3>2. fdCloses'[u] = fdCloses[u] /\ out'[u] = out[u]
      BY <1>7, <2>3, SockT, ThreadT DEF output_unref, transport_unref_locked
    <3> QED
      BY <1>0, <2>1, <3>1, <3>2, LifeFrame
  <2> QED
    BY <2>2, <2>3
<1>8. ASSUME NEW t \in Transports, input_read(t) PROVE Life(u)'
  <2>1. UNCHANGED <<out, ref_count, closes, alloc, sockOpen, fdCloses, connection_state, transport_list>>
    BY <1>8 DEF input_read, structVars, refVars, pipeVars
  <2>2. inp'[u] = inp[u] \/ (inp[u] \notin {"none", "done"} /\ inp'[u] \notin {"none", "done"})
    BY <1>8, ThreadT DEF input_read
  <2> QED
    BY <1>0, <2>1, <2>2, LifeFrame
<1>9. ASSUME NEW t \in Transports, input_read_failed(t) PROVE Life(u)'
  <2>1. UNCHANGED <<out, ref_count, closes, alloc, sockOpen, fdCloses, connection_state, transport_list>>
    BY <1>9 DEF input_read_failed, structVars, refVars, pipeVars
  <2>2. inp'[u] = inp[u] \/ (inp[u] \notin {"none", "done"} /\ inp'[u] \notin {"none", "done"})
    BY <1>9, ThreadT DEF input_read_failed
  <2> QED
    BY <1>0, <2>1, <2>2, LifeFrame
<1>10. ASSUME NEW t \in Transports, input_close_all(t) PROVE Life(u)'
  <2>1. UNCHANGED <<out, ref_count, closes, alloc, sockOpen, fdCloses, connection_state, transport_list>>
    BY <1>10 DEF input_close_all, structVars, refVars, pipeVars
  <2>2. inp'[u] = inp[u] \/ (inp[u] \notin {"none", "done"} /\ inp'[u] \notin {"none", "done"})
    BY <1>10, ThreadT DEF input_close_all
  <2> QED
    BY <1>0, <2>1, <2>2, LifeFrame
<1>11. ASSUME NEW t \in Transports, input_kick(t) PROVE Life(u)'
  <2>1. UNCHANGED <<out, ref_count, closes, alloc, sockOpen, fdCloses, connection_state, transport_list>>
    BY <1>11 DEF input_kick, structVars, refVars, pipeVars
  <2>2. inp'[u] = inp[u] \/ (inp[u] \notin {"none", "done"} /\ inp'[u] \notin {"none", "done"})
    BY <1>11, ThreadT DEF input_kick
  <2> QED
    BY <1>0, <2>1, <2>2, LifeFrame
<1>12. ASSUME NEW t \in Transports, input_kicking(t) PROVE Life(u)'
  <2>1. UNCHANGED <<out, ref_count, closes, alloc, sockOpen, fdCloses, connection_state, transport_list>>
    BY <1>12 DEF input_kicking, structVars, refVars, pipeVars
  <2>2. inp'[u] = inp[u] \/ (inp[u] \notin {"none", "done"} /\ inp'[u] \notin {"none", "done"})
    BY <1>12, ThreadT DEF input_kicking
  <2> QED
    BY <1>0, <2>1, <2>2, LifeFrame
<1>13. ASSUME NEW t \in Transports, input_unref(t) PROVE Life(u)'
  <2>1. UNCHANGED <<alloc, sockOpen, connection_state, transport_list, out>>
    BY <1>13 DEF input_unref
  <2>2. CASE u = t
    <3>1. ref_count[u] \in Int /\ closes[u] \in Nat /\ fdCloses[u] \in Nat
      BY RefT, SockT
    <3>2. /\ inp[u] = "unref" /\ inp'[u] = "done" /\ ref_count'[u] = ref_count[u] - 1
      BY <1>13, <2>2, ThreadT, RefT, Zenon DEF input_unref, transport_unref_locked
    <3>3. closes'[u] = IF ref_count[u] = 1 THEN closes[u] + 1 ELSE closes[u]
      BY <1>13, <2>2, RefT DEF input_unref, transport_unref_locked, LastRef
    <3>4. ref_count[u] # 1 => fdCloses'[u] = fdCloses[u]
      BY <1>13, <2>2, SockT DEF input_unref, transport_unref_locked, LastRef
    <3> QED
      BY <1>0, <2>1, <3>1, <3>2, <3>3, <3>4, SMT DEF Life
  <2>3. CASE u # t
    <3>1. ref_count'[u] = ref_count[u] /\ closes'[u] = closes[u]
      BY <1>13, <2>3, RefT DEF input_unref, transport_unref_locked
    <3>2. fdCloses'[u] = fdCloses[u] /\ inp'[u] = inp[u]
      BY <1>13, <2>3, SockT, ThreadT DEF input_unref, transport_unref_locked
    <3> QED
      BY <1>0, <2>1, <3>1, <3>2, LifeFrame
  <2> QED
    BY <2>2, <2>3
<1>14. ASSUME NEW t \in Transports, packet_sync_online(t) PROVE Life(u)'
  <2>1. UNCHANGED <<out, inp, ref_count, closes, alloc, sockOpen, fdCloses, connection_state, transport_list>>
    BY <1>14 DEF packet_sync_online, structVars, refVars, pipeVars
  <2> QED
    BY <1>0, <2>1, LifeFrame
<1>15. ASSUME NEW t \in Transports, packet_sync_offline(t) PROVE Life(u)'
  <2>1. UNCHANGED <<out, inp, ref_count, closes, alloc, sockOpen, fdCloses, transport_list>>
    BY <1>15 DEF packet_sync_offline, structVars, refVars
  <2>3. connection_state'[u] = connection_state[u] \/ (u = t /\ connection_state'[u] # "NOPERM")
    BY <1>15, StateT, Zenon DEF packet_sync_offline
  <2>4. u = t => out[u] # "none"
    BY <1>0, <1>15 DEF packet_sync_offline, Reads, Life
  <2> QED
    BY <1>0, <2>1, <2>3, <2>4 DEF Life
<1>16. ASSUME NEW t \in Transports, packet_cnxn(t) PROVE Life(u)'
  <2>1. UNCHANGED <<out, inp, ref_count, closes, alloc, sockOpen, fdCloses, transport_list>>
    BY <1>16 DEF packet_cnxn, structVars, refVars
  <2>2. PICK banner \in Banners : connection_state' = [connection_state EXCEPT ![t] = banner]
    BY <1>16, Zenon DEF packet_cnxn
  <2>3. connection_state'[u] = connection_state[u] \/ (u = t /\ connection_state'[u] # "NOPERM")
    BY <2>2, StateT DEF Banners
  <2>4. u = t => out[u] # "none"
    BY <1>0, <1>16, Zenon DEF packet_cnxn, Reads, Life
  <2> QED
    BY <1>0, <2>1, <2>3, <2>4 DEF Life
<1>17. ASSUME NEW t \in Transports, Unplug(t) PROVE Life(u)'
  <2>1. UNCHANGED <<out, inp, ref_count, closes, alloc, sockOpen, fdCloses, connection_state, transport_list>>
    BY <1>17 DEF Unplug, structVars, refVars, pipeVars
  <2> QED
    BY <1>0, <2>1, LifeFrame
<1>18. ASSUME NEW t \in Transports, unregister_usb_transport(t) PROVE Life(u)'
  <2>1. UNCHANGED <<out, inp, ref_count, closes, alloc, sockOpen, fdCloses, connection_state>>
    BY <1>18 DEF unregister_usb_transport, refVars, pipeVars
  <2>2. u \in transport_list' => u \in transport_list
    BY <1>18 DEF unregister_usb_transport
  <2> QED
    BY <1>0, <2>1, <2>2, LifeFrame
<1>19. ASSUME NEW t \in Transports, NEW p \in FromDevice(t), output_read(t, p) PROVE Life(u)'
  <2>1. UNCHANGED <<inp, ref_count, closes, alloc, sockOpen, fdCloses, connection_state, transport_list>>
    BY <1>19 DEF output_read, structVars, refVars, pipeVars
  <2>2. out'[u] = out[u] \/ (out[u] \notin {"none", "done"} /\ out'[u] \notin {"none", "done"})
    BY <1>19, ThreadT DEF output_read
  <2> QED
    BY <1>0, <2>1, <2>2, LifeFrame
<1>20. ASSUME NEW t \in Transports, NEW c \in Clients, packet_dropped(t, c) PROVE Life(u)'
  <2>1. UNCHANGED <<out, inp, ref_count, closes, alloc, sockOpen, fdCloses, connection_state, transport_list>>
    BY <1>20 DEF packet_dropped, structVars, refVars, pipeVars
  <2> QED
    BY <1>0, <2>1, LifeFrame
<1>21. ASSUME NEW t \in Transports, NEW c \in Clients, packet_okay(t, c) PROVE Life(u)'
  <2>1. UNCHANGED <<out, inp, ref_count, closes, alloc, sockOpen, fdCloses, connection_state, transport_list>>
    BY <1>21 DEF packet_okay, structVars, refVars, pipeVars
  <2> QED
    BY <1>0, <2>1, LifeFrame
<1>22. ASSUME NEW t \in Transports, NEW c \in Clients, NEW cmd \in {"CLSE", "WRTE"}, packet_closes(t, cmd, c) PROVE Life(u)'
  <2>1. UNCHANGED <<out, inp, ref_count, closes, alloc, sockOpen, fdCloses, connection_state, transport_list>>
    BY <1>22 DEF packet_closes, structVars, refVars, pipeVars
  <2> QED
    BY <1>0, <2>1, LifeFrame
<1>23. ASSUME NEW t \in Transports, NEW c \in Clients, packet_wrte(t, c) PROVE Life(u)'
  <2>1. UNCHANGED <<out, inp, ref_count, closes, alloc, sockOpen, fdCloses, connection_state, transport_list>>
    BY <1>23 DEF packet_wrte, structVars, refVars, pipeVars
  <2> QED
    BY <1>0, <2>1, LifeFrame
<1>24. ASSUME NEW t \in Transports, NEW c \in Clients, client_transport(c, t) PROVE Life(u)'
  <2>1. UNCHANGED <<out, inp, ref_count, closes, alloc, sockOpen, fdCloses, connection_state, transport_list>>
    BY <1>24 DEF client_transport, structVars, refVars, pipeVars
  <2> QED
    BY <1>0, <2>1, LifeFrame
<1>25. ASSUME registration_add PROVE Life(u)'
  <2> DEFINE t == Head(registration).transport
  <2>1. t \in Transports /\ alloc[t] = "live" /\ out[t] = "none"
    BY <1>25, HeadFacts DEF registration_add
  <2>2. UNCHANGED <<alloc, closes, fdCloses, connection_state>>
    BY <1>25, Zenon DEF registration_add
  <2>3. u # t => /\ out'[u] = out[u] /\ inp'[u] = inp[u] /\ ref_count'[u] = ref_count[u]
                 /\ u \in sockOpen' <=> u \in sockOpen
                 /\ u \in transport_list' => u \in transport_list
    BY <1>25, <2>1, ThreadT, RefT, Zenon DEF registration_add
  <2>4. CASE u # t
    BY <1>0, <2>2, <2>3, <2>4, LifeFrame, Zenon
  <2>5. CASE u = t /\ connection_state[t] = "NOPERM"
    <3>1. out'[u] = out[u] /\ inp'[u] = inp[u] /\ ref_count'[u] = ref_count[u] /\ sockOpen' = sockOpen
      BY <1>25, <2>1, <2>5, ThreadT, RefT DEF registration_add
    <3> QED
      BY <1>0, <2>1, <2>2, <2>5, <3>1, Zenon DEF Life
  <2>6. CASE u = t /\ connection_state[t] # "NOPERM"
    <3>1. out'[u] = "start" /\ inp'[u] = "read" /\ ref_count'[u] = 2 /\ u \in sockOpen'
      BY <1>25, <2>1, <2>6, ThreadT, RefT, Zenon DEF registration_add
    <3> QED
      BY <1>0, <2>1, <2>2, <2>6, <3>1, SMT DEF Life
  <2> QED
    BY <2>4, <2>5, <2>6, Zenon
<1>26. ASSUME registration_remove PROVE Life(u)'
  <2> DEFINE t == Head(registration).transport
  <2>1. t \in Transports /\ closes[t] = 1
    BY <1>26, HeadFacts, Zenon DEF registration_remove
  <2>2. UNCHANGED <<closes, out, inp, ref_count, connection_state>>
    BY <1>26, Zenon DEF registration_remove, refVars
  <2>3. CASE u = t
    <3>1. u \notin sockOpen' /\ u \notin transport_list' /\ alloc'[u] = "freed"
      BY <1>26, <2>3, StructT, Zenon DEF registration_remove
    <3> QED
      BY <1>0, <2>1, <2>2, <2>3, <3>1, Zenon DEF Life
  <2>4. CASE u # t
    <3>1. alloc'[u] = alloc[u] /\ fdCloses'[u] = fdCloses[u]
      BY <1>26, <2>1, <2>4, StructT, SockT DEF registration_remove
    <3>2. (u \in sockOpen' <=> u \in sockOpen) /\ (u \in transport_list' => u \in transport_list)
      BY <1>26, <2>4 DEF registration_remove
    <3> QED
      BY <1>0, <2>2, <3>1, <3>2, LifeFrame
  <2> QED
    BY <2>3, <2>4, Zenon
<1>27. ASSUME NEW c \in Clients, client_request(c) PROVE Life(u)'
  <2>1. UNCHANGED <<out, inp, ref_count, closes, alloc, sockOpen, fdCloses, connection_state, transport_list>>
    BY <1>27 DEF client_request, structVars, refVars, pipeVars
  <2> QED
    BY <1>0, <2>1, LifeFrame, Zenon
<1>28. ASSUME NEW c \in Clients, client_hangup(c) PROVE Life(u)'
  <2>1. UNCHANGED <<out, inp, ref_count, closes, alloc, sockOpen, fdCloses, connection_state, transport_list>>
    BY <1>28, Zenon DEF client_hangup, structVars, refVars, pipeVars
  <2> QED
    BY <1>0, <2>1, LifeFrame
<1>29. CASE UNCHANGED vars
  BY <1>0, <1>29, LifeFrame, Zenon DEF vars, structVars, refVars, pipeVars
<1>30. ASSUME NEW t \in Transports, NEW c \in Clients, packet_open(t, c) PROVE Life(u)'
  <2>1. UNCHANGED <<out, inp, ref_count, closes, alloc, sockOpen, fdCloses, connection_state, transport_list>>
    BY <1>30 DEF packet_open, structVars, refVars
  <2> QED
    BY <1>0, <2>1, LifeFrame
<1> QED
  BY <1>1, <1>2, <1>3, <1>4, <1>5, <1>6, <1>7, <1>8, <1>9, <1>10, <1>11, <1>12, <1>13, <1>14, <1>15, <1>16, <1>17, <1>18, <1>19, <1>20, <1>21, <1>22, <1>23, <1>24, <1>25, <1>26, <1>27, <1>28, <1>29, <1>30
  DEF Next, Receives, OutputThread, InputThread, handle_packet, packet_clse, packet_wrte_failed, transport_registration_func

(* What keeps Posted: nothing is posted, and no thread has started.        *)
LEMMA PostedFrame ==
  ASSUME TypeOK, Posted, UNCHANGED <<registration, alloc, closes>>,
         \A t \in Transports : out[t] = "none" => out'[t] = "none"
  PROVE  Posted'
<1>1. \A i \in 1..Len(registration) : registration[i].transport \in Transports
  BY TmsgFacts, StructT, SMT
<1> QED
  BY <1>1, Zenon DEF Posted

(* A message that is not there yet may be posted.                          *)
LEMMA PostedAppend ==
  ASSUME TypeOK, Posted, NEW m \in Tmsg, registration' = Append(registration, m),
         \A i \in 1..Len(registration) : registration[i] # m,
         alloc'[m.transport] = "live",
         m.action = 1 => out'[m.transport] = "none",
         m.action = 0 => closes'[m.transport] = 1,
         \A t \in Transports : /\ alloc[t] = "live" => alloc'[t] = "live"
                               /\ out[t] = "none" => out'[t] = "none"
                               /\ closes[t] = 1 => closes'[t] = 1
  PROVE  Posted'
<1>1. \A i \in 1..Len(registration) : registration[i].transport \in Transports
  BY TmsgFacts, StructT, SMT
<1>2. Len(registration') = Len(registration) + 1
  BY StructT, SMT
<1>3. \A i \in 1..Len(registration) : registration'[i] = registration[i]
  BY StructT, SMT
<1>4. registration'[Len(registration) + 1] = m
  BY StructT, SMT
<1>5. Len(registration) \in Nat
  BY StructT, SMT
<1>6. ASSUME NEW i \in 1..Len(registration')
      PROVE  LET r == registration'[i] IN
               /\ alloc'[r.transport] = "live"
               /\ r.action = 1 => out'[r.transport] = "none"
               /\ r.action = 0 => closes'[r.transport] = 1
  <2>1. CASE i \in 1..Len(registration)
    BY <1>1, <1>3, <2>1, SMT DEF Posted
  <2>2. CASE i = Len(registration) + 1
    BY <1>4, <2>2
  <2> QED
    BY <1>2, <1>5, <1>6, <2>1, <2>2, SMT
<1>7. ASSUME NEW i \in 1..Len(registration'), NEW j \in 1..Len(registration'),
             registration'[i] = registration'[j]
      PROVE  i = j
  <2>1. i \in 1..Len(registration) \/ i = Len(registration) + 1
    BY <1>2, <1>5, SMT
  <2>2. j \in 1..Len(registration) \/ j = Len(registration) + 1
    BY <1>2, <1>5, SMT
  <2>3. CASE i \in 1..Len(registration) /\ j \in 1..Len(registration)
    BY <1>3, <1>7, <2>3, SMT DEF Posted
  <2> QED
    BY <1>3, <1>4, <1>7, <2>1, <2>2, <2>3, SMT
<1> QED
  BY <1>6, <1>7 DEF Posted

(* A message may be read.                                                  *)
LEMMA PostedTail ==
  ASSUME TypeOK, Posted, registration # << >>, registration' = Tail(registration), closes' = closes,
         \A t \in Transports : t # Head(registration).transport =>
            (alloc[t] = "live" => alloc'[t] = "live") /\ (out[t] = "none" => out'[t] = "none"),
         \A i \in 2..Len(registration) : registration[i].transport = Head(registration).transport =>
            LET r == registration[i] IN
              alloc'[r.transport] = "live" /\ (r.action = 1 => out'[r.transport] = "none")
  PROVE  Posted'
<1>1. \A i \in 1..Len(registration) : registration[i].transport \in Transports
  BY TmsgFacts, StructT, SMT
<1>2. Len(registration) \in Nat /\ Len(registration') = Len(registration) - 1
  BY StructT, SMT
<1>3. \A i \in 1..Len(registration') : i + 1 \in 2..Len(registration) /\ registration'[i] = registration[i + 1]
  BY <1>2, StructT, SMT
<1>6. ASSUME NEW i \in 1..Len(registration')
      PROVE  LET r == registration'[i] IN
               /\ alloc'[r.transport] = "live"
               /\ r.action = 1 => out'[r.transport] = "none"
               /\ r.action = 0 => closes'[r.transport] = 1
  <2> DEFINE r == registration[i + 1]
  <2>1. registration'[i] = r /\ i + 1 \in 2..Len(registration) /\ i + 1 \in 1..Len(registration)
    BY <1>2, <1>3, SMT
  <2>2. r.transport \in Transports
    BY <1>1, <2>1
  <2>3. alloc[r.transport] = "live" /\ (r.action = 1 => out[r.transport] = "none")
        /\ (r.action = 0 => closes[r.transport] = 1)
    BY <2>1, Zenon DEF Posted
  <2>4. CASE r.transport = Head(registration).transport
    BY <2>1, <2>3, <2>4, Zenon
  <2>5. CASE r.transport # Head(registration).transport
    BY <2>1, <2>2, <2>3, <2>5
  <2> QED
    BY <2>4, <2>5
<1>7. ASSUME NEW i \in 1..Len(registration'), NEW j \in 1..Len(registration'),
             registration'[i] = registration'[j]
      PROVE  i = j
  <2>1. i + 1 \in 1..Len(registration) /\ j + 1 \in 1..Len(registration)
        /\ registration[i + 1] = registration[j + 1]
    BY <1>2, <1>3, <1>7, SMT
  <2>2. i + 1 = j + 1
    BY <2>1 DEF Posted
  <2> QED
    BY <2>2, SMT
<1> QED
  BY <1>6, <1>7 DEF Posted

(* A thread that drops its reference: if it is the last one, t has not     *)
(* been closed before, so its removal has not been posted before.          *)
LEMMA PostedUnref ==
  ASSUME TypeOK, Posted, NEW t \in Transports, Life(t), transport_unref_locked(t),
         out[t] = "unref" \/ inp[t] = "unref", alloc' = alloc,
         \A u \in Transports : out[u] = "none" => out'[u] = "none"
  PROVE  Posted'
<1>1. closes[t] = 0 /\ alloc[t] = "live"
  BY StructT, RefT, SMT DEF Life
<1>2. CASE LastRef(t)
  <2>1. registration' = Append(registration, Msg(t, 0)) /\ closes' = [closes EXCEPT ![t] = @ + 1]
    BY <1>2, Zenon DEF transport_unref_locked, Msg
  <2>2. Msg(t, 0) \in Tmsg /\ Msg(t, 0).transport = t /\ Msg(t, 0).action = 0
    BY TmsgFacts, Zenon DEF Msg
  <2>3. \A i \in 1..Len(registration) : registration[i] # Msg(t, 0)
    BY <1>1, <2>2, SMT DEF Posted
  <2>4. closes'[t] = 1 /\ \A u \in Transports : closes[u] = 1 => closes'[u] = 1
    BY <1>1, <2>1, RefT, SMT
  <2> QED
    BY <1>1, <2>1, <2>2, <2>3, <2>4, PostedAppend, SMT
<1>3. CASE ~LastRef(t)
  <2>1. registration' = registration
    BY <1>3, Zenon DEF transport_unref_locked
  <2>2. closes' = closes
    BY <1>3, RefT DEF transport_unref_locked
  <2> QED
    BY <2>1, <2>2, PostedFrame
<1> QED
  BY <1>2, <1>3, Zenon

(* Every step keeps the registration socket right.                         *)
LEMMA PostedStep ==
  ASSUME TypeOK, Posted, \A t \in Transports : Life(t), [Next]_vars
  PROVE  Posted'
<1>1. ASSUME NEW t \in Transports, NEW s \in {"OFFLINE", "NOPERM"}, register_transport(t, s) PROVE Posted'
  <2>1. alloc[t] = "none" /\ out[t] = "none" /\ out' = out /\ closes' = closes
    BY <1>1 DEF register_transport, refVars, Life
  <2>2. registration' = Append(registration, Msg(t, 1)) /\ Msg(t, 1) \in Tmsg
    BY <1>1, TmsgFacts, Zenon DEF register_transport, Msg
  <2>3. Msg(t, 1).transport = t /\ Msg(t, 1).action = 1
    BY DEF Msg
  <2>4. \A i \in 1..Len(registration) : registration[i] # Msg(t, 1)
    BY <2>1, <2>3, Zenon DEF Posted
  <2>5. alloc'[t] = "live" /\ \A u \in Transports : alloc[u] = "live" => alloc'[u] = "live"
    BY <1>1, StructT DEF register_transport
  <2> QED
    BY <2>1, <2>2, <2>3, <2>4, <2>5, PostedAppend, SMT
<1>2. ASSUME NEW t \in Transports, output_start(t) PROVE Posted'
  <2>1. \A u \in Transports : out[u] = "none" => out'[u] = "none"
    BY <1>2, ThreadT DEF output_start
  <2> QED
    BY <1>2, <2>1, PostedFrame DEF output_start, structVars, refVars
<1>3. ASSUME NEW t \in Transports, output_read_failed(t) PROVE Posted'
  <2>1. \A u \in Transports : out[u] = "none" => out'[u] = "none"
    BY <1>3, ThreadT DEF output_read_failed
  <2> QED
    BY <1>3, <2>1, PostedFrame DEF output_read_failed, structVars, refVars
<1>4. ASSUME NEW t \in Transports, output_offline(t) PROVE Posted'
  <2>1. \A u \in Transports : out[u] = "none" => out'[u] = "none"
    BY <1>4, ThreadT DEF output_offline
  <2> QED
    BY <1>4, <2>1, PostedFrame DEF output_offline, structVars, refVars
<1>5. ASSUME NEW t \in Transports, output_kick(t) PROVE Posted'
  <2>1. \A u \in Transports : out[u] = "none" => out'[u] = "none"
    BY <1>5, ThreadT DEF output_kick
  <2> QED
    BY <1>5, <2>1, PostedFrame DEF output_kick, structVars, refVars
<1>6. ASSUME NEW t \in Transports, output_kicking(t) PROVE Posted'
  <2>1. \A u \in Transports : out[u] = "none" => out'[u] = "none"
    BY <1>6, ThreadT DEF output_kicking
  <2> QED
    BY <1>6, <2>1, PostedFrame DEF output_kicking, structVars, refVars
<1>7. ASSUME NEW t \in Transports, output_unref(t) PROVE Posted'
  <2>1. \A u \in Transports : out[u] = "none" => out'[u] = "none"
    BY <1>7, ThreadT, Zenon DEF output_unref
  <2> QED
    BY <1>7, <2>1, PostedUnref DEF output_unref
<1>8. ASSUME NEW t \in Transports, input_read(t) PROVE Posted'
  BY <1>8, PostedFrame DEF input_read, structVars, refVars
<1>9. ASSUME NEW t \in Transports, input_read_failed(t) PROVE Posted'
  BY <1>9, PostedFrame DEF input_read_failed, structVars, refVars
<1>10. ASSUME NEW t \in Transports, input_close_all(t) PROVE Posted'
  BY <1>10, PostedFrame DEF input_close_all, structVars, refVars
<1>11. ASSUME NEW t \in Transports, input_kick(t) PROVE Posted'
  BY <1>11, PostedFrame DEF input_kick, structVars, refVars
<1>12. ASSUME NEW t \in Transports, input_kicking(t) PROVE Posted'
  BY <1>12, PostedFrame DEF input_kicking, structVars, refVars
<1>13. ASSUME NEW t \in Transports, input_unref(t) PROVE Posted'
  <2>1. \A u \in Transports : out[u] = "none" => out'[u] = "none"
    BY <1>13, ThreadT DEF input_unref
  <2> QED
    BY <1>13, <2>1, PostedUnref DEF input_unref
<1>14. ASSUME NEW t \in Transports, packet_sync_online(t) PROVE Posted'
  BY <1>14, PostedFrame DEF packet_sync_online, structVars, refVars
<1>15. ASSUME NEW t \in Transports, packet_sync_offline(t) PROVE Posted'
  BY <1>15, PostedFrame DEF packet_sync_offline, structVars, refVars
<1>16. ASSUME NEW t \in Transports, packet_cnxn(t) PROVE Posted'
  BY <1>16, PostedFrame DEF packet_cnxn, structVars, refVars
<1>17. ASSUME NEW t \in Transports, Unplug(t) PROVE Posted'
  BY <1>17, PostedFrame DEF Unplug, structVars, refVars
<1>18. ASSUME NEW t \in Transports, unregister_usb_transport(t) PROVE Posted'
  BY <1>18, PostedFrame DEF unregister_usb_transport, structVars, refVars
<1>19. ASSUME NEW t \in Transports, NEW p \in FromDevice(t), output_read(t, p) PROVE Posted'
  <2>1. \A u \in Transports : out[u] = "none" => out'[u] = "none"
    BY <1>19, ThreadT DEF output_read
  <2> QED
    BY <1>19, <2>1, PostedFrame DEF output_read, structVars, refVars
<1>20. ASSUME NEW t \in Transports, NEW c \in Clients, packet_dropped(t, c) PROVE Posted'
  BY <1>20, PostedFrame DEF packet_dropped, structVars, refVars
<1>21. ASSUME NEW t \in Transports, NEW c \in Clients, packet_okay(t, c) PROVE Posted'
  BY <1>21, PostedFrame DEF packet_okay, structVars, refVars
<1>22. ASSUME NEW t \in Transports, NEW c \in Clients, NEW cmd \in {"CLSE", "WRTE"}, packet_closes(t, cmd, c) PROVE Posted'
  BY <1>22, PostedFrame DEF packet_closes, structVars, refVars
<1>23. ASSUME NEW t \in Transports, NEW c \in Clients, packet_wrte(t, c) PROVE Posted'
  BY <1>23, PostedFrame, Zenon DEF packet_wrte, structVars, refVars
<1>24. ASSUME NEW t \in Transports, NEW c \in Clients, client_transport(c, t) PROVE Posted'
  BY <1>24, PostedFrame, Zenon DEF client_transport, structVars, refVars
<1>25. ASSUME registration_add PROVE Posted'
  <2> DEFINE t == Head(registration).transport
  <2>1. Len(registration) \in Nat /\ Len(registration) >= 1 /\ Head(registration) = registration[1]
    BY <1>25, StructT, SMT DEF registration_add
  <2>2. t \in Transports /\ Head(registration) \in Tmsg /\ alloc[t] = "live"
    BY <1>25, HeadFacts DEF registration_add
  <2>3. \A i \in 2..Len(registration) : registration[i] # Head(registration)
    BY <2>1, SMT DEF Posted
  <2>3a. \A i \in 2..Len(registration) : registration[i] \in Tmsg
    BY <2>1, StructT, SMT
  <2>4. \A i \in 2..Len(registration) : registration[i].transport = t =>
           alloc[t] = "live" /\ registration[i].action # 1
    BY <1>25, <2>2, <2>3, <2>3a, TmsgFacts, Zenon DEF registration_add
  <2>5. alloc' = alloc /\ closes' = closes /\ registration' = Tail(registration) /\ registration # << >>
    BY <1>25, Zenon DEF registration_add
  <2>6. \A u \in Transports : u # t => out'[u] = out[u]
    BY <1>25, <2>2, ThreadT, Zenon DEF registration_add
  <2> QED
    BY <2>2, <2>4, <2>5, <2>6, PostedTail, Zenon
<1>26. ASSUME registration_remove PROVE Posted'
  <2> DEFINE t == Head(registration).transport
  <2>1. Len(registration) \in Nat /\ Len(registration) >= 1 /\ Head(registration) = registration[1]
    BY <1>26, StructT, SMT DEF registration_remove
  <2>2. t \in Transports /\ Head(registration) \in Tmsg /\ alloc[t] = "live" /\ closes[t] = 1
    BY <1>26, HeadFacts, Zenon DEF registration_remove
  <2>3. \A i \in 2..Len(registration) : registration[i] # Head(registration)
    BY <2>1, SMT DEF Posted
  <2>4. out[t] # "none"
    BY <2>2, SMT DEF Life
  <2>5. \A i \in 2..Len(registration) : i \in 1..Len(registration) /\ registration[i] \in Tmsg
    BY <2>1, StructT, SMT
  <2>6. \A i \in 2..Len(registration) : registration[i].transport # t
    BY <1>26, <2>2, <2>3, <2>4, <2>5, TmsgFacts, SMT DEF registration_remove, Posted
  <2>7. out' = out /\ closes' = closes /\ registration' = Tail(registration) /\ registration # << >>
    BY <1>26, Zenon DEF registration_remove, refVars
  <2>8. \A u \in Transports : u # t => alloc'[u] = alloc[u]
    BY <1>26, <2>2, StructT, Zenon DEF registration_remove
  <2> QED
    BY <2>6, <2>7, <2>8, PostedTail, Zenon
<1>27. ASSUME NEW c \in Clients, client_request(c) PROVE Posted'
  BY <1>27, PostedFrame, Zenon DEF client_request, structVars, refVars
<1>28. ASSUME NEW c \in Clients, client_hangup(c) PROVE Posted'
  BY <1>28, PostedFrame DEF client_hangup, structVars, refVars
<1>29. CASE UNCHANGED vars
  BY <1>29, PostedFrame, Zenon DEF vars, structVars, refVars
<1>30. ASSUME NEW t \in Transports, NEW c \in Clients, packet_open(t, c) PROVE Posted'
  BY <1>30, PostedFrame DEF packet_open, structVars, refVars
<1> QED
  BY <1>1, <1>2, <1>3, <1>4, <1>5, <1>6, <1>7, <1>8, <1>9, <1>10, <1>11, <1>12, <1>13, <1>14, <1>15, <1>16, <1>17, <1>18, <1>19, <1>20, <1>21, <1>22, <1>23, <1>24, <1>25, <1>26, <1>27, <1>28, <1>29, <1>30, Zenon
  DEF Next, Receives, OutputThread, InputThread, handle_packet, packet_clse, packet_wrte_failed, transport_registration_func

(* Kick: t->kicked is set by the one thread that then calls t->kick.       *)
LEMMA KickFrame ==
  ASSUME NEW u, Kick(u), UNCHANGED <<kicks, kicked>>, out'[u] = out[u], inp'[u] = inp[u]
  PROVE  Kick(u)'
  BY Zenon DEF Kick

(* Every step keeps a transport kicked once.                               *)
LEMMA KickStep ==
  ASSUME TypeOK, Posted, \A t \in Transports : Life(t) /\ Kick(t), [Next]_vars, NEW u \in Transports
  PROVE  Kick(u)'
<1>0. Kick(u)
  OBVIOUS
<1>1. ASSUME NEW t \in Transports, NEW s \in {"OFFLINE", "NOPERM"}, register_transport(t, s) PROVE Kick(u)'
  BY <1>0, <1>1, KickFrame, Zenon DEF register_transport, refVars
<1>2. ASSUME NEW t \in Transports, output_start(t) PROVE Kick(u)'
  <2>1. CASE u = t
    BY <1>0, <1>2, <2>1, ThreadT, RefT, Zenon DEF output_start, refVars, Kick
  <2>2. CASE u # t
    BY <1>0, <1>2, <2>2, ThreadT, KickFrame, Zenon DEF output_start, refVars
  <2> QED
    BY <2>1, <2>2, Zenon
<1>3. ASSUME NEW t \in Transports, output_read_failed(t) PROVE Kick(u)'
  <2>1. CASE u = t
    BY <1>0, <1>3, <2>1, ThreadT, RefT, Zenon DEF output_read_failed, refVars, Kick
  <2>2. CASE u # t
    BY <1>0, <1>3, <2>2, ThreadT, KickFrame, Zenon DEF output_read_failed, refVars
  <2> QED
    BY <2>1, <2>2
<1>4. ASSUME NEW t \in Transports, output_offline(t) PROVE Kick(u)'
  <2>1. CASE u = t
    BY <1>0, <1>4, <2>1, ThreadT, RefT, Zenon DEF output_offline, refVars, Kick
  <2>2. CASE u # t
    BY <1>0, <1>4, <2>2, ThreadT, KickFrame, Zenon DEF output_offline, refVars
  <2> QED
    BY <2>1, <2>2
<1>5. ASSUME NEW t \in Transports, output_kick(t) PROVE Kick(u)'
  <2>1. CASE u = t
    BY <1>0, <1>5, <2>1, ThreadT, RefT, Zenon DEF output_kick, FirstKick, refVars, Kick
  <2>2. CASE u # t
    BY <1>0, <1>5, <2>2, ThreadT, RefT, Zenon DEF output_kick, FirstKick, refVars, Kick
  <2> QED
    BY <2>1, <2>2
<1>6. ASSUME NEW t \in Transports, output_kicking(t) PROVE Kick(u)'
  <2>1. CASE u = t
    BY <1>0, <1>6, <2>1, ThreadT, RefT, SMT DEF output_kicking, kick, refVars, Kick
  <2>2. CASE u # t
    BY <1>0, <1>6, <2>2, ThreadT, RefT, Zenon DEF output_kicking, kick, refVars, Kick
  <2> QED
    BY <2>1, <2>2
<1>7. ASSUME NEW t \in Transports, output_unref(t) PROVE Kick(u)'
  <2>1. CASE u = t
    BY <1>0, <1>7, <2>1, ThreadT, RefT, Zenon DEF output_unref, transport_unref_locked, refVars, Kick
  <2>2. CASE u # t
    BY <1>0, <1>7, <2>2, ThreadT, RefT, Zenon DEF output_unref, transport_unref_locked, refVars, Kick
  <2> QED
    BY <2>1, <2>2
<1>8. ASSUME NEW t \in Transports, input_read(t) PROVE Kick(u)'
  <2>1. CASE u = t
    BY <1>0, <1>8, <2>1, ThreadT, RefT, Zenon DEF input_read, refVars, Kick
  <2>2. CASE u # t
    BY <1>0, <1>8, <2>2, ThreadT, KickFrame, Zenon DEF input_read, refVars
  <2> QED
    BY <2>1, <2>2
<1>9. ASSUME NEW t \in Transports, input_read_failed(t) PROVE Kick(u)'
  <2>1. CASE u = t
    BY <1>0, <1>9, <2>1, ThreadT, RefT DEF input_read_failed, refVars, Kick
  <2>2. CASE u # t
    BY <1>0, <1>9, <2>2, ThreadT, KickFrame, Zenon DEF input_read_failed, refVars
  <2> QED
    BY <2>1, <2>2
<1>10. ASSUME NEW t \in Transports, input_close_all(t) PROVE Kick(u)'
  <2>1. CASE u = t
    BY <1>0, <1>10, <2>1, ThreadT, RefT, Zenon DEF input_close_all, refVars, Kick
  <2>2. CASE u # t
    BY <1>0, <1>10, <2>2, ThreadT, KickFrame, Zenon DEF input_close_all, refVars
  <2> QED
    BY <2>1, <2>2
<1>11. ASSUME NEW t \in Transports, input_kick(t) PROVE Kick(u)'
  <2>1. CASE u = t
    BY <1>0, <1>11, <2>1, ThreadT, RefT, Zenon DEF input_kick, FirstKick, refVars, Kick
  <2>2. CASE u # t
    BY <1>0, <1>11, <2>2, ThreadT, RefT, Zenon DEF input_kick, FirstKick, refVars, Kick
  <2> QED
    BY <2>1, <2>2
<1>12. ASSUME NEW t \in Transports, input_kicking(t) PROVE Kick(u)'
  <2>1. CASE u = t
    BY <1>0, <1>12, <2>1, ThreadT, RefT, SMT DEF input_kicking, kick, refVars, Kick
  <2>2. CASE u # t
    BY <1>0, <1>12, <2>2, ThreadT, RefT, Zenon DEF input_kicking, kick, refVars, Kick
  <2> QED
    BY <2>1, <2>2
<1>13. ASSUME NEW t \in Transports, input_unref(t) PROVE Kick(u)'
  <2>1. CASE u = t
    BY <1>0, <1>13, <2>1, ThreadT, RefT, Zenon DEF input_unref, transport_unref_locked, refVars, Kick
  <2>2. CASE u # t
    BY <1>0, <1>13, <2>2, ThreadT, RefT DEF input_unref, transport_unref_locked, refVars, Kick
  <2> QED
    BY <2>1, <2>2
<1>14. ASSUME NEW t \in Transports, packet_sync_online(t) PROVE Kick(u)'
  BY <1>0, <1>14, KickFrame, Zenon DEF packet_sync_online, refVars
<1>15. ASSUME NEW t \in Transports, packet_sync_offline(t) PROVE Kick(u)'
  BY <1>0, <1>15, KickFrame, Zenon DEF packet_sync_offline, refVars
<1>16. ASSUME NEW t \in Transports, packet_cnxn(t) PROVE Kick(u)'
  BY <1>0, <1>16, KickFrame, Zenon DEF packet_cnxn, refVars
<1>17. ASSUME NEW t \in Transports, Unplug(t) PROVE Kick(u)'
  BY <1>0, <1>17, KickFrame, Zenon DEF Unplug, refVars
<1>18. ASSUME NEW t \in Transports, unregister_usb_transport(t) PROVE Kick(u)'
  BY <1>0, <1>18, KickFrame DEF unregister_usb_transport, refVars
<1>19. ASSUME NEW t \in Transports, NEW p \in FromDevice(t), output_read(t, p) PROVE Kick(u)'
  <2>1. CASE u = t
    BY <1>0, <1>19, <2>1, ThreadT, RefT, Zenon DEF output_read, refVars, Kick
  <2>2. CASE u # t
    BY <1>0, <1>19, <2>2, ThreadT, KickFrame, Zenon DEF output_read, refVars
  <2> QED
    BY <2>1, <2>2, Zenon
<1>20. ASSUME NEW t \in Transports, NEW c \in Clients, packet_dropped(t, c) PROVE Kick(u)'
  BY <1>0, <1>20, KickFrame DEF packet_dropped, refVars
<1>21. ASSUME NEW t \in Transports, NEW c \in Clients, packet_okay(t, c) PROVE Kick(u)'
  BY <1>0, <1>21, KickFrame, Zenon DEF packet_okay, refVars
<1>22. ASSUME NEW t \in Transports, NEW c \in Clients, NEW cmd \in {"CLSE", "WRTE"}, packet_closes(t, cmd, c) PROVE Kick(u)'
  BY <1>0, <1>22, KickFrame, Zenon DEF packet_closes, refVars
<1>23. ASSUME NEW t \in Transports, NEW c \in Clients, packet_wrte(t, c) PROVE Kick(u)'
  BY <1>0, <1>23, KickFrame, Zenon DEF packet_wrte, refVars
<1>24. ASSUME NEW t \in Transports, NEW c \in Clients, client_transport(c, t) PROVE Kick(u)'
  BY <1>0, <1>24, KickFrame DEF client_transport, refVars
<1>25. ASSUME registration_add PROVE Kick(u)'
  <2> DEFINE t == Head(registration).transport
  <2>1. t \in Transports /\ out[t] = "none" /\ inp[t] = "none"
    BY <1>25, HeadFacts DEF registration_add, Life
  <2>2. CASE u = t
    BY <1>0, <1>25, <2>1, <2>2, ThreadT, RefT, Zenon DEF registration_add, Kick
  <2>3. CASE u # t
    BY <1>0, <1>25, <2>1, <2>3, ThreadT, KickFrame, Zenon DEF registration_add
  <2> QED
    BY <2>2, <2>3, Zenon
<1>26. ASSUME registration_remove PROVE Kick(u)'
  BY <1>0, <1>26, KickFrame, Zenon DEF registration_remove, refVars
<1>27. ASSUME NEW c \in Clients, client_request(c) PROVE Kick(u)'
  BY <1>0, <1>27, KickFrame, Zenon DEF client_request, refVars
<1>28. ASSUME NEW c \in Clients, client_hangup(c) PROVE Kick(u)'
  BY <1>0, <1>28, KickFrame, Zenon DEF client_hangup, refVars
<1>29. CASE UNCHANGED vars
  BY <1>0, <1>29, KickFrame, Zenon DEF vars, refVars
<1>30. ASSUME NEW t \in Transports, NEW c \in Clients, packet_open(t, c) PROVE Kick(u)'
  BY <1>0, <1>30, KickFrame DEF packet_open, refVars
<1> QED
  BY <1>1, <1>2, <1>3, <1>4, <1>5, <1>6, <1>7, <1>8, <1>9, <1>10, <1>11, <1>12, <1>13, <1>14, <1>15, <1>16, <1>17, <1>18, <1>19, <1>20, <1>21, <1>22, <1>23, <1>24, <1>25, <1>26, <1>27, <1>28, <1>29, <1>30
  DEF Next, Receives, OutputThread, InputThread, handle_packet, packet_clse, packet_wrte_failed, transport_registration_func

---------------------------------------------------------------------------
(***************************************************************************)
(* Queue is kept: where SYNC(0,0) is.                                      *)
(***************************************************************************)

(* A queue without packets.                                                *)
LEMMA NoPackets ==
  ASSUME NEW q \in Seq(Packet), Len(q) = 0
  PROVE  q = << >>
  BY SMT

(* SYNC(0,0) in a queue after a write,                                     *)
LEMMA QueueAppend ==
  ASSUME NEW q \in Seq(Packet), NEW p \in Packet
  PROVE  /\ Has(Append(q, p)) => Has(q) \/ p = Offline
         /\ ~Has(q) => OnlyLast(Append(q, p))
<1> DEFINE r == Append(q, p)
<1>1. Len(q) \in Nat /\ Len(r) = Len(q) + 1 /\ r[Len(q) + 1] = p
  BY SMT
<1>2. \A i \in 1..Len(q) : r[i] = q[i]
  BY SMT
<1>3. \A i \in 1..Len(r) : i \in 1..Len(q) \/ i = Len(q) + 1
  BY <1>1, SMT
<1> HIDE DEF r
<1> QED
  BY <1>1, <1>2, <1>3, SMT DEF Has, OnlyLast

(* after a read,                                                           *)
LEMMA QueueTail ==
  ASSUME NEW q \in Seq(Packet), q # << >>
  PROVE  /\ Has(Tail(q)) => Has(q)
         /\ OnlyLast(q) => OnlyLast(Tail(q))
         /\ Head(q) = Offline => Has(q) /\ (OnlyLast(q) => Tail(q) = << >>)
<1>1. Len(q) \in Nat /\ Len(q) >= 1 /\ Len(Tail(q)) = Len(q) - 1 /\ Head(q) = q[1]
  BY SMT
<1>2. \A i \in 1..Len(Tail(q)) : i + 1 \in 1..Len(q) /\ Tail(q)[i] = q[i + 1]
  BY <1>1, SMT
<1>3. Has(Tail(q)) => Has(q)
  BY <1>2 DEF Has
<1>4. ASSUME OnlyLast(q), NEW i \in 1..Len(Tail(q)), Tail(q)[i] = Offline PROVE i = Len(Tail(q))
  <2>1. i + 1 \in 1..Len(q) /\ q[i + 1] = Offline
    BY <1>2, <1>4
  <2>2. i + 1 = Len(q)
    BY <1>4, <2>1 DEF OnlyLast
  <2> QED
    BY <1>4, <2>2, SMT
<1>5. ASSUME Head(q) = Offline PROVE Has(q) /\ (OnlyLast(q) => Tail(q) = << >>)
  <2>1. Has(q)
    BY <1>1, <1>5, SMT DEF Has
  <2>2. q[1] = Offline /\ 1 \in 1..Len(q)
    BY <1>1, <1>5, SMT
  <2>2a. OnlyLast(q) => 1 = Len(q)
    BY <2>2, Zenon DEF OnlyLast
  <2>3. 1 = Len(q) => Len(Tail(q)) = 0
    BY SMT
  <2>4. Tail(q) \in Seq(Packet)
    BY SMT
  <2> QED
    BY <2>1, <2>2a, <2>3, <2>4, NoPackets, Zenon
<1>6. OnlyLast(q) => OnlyLast(Tail(q))
  BY <1>4 DEF OnlyLast
<1> QED
  BY <1>3, <1>5, <1>6

(* after several writes,                                                   *)
LEMMA QueueConcat ==
  ASSUME NEW q \in Seq(Packet), NEW ps \in Seq(Packet), Has(q \o ps)
  PROVE  Has(q) \/ Has(ps)
<1>1. PICK i \in 1..Len(q \o ps) : (q \o ps)[i] = Offline
  BY DEF Has
<1>2. Len(q) \in Nat /\ Len(ps) \in Nat /\ Len(q \o ps) = Len(q) + Len(ps)
  BY SMT
<1>3. CASE i \in 1..Len(q)
  <2>1. (q \o ps)[i] = q[i]
    BY <1>3, SMT
  <2> QED
    BY <1>1, <1>3, <2>1 DEF Has
<1>4. CASE i \notin 1..Len(q)
  <2>1. i - Len(q) \in 1..Len(ps) /\ (q \o ps)[i] = ps[i - Len(q)]
    BY <1>2, <1>4, SMT
  <2> QED
    BY <1>1, <2>1 DEF Has
<1> QED
  BY <1>3, <1>4

(* and the packets that are not SYNC(0,0).                                 *)
LEMMA HasShort ==
  /\ ~Has(<< >>)
  /\ \A p \in Packet : p # Offline => ~Has(<<p>>) /\ ~Has(<<p, Cnxn>>)
  /\ Cnxn # Offline
  /\ \A n \in Nat : n > 0 => Sync(n) # Offline
  /\ \A c \in Clients : \A cmd \in {"OPEN", "OKAY", "CLSE", "WRTE"} : Pkt(cmd, c) # Offline
<1>1. Cnxn # Offline
  BY DEF Cnxn, Offline, Sync
<1>2. \A n \in Nat : n > 0 => Sync(n) # Offline
  BY SMT DEF Offline, Sync
<1>3. \A c \in Clients : \A cmd \in {"OPEN", "OKAY", "CLSE", "WRTE"} : Pkt(cmd, c) # Offline
  BY DEF Offline, Sync, Pkt
<1>4. ~Has(<< >>)
  BY SMT DEF Has
<1>5. \A p \in Packet : p # Offline => ~Has(<<p>>) /\ ~Has(<<p, Cnxn>>)
  BY <1>1, SMT DEF Has
<1> QED
  BY <1>1, <1>2, <1>3, <1>4, <1>5

(* What a handler sends, other than SYNC(0,0) itself.                      *)
LEMMA Replies ==
  ASSUME NEW c \in Clients, NEW cmd \in {"OPEN", "OKAY", "CLSE"},
         NEW ps \in {<< >>, <<Pkt(cmd, c)>>}
  PROVE  ps \in Seq(Packet) /\ ~Has(ps)
<1>1. Pkt(cmd, c) \in Packet /\ Pkt(cmd, c) # Offline
  BY PacketFacts, HasShort
<1>2. ~Has(ps)
  BY <1>1, HasShort, Zenon
<1>3. << >> \in Seq(Packet) /\ <<Pkt(cmd, c)>> \in Seq(Packet)
  BY <1>1, SMT
<1> QED
  BY <1>2, <1>3, Zenon

(* send_packet of other packets puts no SYNC(0,0) in a queue.              *)
LEMMA SendQueue ==
  ASSUME TypeOK, NEW t, NEW ps \in Seq(Packet), send_packet(t, ps), ~Has(ps), NEW u \in Transports
  PROVE  Has(toThread'[u]) => Has(toThread[u])
<1>1. CASE u = t
  <2>1. toThread'[u] = toThread[u] \o ps
    BY <1>1, PipeT DEF send_packet
  <2> QED
    BY <2>1, PipeT, QueueConcat
<1>2. CASE u # t
  BY <1>2, SMT DEF send_packet
<1> QED
  BY <1>1, <1>2

(* A transport that is not drained, and one that stays as it is.           *)
LEMMA QueueBusy ==
  ASSUME NEW u, Queue(u), ~Drained(u), OnlyLast(toMain'[u]), Has(toMain'[u]) => out'[u] \in Past,
         Has(toThread'[u]) => Has(toThread[u]), inp'[u] \in {"none", "read"}
  PROVE  Queue(u)'
  BY DEF Queue

(* What keeps SYNC(0,0) the last of a transport's packets.                 *)
LEMMA QueueFrame ==
  ASSUME NEW u, Queue(u), toMain'[u] = toMain[u], out[u] \in Past => out'[u] \in Past,
         connection_state'[u] = connection_state[u],
         Has(toThread'[u]) => Has(toThread[u]),
         inp'[u] \notin {"none", "read"} => Drained(u)
  PROVE  Queue(u)'
<1>1. Drained(u) => Drained(u)'
  BY DEF Drained
<1> QED
  BY <1>1 DEF Queue

(* The main loop reads a packet of t.                                      *)
LEMMA QueueReads ==
  ASSUME TypeOK, NEW t \in Transports, NEW p, Reads(t, p), Queue(t)
  PROVE  /\ ~Drained(t) /\ inp[t] \in {"none", "read"} /\ ~Has(toThread[t])
         /\ OnlyLast(toMain'[t])
         /\ Has(toMain'[t]) => out[t] \in Past
         /\ p = Offline => out[t] \in Past /\ toMain'[t] = << >>
         /\ \A u \in Transports : u # t => toMain'[u] = toMain[u]
<1>1. toMain[t] \in Seq(Packet) /\ toMain[t] # << >> /\ Head(toMain[t]) = p
      /\ toMain'[t] = Tail(toMain[t])
  BY PipeT DEF Reads
<1>2. ~Drained(t) /\ inp[t] \in {"none", "read"} /\ ~Has(toThread[t])
  BY <1>1 DEF Queue, Drained
<1>3. \A u \in Transports : u # t => toMain'[u] = toMain[u]
  BY PipeT, Zenon DEF Reads
<1> QED
  BY <1>1, <1>2, <1>3, QueueTail, SMT DEF Queue

(* Every step keeps SYNC(0,0) the last of a transport's packets.           *)
LEMMA QueueStep ==
  ASSUME TypeOK, Posted, \A t \in Transports : Life(t) /\ Queue(t), [Next]_vars, NEW u \in Transports
  PROVE  Queue(u)'
<1>0. Queue(u)
  OBVIOUS
<1>1. ASSUME NEW t \in Transports, NEW s \in {"OFFLINE", "NOPERM"}, register_transport(t, s) PROVE Queue(u)'
  <2>1. CASE u = t
    <3>1. out[t] = "none" /\ inp[t] = "none" /\ UNCHANGED <<toMain, toThread, out, inp>>
      BY <1>1 DEF register_transport, Life, pipeVars
    <3>2. ~Drained(t)
      BY <3>1, Zenon DEF Drained, Past
    <3> QED
      BY <2>1, <3>1, <3>2, <1>0, QueueBusy DEF Queue
  <2>2. CASE u # t
    BY <1>0, <1>1, <2>2, QueueFrame, ThreadT, PipeT, StateT, Zenon DEF register_transport, pipeVars, Queue
  <2> QED
    BY <2>1, <2>2, Zenon
<1>2. ASSUME NEW t \in Transports, output_start(t) PROVE Queue(u)'
  <2>1. CASE u = t
    <3>1. ~Drained(t) /\ ~Has(toMain[t]) /\ inp[t] \in {"none", "read"}
      BY <1>0, <1>2, <2>1, Zenon DEF output_start, Queue, Drained, Past
    <3>2. OnlyLast(toMain[t]) /\ toMain[t] \in Seq(Packet)
      BY <1>0, <2>1, PipeT DEF Queue
    <3>a. sync_token[t] \in Nat
      BY <1>2, DevT
    <3>3. Sync(sync_token[t] + 1) \in Packet /\ Sync(sync_token[t] + 1) # Offline
      BY <3>a, PacketFacts, HasShort, SMT
    <3>4. toMain'[t] = toMain[t] \/ toMain'[t] = Append(toMain[t], Sync(sync_token[t] + 1))
      BY <1>2, PipeT, DevT DEF output_start
    <3>5. OnlyLast(toMain'[t])
      BY <3>1, <3>2, <3>3, <3>4, QueueAppend, Zenon
    <3>6. Has(toMain'[t]) => out'[t] \in Past
      BY <3>1, <3>2, <3>3, <3>4, QueueAppend, Zenon
    <3>7. UNCHANGED <<toThread, inp>>
      BY <1>2 DEF output_start
    <3> QED
      BY <1>0, <2>1, <3>1, <3>5, <3>6, <3>7, QueueBusy
  <2>2. CASE u # t
    <3>1. toMain'[u] = toMain[u] /\ out'[u] = out[u] /\ UNCHANGED <<toThread, inp, connection_state>>
      BY <1>2, <2>2, ThreadT, PipeT, StateT, Zenon DEF output_start
    <3> QED
      BY <1>0, <3>1, QueueFrame DEF Queue
  <2> QED
    BY <2>1, <2>2
<1>3. ASSUME NEW t \in Transports, output_read_failed(t) PROVE Queue(u)'
  <2>1. UNCHANGED <<toMain, toThread, connection_state>>
    BY <1>3 DEF output_read_failed, pipeVars
  <2>2. (out[u] \in Past => out'[u] \in Past) /\ (inp'[u] \notin {"none", "read"} => inp[u] \notin {"none", "read"})
    BY <1>3, ThreadT, Zenon DEF output_read_failed, Past
  <2> QED
    BY <1>0, <2>1, <2>2, QueueFrame DEF Queue
<1>4. ASSUME NEW t \in Transports, output_offline(t) PROVE Queue(u)'
  <2>1. CASE u = t
    <3>1. ~Drained(t) /\ ~Has(toMain[t]) /\ inp[t] \in {"none", "read"}
      BY <1>0, <1>4, <2>1 DEF output_offline, Queue, Drained, Past
    <3>2. OnlyLast(toMain[t]) /\ toMain[t] \in Seq(Packet)
      BY <1>0, <2>1, PipeT DEF Queue
    <3>3. Offline \in Packet /\ out'[t] \in Past
      BY <1>4, PacketFacts, ThreadT DEF output_offline, Past
    <3>4. toMain'[t] = toMain[t] \/ toMain'[t] = Append(toMain[t], Offline)
      BY <1>4, PipeT DEF output_offline
    <3>5. OnlyLast(toMain'[t])
      BY <3>1, <3>2, <3>3, <3>4, QueueAppend, Zenon
    <3>6. Has(toMain'[t]) => out'[t] \in Past
      BY <3>1, <3>2, <3>3, <3>4, QueueAppend, Zenon
    <3>7. UNCHANGED <<toThread, inp>>
      BY <1>4 DEF output_offline
    <3> QED
      BY <1>0, <2>1, <3>1, <3>5, <3>6, <3>7, QueueBusy
  <2>2. CASE u # t
    <3>1. toMain'[u] = toMain[u] /\ out'[u] = out[u] /\ UNCHANGED <<toThread, inp, connection_state>>
      BY <1>4, <2>2, ThreadT, PipeT, StateT DEF output_offline
    <3> QED
      BY <1>0, <3>1, QueueFrame DEF Queue
  <2> QED
    BY <2>1, <2>2
<1>5. ASSUME NEW t \in Transports, output_kick(t) PROVE Queue(u)'
  <2>1. UNCHANGED <<toMain, toThread, connection_state>>
    BY <1>5 DEF output_kick, pipeVars
  <2>2. (out[u] \in Past => out'[u] \in Past) /\ (inp'[u] \notin {"none", "read"} => inp[u] \notin {"none", "read"})
    BY <1>5, ThreadT DEF output_kick, Past
  <2> QED
    BY <1>0, <2>1, <2>2, QueueFrame DEF Queue
<1>6. ASSUME NEW t \in Transports, output_kicking(t) PROVE Queue(u)'
  <2>1. UNCHANGED <<toMain, toThread, connection_state>>
    BY <1>6 DEF output_kicking, pipeVars
  <2>2. (out[u] \in Past => out'[u] \in Past) /\ (inp'[u] \notin {"none", "read"} => inp[u] \notin {"none", "read"})
    BY <1>6, ThreadT DEF output_kicking, Past
  <2> QED
    BY <1>0, <2>1, <2>2, QueueFrame DEF Queue
<1>7. ASSUME NEW t \in Transports, output_unref(t) PROVE Queue(u)'
  <2>1. UNCHANGED <<toMain, toThread, connection_state>>
    BY <1>7 DEF output_unref, pipeVars
  <2>2. (out[u] \in Past => out'[u] \in Past) /\ (inp'[u] \notin {"none", "read"} => inp[u] \notin {"none", "read"})
    BY <1>7, ThreadT, Zenon DEF output_unref, Past
  <2> QED
    BY <1>0, <2>1, <2>2, QueueFrame DEF Queue
<1>8. ASSUME NEW t \in Transports, input_read(t) PROVE Queue(u)'
  <2>1. UNCHANGED <<toMain, out, connection_state>>
    BY <1>8, Zenon DEF input_read
  <2>2. CASE u = t
    <3>1. toThread[t] \in Seq(Packet) /\ toThread[t] # << >> /\ toThread'[t] = Tail(toThread[t])
      BY <1>8, PipeT, Zenon DEF input_read
    <3>2. inp'[t] \notin {"none", "read"} => Head(toThread[t]) = Offline
      BY <1>8, ThreadT, PipeT, Zenon DEF input_read
    <3>3. inp'[t] \notin {"none", "read"} => Drained(t)
      BY <1>0, <2>2, <3>1, <3>2, QueueTail DEF Queue
    <3> QED
      BY <1>0, <2>1, <2>2, <3>1, <3>3, QueueTail, QueueFrame, Zenon
  <2>3. CASE u # t
    BY <1>0, <1>8, <2>1, <2>3, QueueFrame, ThreadT, PipeT, StateT, Zenon DEF input_read, Queue
  <2> QED
    BY <2>2, <2>3
<1>9. ASSUME NEW t \in Transports, input_read_failed(t) PROVE Queue(u)'
  <2>0. Life(t)
    BY Zenon
  <2>1. t \in sockOpen /\ fdCloses[t] = 0
    BY <1>9, <2>0, ThreadT, RefT, SockT, SMT DEF input_read_failed, Life
  <2> QED
    BY <1>9, <2>1, SMT DEF input_read_failed
<1>10. ASSUME NEW t \in Transports, input_close_all(t) PROVE Queue(u)'
  <2>1. UNCHANGED <<toMain, toThread, connection_state>>
    BY <1>10 DEF input_close_all, pipeVars
  <2>2. (out[u] \in Past => out'[u] \in Past) /\ (inp'[u] \notin {"none", "read"} => inp[u] \notin {"none", "read"})
    BY <1>10, ThreadT, Zenon DEF input_close_all, Past
  <2> QED
    BY <1>0, <2>1, <2>2, QueueFrame DEF Queue
<1>11. ASSUME NEW t \in Transports, input_kick(t) PROVE Queue(u)'
  <2>1. UNCHANGED <<toMain, toThread, connection_state>>
    BY <1>11 DEF input_kick, pipeVars
  <2>2. (out[u] \in Past => out'[u] \in Past) /\ (inp'[u] \notin {"none", "read"} => inp[u] \notin {"none", "read"})
    BY <1>11, ThreadT DEF input_kick, Past
  <2> QED
    BY <1>0, <2>1, <2>2, QueueFrame DEF Queue
<1>12. ASSUME NEW t \in Transports, input_kicking(t) PROVE Queue(u)'
  <2>1. UNCHANGED <<toMain, toThread, connection_state>>
    BY <1>12 DEF input_kicking, pipeVars
  <2>2. (out[u] \in Past => out'[u] \in Past) /\ (inp'[u] \notin {"none", "read"} => inp[u] \notin {"none", "read"})
    BY <1>12, ThreadT DEF input_kicking, Past
  <2> QED
    BY <1>0, <2>1, <2>2, QueueFrame DEF Queue
<1>13. ASSUME NEW t \in Transports, input_unref(t) PROVE Queue(u)'
  <2>1. UNCHANGED <<toMain, toThread, connection_state>>
    BY <1>13 DEF input_unref, pipeVars
  <2>2. (out[u] \in Past => out'[u] \in Past) /\ (inp'[u] \notin {"none", "read"} => inp[u] \notin {"none", "read"})
    BY <1>13, ThreadT DEF input_unref, Past
  <2> QED
    BY <1>0, <2>1, <2>2, QueueFrame DEF Queue
<1>14. ASSUME NEW t \in Transports, packet_sync_online(t) PROVE Queue(u)'
  <2> DEFINE p == Head(toMain[t])
  <2>1. Reads(t, p)
    BY <1>14, Zenon DEF packet_sync_online
  <2> HIDE DEF p
  <2>2. UNCHANGED <<out, inp>>
    BY <1>14, Zenon DEF packet_sync_online
  <2>3. p \in Packet /\ p # Offline /\ send_packet(t, <<p, Cnxn>>)
    BY <1>14, <2>1, ReadsType DEF packet_sync_online, p
  <2>3a. <<p, Cnxn>> \in Seq(Packet)
    BY <2>3, PacketFacts, SMT
  <2>4. ~Has(<<p, Cnxn>>)
    BY <2>3, HasShort, Zenon
  <2>5. Has(toThread'[u]) => Has(toThread[u])
    BY <2>3, <2>3a, <2>4, SendQueue, Zenon
  <2>6. CASE u = t
    BY <1>0, <2>1, <2>2, <2>5, <2>6, QueueReads, QueueBusy
  <2>7. CASE u # t
    <3>1. connection_state'[u] = connection_state[u]
      BY <1>14, <2>7 DEF packet_sync_online
    <3> QED
      BY <1>0, <2>1, <2>2, <2>5, <2>7, <3>1, QueueReads, QueueFrame, Zenon DEF Queue
  <2> QED
    BY <2>6, <2>7
<1>15. ASSUME NEW t \in Transports, packet_sync_offline(t) PROVE Queue(u)'
  <2> DEFINE p == Offline
  <2>1. Reads(t, p)
    BY <1>15 DEF packet_sync_offline
  <2> HIDE DEF p
  <2>2. UNCHANGED <<out, inp>>
    BY <1>15, Zenon DEF packet_sync_offline
  <2>3. CASE u = t
    <3>1. out[t] \in Past /\ toMain'[t] = << >> /\ OnlyLast(toMain'[t]) /\ ~Has(toMain'[t])
      BY <1>0, <2>1, <2>3, QueueReads, HasShort, Zenon DEF p
    <3>2. connection_state'[t] = "OFFLINE"
      BY <1>15, StateT DEF packet_sync_offline
    <3> QED
      BY <2>2, <2>3, <3>1, <3>2, Zenon DEF Queue, Drained
  <2>4. CASE u # t
    <3>1. toMain'[u] = toMain[u] /\ connection_state'[u] = connection_state[u] /\ toThread'[u] = toThread[u]
      BY <1>15, <2>4, PipeT, StateT, Zenon DEF packet_sync_offline, Reads, send_packet
    <3> QED
      BY <1>0, <2>2, <3>1, QueueFrame, Zenon DEF Queue
  <2> QED
    BY <2>3, <2>4
<1>16. ASSUME NEW t \in Transports, packet_cnxn(t) PROVE Queue(u)'
  <2> DEFINE p == Cnxn
  <2>1. Reads(t, p)
    BY <1>16 DEF packet_cnxn
  <2> HIDE DEF p
  <2>2. UNCHANGED <<out, inp>>
    BY <1>16, Zenon DEF packet_cnxn
  <2>5. toThread' = toThread
    BY <1>16, Zenon DEF packet_cnxn
  <2>6. CASE u = t
    BY <1>0, <2>1, <2>2, <2>5, <2>6, QueueReads, QueueBusy
  <2>7. CASE u # t
    <3>1. connection_state'[u] = connection_state[u]
      BY <1>16, <2>7, StateT DEF packet_cnxn
    <3> QED
      BY <1>0, <2>1, <2>2, <2>5, <2>7, <3>1, QueueReads, QueueFrame, Zenon DEF Queue
  <2> QED
    BY <2>6, <2>7
<1>17. ASSUME NEW t \in Transports, Unplug(t) PROVE Queue(u)'
  BY <1>0, <1>17, QueueFrame, Zenon DEF Unplug, pipeVars, Queue
<1>18. ASSUME NEW t \in Transports, unregister_usb_transport(t) PROVE Queue(u)'
  BY <1>0, <1>18, QueueFrame, Zenon DEF unregister_usb_transport, pipeVars, Queue
<1>19. ASSUME NEW t \in Transports, NEW p \in FromDevice(t), output_read(t, p) PROVE Queue(u)'
  <2>1. CASE u = t
    <3>1. ~Drained(t) /\ ~Has(toMain[t]) /\ inp[t] \in {"none", "read"}
      BY <1>0, <1>19, <2>1, Zenon DEF output_read, Queue, Drained, Past
    <3>2. OnlyLast(toMain[t]) /\ toMain[t] \in Seq(Packet)
      BY <1>0, <2>1, PipeT, Zenon DEF Queue
    <3>3. p \in Packet /\ p # Offline
      BY <1>19, DevT, PacketFacts, HasShort, Zenon DEF FromDevice, Packet, Cnxn, Offline, Sync
    <3>4. toMain'[t] = toMain[t] \/ toMain'[t] = Append(toMain[t], p)
      BY <1>19, PipeT, Zenon DEF output_read
    <3>5. OnlyLast(toMain'[t])
      BY <3>1, <3>2, <3>3, <3>4, QueueAppend, Zenon
    <3>6. Has(toMain'[t]) => out'[t] \in Past
      BY <3>1, <3>2, <3>3, <3>4, QueueAppend, Zenon
    <3>7. UNCHANGED <<toThread, inp>>
      BY <1>19 DEF output_read
    <3> QED
      BY <1>0, <2>1, <3>1, <3>5, <3>6, <3>7, QueueBusy, Zenon
  <2>2. CASE u # t
    <3>1. toMain'[u] = toMain[u] /\ out'[u] = out[u] /\ UNCHANGED <<toThread, inp, connection_state>>
      BY <1>19, <2>2, ThreadT, PipeT, StateT DEF output_read
    <3> QED
      BY <1>0, <3>1, QueueFrame, Zenon DEF Queue
  <2> QED
    BY <2>1, <2>2, Zenon
<1>20. ASSUME NEW t \in Transports, NEW c \in Clients, packet_dropped(t, c) PROVE Queue(u)'
  <2>1. PICK p : Reads(t, p)
    BY <1>20, Zenon DEF packet_dropped
  <2>2. UNCHANGED <<out, inp>>
    BY <1>20, Zenon DEF packet_dropped
  <2>5. toThread' = toThread
    BY <1>20, Zenon DEF packet_dropped
  <2>6. CASE u = t
    BY <1>0, <2>1, <2>2, <2>5, <2>6, QueueReads, QueueBusy
  <2>7. CASE u # t
    <3>1. connection_state'[u] = connection_state[u]
      BY <1>20, <2>7, Zenon DEF packet_dropped
    <3> QED
      BY <1>0, <2>1, <2>2, <2>5, <2>7, <3>1, QueueReads, QueueFrame, Zenon DEF Queue
  <2> QED
    BY <2>6, <2>7, Zenon
<1>21. ASSUME NEW t \in Transports, NEW c \in Clients, packet_okay(t, c) PROVE Queue(u)'
  <2> DEFINE p == Pkt("OKAY", c)
  <2>1. Reads(t, p)
    BY <1>21, Zenon DEF packet_okay
  <2> HIDE DEF p
  <2>2. UNCHANGED <<out, inp>>
    BY <1>21, Zenon DEF packet_okay
  <2>5. toThread' = toThread
    BY <1>21, Zenon DEF packet_okay
  <2>6. CASE u = t
    BY <1>0, <2>1, <2>2, <2>5, <2>6, QueueReads, QueueBusy
  <2>7. CASE u # t
    <3>1. connection_state'[u] = connection_state[u]
      BY <1>21, <2>7 DEF packet_okay
    <3> QED
      BY <1>0, <2>1, <2>2, <2>5, <2>7, <3>1, QueueReads, QueueFrame, Zenon DEF Queue
  <2> QED
    BY <2>6, <2>7
<1>22. ASSUME NEW t \in Transports, NEW c \in Clients, NEW cmd \in {"CLSE", "WRTE"}, packet_closes(t, cmd, c) PROVE Queue(u)'
  <2> DEFINE p == Pkt(cmd, c)
  <2>1. Reads(t, p)
    BY <1>22, Zenon DEF packet_closes
  <2> HIDE DEF p
  <2>2. UNCHANGED <<out, inp>>
    BY <1>22, Zenon DEF packet_closes
  <2>3. PICK ps \in {<< >>, <<Pkt("CLSE", c)>>} : send_packet(ctrans[c], ps)
    BY <1>22, Zenon DEF packet_closes
  <2>4. ps \in Seq(Packet) /\ ~Has(ps)
    BY Replies, Zenon
  <2>5. Has(toThread'[u]) => Has(toThread[u])
    BY <2>3, <2>4, SendQueue, Zenon
  <2>6. CASE u = t
    BY <1>0, <2>1, <2>2, <2>5, <2>6, QueueReads, QueueBusy, Zenon
  <2>7. CASE u # t
    <3>1. connection_state'[u] = connection_state[u]
      BY <1>22, <2>7, Zenon DEF packet_closes
    <3> QED
      BY <1>0, <2>1, <2>2, <2>5, <2>7, <3>1, QueueReads, QueueFrame, Zenon DEF Queue
  <2> QED
    BY <2>6, <2>7, Zenon
<1>23. ASSUME NEW t \in Transports, NEW c \in Clients, packet_wrte(t, c) PROVE Queue(u)'
  <2> DEFINE p == Pkt("WRTE", c)
  <2>1. Reads(t, p)
    BY <1>23, Zenon DEF packet_wrte
  <2> HIDE DEF p
  <2>2. UNCHANGED <<out, inp>>
    BY <1>23, Zenon DEF packet_wrte
  <2>3. PICK ps \in {<< >>, <<Pkt("OKAY", c)>>} : send_packet(t, ps)
    BY <1>23, Zenon DEF packet_wrte
  <2>4. ps \in Seq(Packet) /\ ~Has(ps)
    BY Replies, Zenon
  <2>5. Has(toThread'[u]) => Has(toThread[u])
    BY <2>3, <2>4, SendQueue, Zenon
  <2>6. CASE u = t
    BY <1>0, <2>1, <2>2, <2>5, <2>6, QueueReads, QueueBusy, Zenon
  <2>7. CASE u # t
    <3>1. connection_state'[u] = connection_state[u]
      BY <1>23, <2>7 DEF packet_wrte
    <3> QED
      BY <1>0, <2>1, <2>2, <2>5, <2>7, <3>1, QueueReads, QueueFrame, Zenon DEF Queue
  <2> QED
    BY <2>6, <2>7, Zenon
<1>24. ASSUME NEW t \in Transports, NEW c \in Clients, client_transport(c, t) PROVE Queue(u)'
  BY <1>0, <1>24, QueueFrame, Zenon DEF client_transport, pipeVars, Queue
<1>25. ASSUME registration_add PROVE Queue(u)'
  <2> DEFINE t == Head(registration).transport
  <2>1. t \in Transports /\ out[t] = "none" /\ inp[t] = "none"
    BY <1>25, HeadFacts, Zenon DEF registration_add, Life
  <2>2. UNCHANGED <<toMain, toThread, connection_state>>
    BY <1>25 DEF registration_add
  <2>3. CASE u = t
    <3>1. ~Drained(t) /\ ~Has(toMain[t])
      BY <1>0, <2>1, <2>3, Zenon DEF Drained, Past, Queue
    <3>2. inp'[t] \in {"none", "read"}
      BY <1>25, <2>1, ThreadT, Zenon DEF registration_add
    <3> QED
      BY <1>0, <2>2, <2>3, <3>1, <3>2, QueueBusy, Zenon DEF Queue
  <2>4. CASE u # t
    <3>1. out'[u] = out[u] /\ inp'[u] = inp[u]
      BY <1>25, <2>1, <2>4, ThreadT, Zenon DEF registration_add
    <3> QED
      BY <1>0, <2>2, <3>1, QueueFrame, Zenon DEF Queue
  <2> QED
    BY <2>3, <2>4
<1>26. ASSUME registration_remove PROVE Queue(u)'
  BY <1>0, <1>26, QueueFrame, Zenon DEF registration_remove, pipeVars, Queue
<1>27. ASSUME NEW c \in Clients, client_request(c) PROVE Queue(u)'
  <2>1. PICK ps \in {<< >>, <<Pkt("OPEN", c)>>} : send_packet(ctrans[c], ps)
    BY <1>27, Zenon DEF client_request
  <2>2. ps \in Seq(Packet) /\ ~Has(ps)
    BY Replies, Zenon
  <2>3. Has(toThread'[u]) => Has(toThread[u])
    BY <2>1, <2>2, SendQueue, Zenon
  <2> QED
    BY <1>0, <1>27, <2>3, QueueFrame, Zenon DEF client_request, Queue
<1>28. ASSUME NEW c \in Clients, client_hangup(c) PROVE Queue(u)'
  <2>1. PICK ps \in {<< >>, <<Pkt("CLSE", c)>>} : send_packet(ctrans[c], ps)
    BY <1>28, Zenon DEF client_hangup
  <2>2. ps \in Seq(Packet) /\ ~Has(ps)
    BY Replies, Zenon
  <2>3. Has(toThread'[u]) => Has(toThread[u])
    BY <2>1, <2>2, SendQueue, Zenon
  <2> QED
    BY <1>0, <1>28, <2>3, QueueFrame, Zenon DEF client_hangup, Queue
<1>29. CASE UNCHANGED vars
  BY <1>0, <1>29, QueueFrame, Zenon DEF vars, pipeVars, Queue
<1>30. ASSUME NEW t \in Transports, NEW c \in Clients, packet_open(t, c) PROVE Queue(u)'
  <2> DEFINE p == Pkt("OPEN", c)
  <2>1. Reads(t, p)
    BY <1>30 DEF packet_open
  <2> HIDE DEF p
  <2>2. UNCHANGED <<out, inp, connection_state>>
    BY <1>30 DEF packet_open
  <2>3. PICK cmd \in {"OKAY", "CLSE"} : send_packet(t, <<Pkt(cmd, c)>>)
    BY <1>30 DEF packet_open
  <2>4. <<Pkt(cmd, c)>> \in Seq(Packet) /\ ~Has(<<Pkt(cmd, c)>>)
    BY Replies
  <2>5. Has(toThread'[u]) => Has(toThread[u])
    BY <2>3, <2>4, SendQueue
  <2>6. CASE u = t
    BY <1>0, <2>1, <2>2, <2>5, <2>6, QueueReads, QueueBusy
  <2>7. CASE u # t
    BY <1>0, <2>1, <2>2, <2>5, <2>7, QueueReads, QueueFrame DEF Queue
  <2> QED
    BY <2>6, <2>7
<1> QED
  BY <1>1, <1>2, <1>3, <1>4, <1>5, <1>6, <1>7, <1>8, <1>9, <1>10, <1>11, <1>12, <1>13, <1>14, <1>15, <1>16, <1>17, <1>18, <1>19, <1>20, <1>21, <1>22, <1>23, <1>24, <1>25, <1>26, <1>27, <1>28, <1>29, <1>30
  DEF Next, Receives, OutputThread, InputThread, handle_packet, packet_clse, packet_wrte_failed, transport_registration_func

---------------------------------------------------------------------------
(***************************************************************************)
(* Client is kept, and send_packet always finds the socketpair whole.      *)
(***************************************************************************)

Bond(d) == cstate[d] \in {"smart", "opening", "connected"}

(* A transport whose input thread has not been told to end can be written  *)
(* to,                                                                     *)
LEMMA Alive ==
  ASSUME TypeOK, NEW t \in Transports, Life(t), out[t] # "none", inp[t] \in {"read", "close_all"}
  PROVE  SendResult(t) = fatal
<1>1. closes[t] = 0 /\ alloc[t] # "freed" /\ fdCloses[t] = 0 /\ t \in sockOpen
  BY StructT, RefT, SockT, SMT DEF Life
<1> QED
  BY <1>1, SMT DEF SendResult

(* and one that is started and online is such a transport.                 *)
LEMMA Online ==
  ASSUME TypeOK, NEW t \in Transports, Life(t), Queue(t), out[t] # "none",
         connection_state[t] # "OFFLINE" \/ toMain[t] # << >>
  PROVE  inp[t] = "read" /\ SendResult(t) = fatal
<1>1. inp[t] = "read"
  BY ThreadT, PipeT, StateT DEF Life, Queue, Drained
<1> QED
  BY <1>1, Alive

(* The main loop can answer a packet it reads.                             *)
LEMMA ReadsOnline ==
  ASSUME TypeOK, NEW t \in Transports, NEW p, Reads(t, p), Life(t), Queue(t)
  PROVE  out[t] # "none" /\ SendResult(t) = fatal
<1>1. out[t] # "none" /\ toMain[t] # << >>
  BY DEF Reads, Life
<1> QED
  BY <1>1, Online

(* A client stays bound when its transport stays online.                   *)
LEMMA ClientFrame ==
  ASSUME NEW d \in Clients, Client(d), cstate'[d] = cstate[d] \/ cstate'[d] \in {"idle", "closed"},
         ctrans'[d] = ctrans[d],
         Bond(d) => /\ out'[ctrans[d]] # "none"
                    /\ cstate'[d] = "connected" => connection_state'[ctrans[d]] # "OFFLINE"
                    /\ cstate'[d] \in {"smart", "opening"} => inp'[ctrans[d]] \in {"read", "close_all"}
  PROVE  Client(d)'
  BY Zenon DEF Client, Bond

(* Every step keeps clients with transports that will close them.          *)
LEMMA ClientStep ==
  ASSUME TypeOK, Posted, \A t \in Transports : Life(t) /\ Queue(t),
         \A c \in Clients : Client(c), [Next]_vars, NEW d \in Clients
  PROVE  Client(d)'
<1>0. /\ Client(d)
      /\ Bond(d) => ctrans[d] \in Transports /\ out[ctrans[d]] # "none"
      /\ cstate[d] = "connected" => Bond(d) /\ connection_state[ctrans[d]] # "OFFLINE"
      /\ cstate[d] \in {"smart", "opening"} => Bond(d) /\ inp[ctrans[d]] \in {"read", "close_all"}
  BY DEF Client, Bond
<1>a. \A t \in Transports : Life(t) /\ Queue(t)
  OBVIOUS
<1>1. ASSUME NEW t \in Transports, NEW s \in {"OFFLINE", "NOPERM"}, register_transport(t, s) PROVE Client(d)'
  <2>1. out[t] = "none"
    BY <1>a, <1>1 DEF register_transport, Life
  <2>2. Bond(d) => connection_state'[ctrans[d]] = connection_state[ctrans[d]]
    BY <1>0, <1>1, <2>1, StateT, ClientT DEF register_transport
  <2> QED
    BY <1>0, <1>1, <2>2, ClientFrame DEF register_transport, clientVars
<1>2. ASSUME NEW t \in Transports, output_start(t) PROVE Client(d)'
  <2>1. Bond(d) => out'[ctrans[d]] # "none"
    BY <1>0, <1>2, ThreadT, ClientT DEF output_start
  <2> QED
    BY <1>0, <1>2, <2>1, ClientFrame DEF output_start, clientVars
<1>3. ASSUME NEW t \in Transports, output_read_failed(t) PROVE Client(d)'
  <2>1. Bond(d) => out'[ctrans[d]] # "none"
    BY <1>0, <1>3, ThreadT, ClientT DEF output_read_failed
  <2> QED
    BY <1>0, <1>3, <2>1, ClientFrame DEF output_read_failed, clientVars
<1>4. ASSUME NEW t \in Transports, output_offline(t) PROVE Client(d)'
  <2>1. Bond(d) => out'[ctrans[d]] # "none"
    BY <1>0, <1>4, ThreadT, ClientT DEF output_offline
  <2> QED
    BY <1>0, <1>4, <2>1, ClientFrame DEF output_offline, clientVars
<1>5. ASSUME NEW t \in Transports, output_kick(t) PROVE Client(d)'
  <2>1. Bond(d) => out'[ctrans[d]] # "none"
    BY <1>0, <1>5, ThreadT, ClientT DEF output_kick
  <2> QED
    BY <1>0, <1>5, <2>1, ClientFrame DEF output_kick, clientVars
<1>6. ASSUME NEW t \in Transports, output_kicking(t) PROVE Client(d)'
  <2>1. Bond(d) => out'[ctrans[d]] # "none"
    BY <1>0, <1>6, ThreadT, ClientT DEF output_kicking
  <2> QED
    BY <1>0, <1>6, <2>1, ClientFrame DEF output_kicking, clientVars
<1>7. ASSUME NEW t \in Transports, output_unref(t) PROVE Client(d)'
  <2>1. Bond(d) => out'[ctrans[d]] # "none"
    BY <1>0, <1>7, ThreadT, ClientT DEF output_unref
  <2> QED
    BY <1>0, <1>7, <2>1, ClientFrame DEF output_unref, clientVars
<1>8. ASSUME NEW t \in Transports, input_read(t) PROVE Client(d)'
  <2>1. cstate[d] \in {"smart", "opening"} => inp'[ctrans[d]] \in {"read", "close_all"}
    BY <1>0, <1>8, ThreadT, ClientT DEF input_read
  <2> QED
    BY <1>0, <1>8, <2>1, ClientFrame, Zenon DEF input_read, clientVars
<1>9. ASSUME NEW t \in Transports, input_read_failed(t) PROVE Client(d)'
  <2>1. cstate[d] \in {"smart", "opening"} => inp'[ctrans[d]] \in {"read", "close_all"}
    BY <1>0, <1>9, ThreadT, ClientT DEF input_read_failed
  <2> QED
    BY <1>0, <1>9, <2>1, ClientFrame DEF input_read_failed, clientVars
<1>10. ASSUME NEW t \in Transports, input_close_all(t) PROVE Client(d)'
  <2>1. cstate'[d] = cstate[d] \/ cstate'[d] = "closed"
    BY <1>10 DEF input_close_all
  <2>2. cstate'[d] \in {"smart", "opening"} => inp'[ctrans[d]] = inp[ctrans[d]]
    BY <1>0, <1>10, ThreadT, ClientT DEF input_close_all, SocketsOf, Bond
  <2>3. UNCHANGED <<ctrans, connection_state, out>>
    BY <1>10, Zenon DEF input_close_all
  <2> QED
    BY <1>0, <2>1, <2>2, <2>3, ClientFrame
<1>11. ASSUME NEW t \in Transports, input_kick(t) PROVE Client(d)'
  <2>1. cstate[d] \in {"smart", "opening"} => inp'[ctrans[d]] \in {"read", "close_all"}
    BY <1>0, <1>11, ThreadT, ClientT, Zenon DEF input_kick
  <2> QED
    BY <1>0, <1>11, <2>1, ClientFrame DEF input_kick, clientVars
<1>12. ASSUME NEW t \in Transports, input_kicking(t) PROVE Client(d)'
  <2>1. cstate[d] \in {"smart", "opening"} => inp'[ctrans[d]] \in {"read", "close_all"}
    BY <1>0, <1>12, ThreadT, ClientT DEF input_kicking
  <2> QED
    BY <1>0, <1>12, <2>1, ClientFrame DEF input_kicking, clientVars
<1>13. ASSUME NEW t \in Transports, input_unref(t) PROVE Client(d)'
  <2>1. cstate[d] \in {"smart", "opening"} => inp'[ctrans[d]] \in {"read", "close_all"}
    BY <1>0, <1>13, ThreadT, ClientT DEF input_unref
  <2> QED
    BY <1>0, <1>13, <2>1, ClientFrame DEF input_unref, clientVars
<1>14. ASSUME NEW t \in Transports, packet_sync_online(t) PROVE Client(d)'
  BY <1>0, <1>14, ClientFrame DEF packet_sync_online, clientVars
<1>15. ASSUME NEW t \in Transports, packet_sync_offline(t) PROVE Client(d)'
  <2>1. UNCHANGED <<ctrans, out, inp>>
    BY <1>15 DEF packet_sync_offline
  <2>2. cstate'[d] = cstate[d] \/ cstate'[d] = "closed"
    BY <1>15 DEF packet_sync_offline, run_transport_disconnects, Disconnected
  <2>3. cstate'[d] = "connected" => cstate[d] = "connected" /\ ctrans[d] # t
    BY <1>15, <2>2 DEF packet_sync_offline, run_transport_disconnects, Disconnected
  <2>4. cstate'[d] = "connected" => connection_state'[ctrans[d]] = connection_state[ctrans[d]]
    BY <1>0, <1>15, <2>3, StateT, ClientT, Zenon DEF packet_sync_offline
  <2> QED
    BY <1>0, <2>1, <2>2, <2>3, <2>4, ClientFrame
<1>16. ASSUME NEW t \in Transports, packet_cnxn(t) PROVE Client(d)'
  <2>1. UNCHANGED <<ctrans, out, inp>>
    BY <1>16 DEF packet_cnxn
  <2>2. cstate'[d] = cstate[d] \/ cstate'[d] = "closed"
    BY <1>16 DEF packet_cnxn, Disconnected
  <2>3. PICK banner \in Banners : connection_state' = [connection_state EXCEPT ![t] = banner]
    BY <1>16, Zenon DEF packet_cnxn
  <2>4. cstate[d] = "connected" => connection_state'[ctrans[d]] # "OFFLINE"
    BY <1>0, <2>3, StateT, ClientT DEF Banners
  <2> QED
    BY <1>0, <2>1, <2>2, <2>4, ClientFrame
<1>17. ASSUME NEW t \in Transports, Unplug(t) PROVE Client(d)'
  BY <1>0, <1>17, ClientFrame DEF Unplug, clientVars
<1>18. ASSUME NEW t \in Transports, unregister_usb_transport(t) PROVE Client(d)'
  BY <1>0, <1>18, ClientFrame, Zenon DEF unregister_usb_transport, clientVars
<1>19. ASSUME NEW t \in Transports, NEW p \in FromDevice(t), output_read(t, p) PROVE Client(d)'
  <2>1. Bond(d) => out'[ctrans[d]] # "none"
    BY <1>0, <1>19, ThreadT, ClientT DEF output_read
  <2> QED
    BY <1>0, <1>19, <2>1, ClientFrame DEF output_read, clientVars
<1>20. ASSUME NEW t \in Transports, NEW c \in Clients, packet_dropped(t, c) PROVE Client(d)'
  BY <1>0, <1>20, ClientFrame DEF packet_dropped, clientVars
<1>21. ASSUME NEW t \in Transports, NEW c \in Clients, packet_okay(t, c) PROVE Client(d)'
  <2>1. UNCHANGED <<connection_state, out, inp>>
    BY <1>21, Zenon DEF packet_okay
  <2>2. out[t] # "none" /\ connection_state[t] # "OFFLINE"
    BY <1>a, <1>21, ReadsOnline, Zenon DEF packet_okay, Found
  <2>3. CASE d = c
    <3>1. cstate'[d] = "connected" /\ ctrans'[d] = IF cstate[d] = "opening" THEN t ELSE ctrans[d]
      BY <1>21, <2>3, ClientT DEF packet_okay
    <3>2. cstate[d] = "opening" \/ cstate[d] = "connected"
      BY <1>21, <2>3, Zenon DEF packet_okay, Found
    <3>3. ctrans'[d] \in Transports /\ out[ctrans'[d]] # "none" /\ connection_state[ctrans'[d]] # "OFFLINE"
      BY <1>0, <1>21, <2>2, <3>1, <3>2, Zenon
    <3> QED
      BY <2>1, <3>1, <3>3 DEF Client
  <2>4. CASE d # c
    BY <1>0, <1>21, <2>1, <2>4, ClientT, ClientFrame, Zenon DEF packet_okay
  <2> QED
    BY <2>3, <2>4
<1>22. ASSUME NEW t \in Transports, NEW c \in Clients, NEW cmd \in {"CLSE", "WRTE"}, packet_closes(t, cmd, c) PROVE Client(d)'
  <2>1. cstate'[d] = cstate[d] \/ cstate'[d] = "closed"
    BY <1>22, ClientT DEF packet_closes
  <2>2. UNCHANGED <<ctrans, connection_state, out, inp>>
    BY <1>22, Zenon DEF packet_closes
  <2> QED
    BY <1>0, <2>1, <2>2, ClientFrame
<1>23. ASSUME NEW t \in Transports, NEW c \in Clients, packet_wrte(t, c) PROVE Client(d)'
  BY <1>0, <1>23, ClientFrame DEF packet_wrte, clientVars
<1>24. ASSUME NEW t \in Transports, NEW c \in Clients, client_transport(c, t) PROVE Client(d)'
  <2>1. UNCHANGED <<connection_state, out, inp>>
    BY <1>24, Zenon DEF client_transport
  <2>2. out[t] # "none" /\ inp[t] = "read"
    BY <1>a, <1>24, Online DEF client_transport, acquire_one_transport, Life
  <2>3. CASE d = c
    <3>1. cstate'[d] = "smart" /\ ctrans'[d] = t
      BY <1>24, <2>3, ClientT, Zenon DEF client_transport
    <3> QED
      BY <1>24, <2>1, <2>2, <3>1 DEF Client
  <2>4. CASE d # c
    BY <1>0, <1>24, <2>1, <2>4, ClientT, ClientFrame, Zenon DEF client_transport
  <2> QED
    BY <2>3, <2>4
<1>25. ASSUME registration_add PROVE Client(d)'
  <2> DEFINE t == Head(registration).transport
  <2>1. t \in Transports /\ out[t] = "none"
    BY <1>25, HeadFacts, Zenon DEF registration_add
  <2>2. Bond(d) => out'[ctrans[d]] = out[ctrans[d]] /\ inp'[ctrans[d]] = inp[ctrans[d]]
    BY <1>0, <1>25, <2>1, ThreadT, ClientT, Zenon DEF registration_add
  <2>3. UNCHANGED <<cstate, ctrans, connection_state>>
    BY <1>25, Zenon DEF registration_add, clientVars
  <2> QED
    BY <1>0, <2>2, <2>3, ClientFrame, Zenon
<1>26. ASSUME registration_remove PROVE Client(d)'
  <2>1. cstate'[d] = cstate[d] \/ cstate'[d] = "closed"
    BY <1>26 DEF registration_remove, run_transport_disconnects, Disconnected
  <2>2. UNCHANGED <<ctrans, connection_state, out, inp>>
    BY <1>26 DEF registration_remove
  <2> QED
    BY <1>0, <2>1, <2>2, ClientFrame
<1>27. ASSUME NEW c \in Clients, client_request(c) PROVE Client(d)'
  <2>1. UNCHANGED <<ctrans, connection_state, out, inp>>
    BY <1>27 DEF client_request
  <2>2. CASE d = c
    <3> DEFINE t == ctrans[c]
               offline == connection_state[t] = "OFFLINE" /\ alloc[t] # "freed"
    <3>1. t \in Transports /\ out[t] # "none"
      BY <1>0, <1>27, <2>2, Zenon DEF client_request, Bond
    <3>2. cstate'[d] = IF offline THEN "closed" ELSE "opening"
      BY <1>27, <2>2, ClientT, Zenon DEF client_request
    <3>3. CASE offline
      BY <2>1, <3>2, <3>3, Zenon DEF Client
    <3>4. CASE ~offline
      <4>1. cstate[d] = "smart" /\ inp[ctrans[d]] \in {"read", "close_all"}
        BY <1>0, <1>27, <2>2 DEF client_request
      <4>2. cstate'[d] = "opening" /\ ctrans'[d] = ctrans[d] /\ out' = out /\ inp' = inp
        BY <2>1, <3>2, <3>4
      <4> QED
        BY <2>2, <3>1, <4>1, <4>2 DEF Client
    <3> QED
      BY <3>3, <3>4, Zenon
  <2>3. CASE d # c
    <3>1. cstate'[d] = cstate[d]
      BY <1>27, <2>3, ClientT, Zenon DEF client_request
    <3> QED
      BY <1>0, <2>1, <3>1, ClientFrame, Zenon
  <2> QED
    BY <2>2, <2>3, Zenon
<1>28. ASSUME NEW c \in Clients, client_hangup(c) PROVE Client(d)'
  <2>1. cstate'[d] = cstate[d] \/ cstate'[d] = "closed"
    BY <1>28, ClientT DEF client_hangup
  <2>2. UNCHANGED <<ctrans, connection_state, out, inp>>
    BY <1>28, Zenon DEF client_hangup
  <2> QED
    BY <1>0, <2>1, <2>2, ClientFrame
<1>29. CASE UNCHANGED vars
  BY <1>0, <1>29, ClientFrame, Zenon DEF vars, clientVars
<1>30. ASSUME NEW t \in Transports, NEW c \in Clients, packet_open(t, c) PROVE Client(d)'
  <2>1. UNCHANGED <<connection_state, out, inp>>
    BY <1>30 DEF packet_open
  <2>2. out[t] # "none" /\ connection_state[t] # "OFFLINE"
    BY <1>a, <1>30, ReadsOnline DEF packet_open
  <2>3. CASE d = c /\ cstate'[d] = "connected" /\ ctrans'[d] = t
    BY <2>1, <2>2, <2>3 DEF Client
  <2>4. CASE cstate'[d] = cstate[d] /\ ctrans'[d] = ctrans[d]
    BY <1>0, <2>1, <2>4, ClientFrame
  <2> QED
    BY <1>30, <2>3, <2>4, ClientT DEF packet_open
<1> QED
  BY <1>1, <1>2, <1>3, <1>4, <1>5, <1>6, <1>7, <1>8, <1>9, <1>10, <1>11, <1>12, <1>13, <1>14, <1>15, <1>16, <1>17, <1>18, <1>19, <1>20, <1>21, <1>22, <1>23, <1>24, <1>25, <1>26, <1>27, <1>28, <1>29, <1>30
  DEF Next, Receives, OutputThread, InputThread, handle_packet, packet_clse, packet_wrte_failed, transport_registration_func

---------------------------------------------------------------------------
(* send_packet always finds the socketpair whole.                          *)
LEMMA AbortStep ==
  ASSUME TypeOK, Posted, \A t \in Transports : Life(t) /\ Queue(t),
         \A c \in Clients : Client(c), Next
  PROVE  fatal' = "no"
<1>0. fatal = "no"
  BY DEF Next
<1>a. \A t \in Transports : Life(t) /\ Queue(t)
  BY Zenon
<1>b. ASSUME NEW c \in Clients, cstate[c] = "connected" PROVE SendResult(ctrans[c]) = fatal
  <2>1. ctrans[c] \in Transports /\ out[ctrans[c]] # "none" /\ connection_state[ctrans[c]] # "OFFLINE"
    BY <1>b DEF Client
  <2> QED
    BY <1>a, <2>1, Online
<1>1. ASSUME NEW t \in Transports, NEW s \in {"OFFLINE", "NOPERM"}, register_transport(t, s) PROVE fatal' = "no"
  BY <1>0, <1>1 DEF register_transport
<1>2. ASSUME NEW t \in Transports, output_start(t) PROVE fatal' = "no"
  BY <1>0, <1>2 DEF output_start
<1>3. ASSUME NEW t \in Transports, output_read_failed(t) PROVE fatal' = "no"
  BY <1>0, <1>3 DEF output_read_failed
<1>4. ASSUME NEW t \in Transports, output_offline(t) PROVE fatal' = "no"
  BY <1>0, <1>4 DEF output_offline
<1>5. ASSUME NEW t \in Transports, output_kick(t) PROVE fatal' = "no"
  BY <1>0, <1>5 DEF output_kick
<1>6. ASSUME NEW t \in Transports, output_kicking(t) PROVE fatal' = "no"
  BY <1>0, <1>6 DEF output_kicking
<1>7. ASSUME NEW t \in Transports, output_unref(t) PROVE fatal' = "no"
  BY <1>0, <1>7, Zenon DEF output_unref
<1>8. ASSUME NEW t \in Transports, input_read(t) PROVE fatal' = "no"
  BY <1>0, <1>8 DEF input_read
<1>9. ASSUME NEW t \in Transports, input_read_failed(t) PROVE fatal' = "no"
  BY <1>0, <1>9 DEF input_read_failed
<1>10. ASSUME NEW t \in Transports, input_close_all(t) PROVE fatal' = "no"
  <2>1. connection_state[t] = "OFFLINE"
    BY <1>a, <1>10 DEF input_close_all, Queue, Drained
  <2>2. Bound(t, {"connected"}) = {}
    BY <2>1 DEF Bound, Client
  <2> QED
    BY <1>0, <1>10, <2>2, Zenon DEF input_close_all
<1>11. ASSUME NEW t \in Transports, input_kick(t) PROVE fatal' = "no"
  BY <1>0, <1>11 DEF input_kick
<1>12. ASSUME NEW t \in Transports, input_kicking(t) PROVE fatal' = "no"
  BY <1>0, <1>12 DEF input_kicking
<1>13. ASSUME NEW t \in Transports, input_unref(t) PROVE fatal' = "no"
  BY <1>0, <1>13 DEF input_unref
<1>14. ASSUME NEW t \in Transports, packet_sync_online(t) PROVE fatal' = "no"
  <2>1. SendResult(t) = fatal
    BY <1>a, <1>14, ReadsOnline DEF packet_sync_online
  <2> QED
    BY <1>0, <1>14, <2>1 DEF packet_sync_online, send_packet
<1>15. ASSUME NEW t \in Transports, packet_sync_offline(t) PROVE fatal' = "no"
  <2>1. SendResult(t) = fatal
    BY <1>a, <1>15, ReadsOnline DEF packet_sync_offline
  <2> QED
    BY <1>0, <1>15, <2>1 DEF packet_sync_offline, send_packet
<1>16. ASSUME NEW t \in Transports, packet_cnxn(t) PROVE fatal' = "no"
  BY <1>0, <1>16 DEF packet_cnxn
<1>17. ASSUME NEW t \in Transports, Unplug(t) PROVE fatal' = "no"
  BY <1>0, <1>17 DEF Unplug
<1>18. ASSUME NEW t \in Transports, unregister_usb_transport(t) PROVE fatal' = "no"
  BY <1>0, <1>18 DEF unregister_usb_transport
<1>19. ASSUME NEW t \in Transports, NEW p \in FromDevice(t), output_read(t, p) PROVE fatal' = "no"
  BY <1>0, <1>19 DEF output_read
<1>20. ASSUME NEW t \in Transports, NEW c \in Clients, packet_dropped(t, c) PROVE fatal' = "no"
  BY <1>0, <1>20 DEF packet_dropped
<1>21. ASSUME NEW t \in Transports, NEW c \in Clients, packet_okay(t, c) PROVE fatal' = "no"
  BY <1>0, <1>21, Zenon DEF packet_okay
<1>22. ASSUME NEW t \in Transports, NEW c \in Clients, NEW cmd \in {"CLSE", "WRTE"}, packet_closes(t, cmd, c) PROVE fatal' = "no"
  BY <1>0, <1>b, <1>22 DEF packet_closes, send_packet
<1>23. ASSUME NEW t \in Transports, NEW c \in Clients, packet_wrte(t, c) PROVE fatal' = "no"
  <2>1. SendResult(t) = fatal
    BY <1>a, <1>23, ReadsOnline DEF packet_wrte
  <2> QED
    BY <1>0, <1>23, <2>1 DEF packet_wrte, send_packet
<1>24. ASSUME NEW t \in Transports, NEW c \in Clients, client_transport(c, t) PROVE fatal' = "no"
  BY <1>0, <1>24, Zenon DEF client_transport
<1>25. ASSUME registration_add PROVE fatal' = "no"
  BY <1>0, <1>25, Zenon DEF registration_add
<1>26. ASSUME registration_remove PROVE fatal' = "no"
  BY <1>0, <1>26 DEF registration_remove
<1>27. ASSUME NEW c \in Clients, client_request(c) PROVE fatal' = "no"
  <2> DEFINE t == ctrans[c]
  <2>1. t \in Transports /\ out[t] # "none"
    BY <1>27, Zenon DEF client_request, Client
  <2>2. SendResult(t) = fatal
    BY <1>a, <1>27, <2>1, Alive DEF client_request, Client
  <2> QED
    BY <1>0, <1>27, <2>2 DEF client_request, send_packet
<1>28. ASSUME NEW c \in Clients, client_hangup(c) PROVE fatal' = "no"
  BY <1>0, <1>b, <1>28 DEF client_hangup, send_packet
<1>30. ASSUME NEW t \in Transports, NEW c \in Clients, packet_open(t, c) PROVE fatal' = "no"
  <2>1. SendResult(t) = fatal
    BY <1>a, <1>30, ReadsOnline DEF packet_open
  <2> QED
    BY <1>0, <1>30, <2>1 DEF packet_open, send_packet
<1> QED
  BY <1>1, <1>2, <1>3, <1>4, <1>5, <1>6, <1>7, <1>8, <1>9, <1>10, <1>11, <1>12, <1>13, <1>14, <1>15, <1>16, <1>17, <1>18, <1>19, <1>20, <1>21, <1>22, <1>23, <1>24, <1>25, <1>26, <1>27, <1>28, <1>30
  DEF Next, Receives, OutputThread, InputThread, handle_packet, packet_clse, packet_wrte_failed, transport_registration_func

---------------------------------------------------------------------------
(***************************************************************************)
(* The invariant is inductive, and the safety properties of Transport follow*)
(* from it, for any number of transports and clients.                      *)
(***************************************************************************)

(* The invariant holds at the start.                                       *)
LEMMA InitIInv == Init => IInv
<1> SUFFICES ASSUME Init PROVE IInv
  OBVIOUS
<1>1a. alloc \in [Transports -> {"none", "live", "freed"}] /\ registration \in Seq(Tmsg) /\ transport_list \subseteq Transports
  BY SMT DEF Init
<1>1b. out \in [Transports -> OutPcs] /\ inp \in [Transports -> InPcs] /\ active \subseteq Transports
  BY DEF Init, OutPcs, InPcs
<1>1c. ref_count \in [Transports -> Int] /\ kicked \subseteq Transports /\ kicks \in [Transports -> Nat] /\ closes \in [Transports -> Nat]
  BY SMT DEF Init
<1>1d. toMain \in [Transports -> Seq(Packet)] /\ toThread \in [Transports -> Seq(Packet)]
  BY SMT DEF Init
<1>1e. sockOpen \subseteq Transports /\ fdCloses \in [Transports -> Nat]
  BY DEF Init
<1>1f. remote \in [Transports -> {"up", "down"}] /\ recvd \in [Transports -> Nat] /\ opened \in [Transports -> SUBSET Clients] /\ sync_token \in [Transports -> Nat]
  BY TransportAssumption, SMT DEF Init
<1>1g. connection_state \in [Transports -> ConnStates]
  BY DEF Init, ConnStates
<1>1h. cstate \in [Clients -> {"idle", "smart", "opening", "connected", "closed"}] /\ ctrans \in [Clients -> Transports \cup {NoTransport}] /\ status \in [Clients -> {"none", "OKAY", "FAIL"}] /\ fatal \in {"no", "write", "freed"}
  BY DEF Init
<1>1. TypeOK
  BY <1>1a, <1>1b, <1>1c, <1>1d, <1>1e, <1>1f, <1>1g, <1>1h DEF TypeOK
<1>2. ASSUME NEW t \in Transports PROVE Life(t) /\ Kick(t)
  <2>1. Life(t)
    BY <1>2, SMT DEF Init, Life
  <2>2. Kick(t)
    BY <1>2 DEF Init, Kick
  <2> QED
    BY <2>1, <2>2
<1>3. Posted
  <2>1. registration = << >>
    BY DEF Init
  <2>2. \A i \in 1..Len(<< >>) : FALSE
    BY SMT
  <2> QED
    BY <2>1, <2>2 DEF Posted
<1>4. ASSUME NEW t \in Transports PROVE Queue(t)
  <2>1. toMain[t] = << >> /\ toThread[t] = << >> /\ inp[t] = "none"
    BY <1>4 DEF Init
  <2>2. OnlyLast(<< >>)
    BY SMT DEF OnlyLast
  <2> QED
    BY <2>1, <2>2, HasShort DEF Queue
<1>5. \A c \in Clients : Client(c)
  BY DEF Init, Client
<1> QED
  BY <1>1, <1>2, <1>3, <1>4, <1>5 DEF IInv, Init, NoWriteAbort

(* Every step keeps the invariant.                                         *)
LEMMA IInvStep == IInv /\ [Next]_vars => IInv'
<1> SUFFICES ASSUME IInv, [Next]_vars PROVE IInv'
  OBVIOUS
<1>1. TypeOK'
  BY TypeStep DEF IInv
<1>2. \A t \in Transports : Life(t)'
  BY LifeStep DEF IInv
<1>3. Posted'
  BY PostedStep DEF IInv
<1>4. \A t \in Transports : Kick(t)'
  BY KickStep DEF IInv
<1>5. (\A t \in Transports : Queue(t)') /\ (\A c \in Clients : Client(c)')
  BY QueueStep, ClientStep DEF IInv
<1>6. NoWriteAbort'
  <2>1. CASE Next
    BY <2>1, AbortStep DEF IInv, NoWriteAbort
  <2>2. CASE UNCHANGED vars
    BY <2>2 DEF IInv, NoWriteAbort, vars
  <2> QED
    BY <2>1, <2>2
<1> QED
  BY <1>1, <1>2, <1>3, <1>4, <1>5, <1>6 DEF IInv

(* IInv, which strengthens every property below, holds in every reachable  *)
(* state of the server, whatever the number of transports and clients.     *)
THEOREM Invariant == Spec => []IInv
  BY InitIInv, IInvStep, PTL DEF Spec

(* Every variable keeps its type: in particular handle_packet leaves a     *)
(* transport in one of the CS_ states, and the queues hold packets.        *)
THEOREM TypeCorrect == Spec => []TypeOK
<1>1. IInv => TypeOK
  BY DEF IInv
<1> QED
  BY <1>1, Invariant, PTL

(* transport.c:250: t->close and the free come after both threads, because *)
(* ref_count counts exactly the threads that have not dropped theirs.      *)
THEOREM ClosesAfterThreads == Spec => []ClosedAfterThreads
<1>1. IInv => ClosedAfterThreads
  <2> SUFFICES ASSUME IInv, NEW t \in Transports, closes[t] > 0 \/ alloc[t] = "freed"
               PROVE  Stopped(t)
    BY DEF ClosedAfterThreads
  <2>1. Life(t)
    BY DEF IInv
  <2>2. closes[t] = (IF out[t] = "done" /\ inp[t] = "done" THEN 1 ELSE 0)
    BY <2>1 DEF Life
  <2>3. alloc[t] = "freed" => closes[t] = 1
    BY <2>1 DEF Life
  <2>4. closes[t] # 0
    BY <2>3, SMT
  <2> QED
    BY <2>2, <2>4 DEF Stopped
<1> QED
  BY <1>1, Invariant, PTL

(* transport_unref_locked posts the removal of a transport at most once,   *)
(* so transport_registration_func frees it at most once.                   *)
THEOREM RemovesOnce == Spec => []RemovedOnce
<1>1. IInv => RemovedOnce
  <2> SUFFICES ASSUME IInv, NEW t \in Transports
               PROVE  /\ closes[t] <= 1
                      /\ \A i, j \in Removals(t) : i = j
                      /\ Removals(t) # {} => closes[t] = 1 /\ alloc[t] = "live"
    BY Zenon DEF RemovedOnce
  <2>1. closes[t] <= 1
    <3>1. Life(t)
      BY DEF IInv
    <3> QED
      BY <3>1, SMT DEF Life
  <2>0. registration \in Seq(Tmsg) /\ Posted
    BY StructT DEF IInv
  <2>1a. Msg(t, 0).transport = t /\ Msg(t, 0).action = 0
    BY DEF Msg
  <2>2. Removals(t) \subseteq 1..Len(registration)
    BY <2>0, SMT DEF Removals
  <2>3. \A i, j \in Removals(t) : i = j
    BY <2>0, <2>2 DEF Removals, Posted
  <2>4. Removals(t) # {} => closes[t] = 1 /\ alloc[t] = "live"
    BY <2>0, <2>1a, <2>2, SMT DEF Removals, Posted, Msg
  <2> QED
    BY <2>1, <2>3, <2>4
<1> QED
  BY <1>1, Invariant, PTL

(* kick_transport and transport_unref_locked between them call t->kick at  *)
(* most once, however the threads interleave.                              *)
THEOREM KicksOnce == Spec => []KickedOnce
<1>1. IInv => KickedOnce
  <2> SUFFICES ASSUME IInv, NEW t \in Transports PROVE kicks[t] <= 1
    BY Zenon DEF KickedOnce
  <2>1. Kick(t)
    BY DEF IInv
  <2> QED
    BY <2>1, SMT DEF Kick
<1> QED
  BY <1>1, Invariant, PTL

(* When the input thread has left its loop nobody refers to the transport  *)
(* any more: the SYNC(0,0) it left the loop with had passed through the    *)
(* main loop, which lets nobody choose an offline transport, and           *)
(* close_all_sockets has closed the rest.                                  *)
THEOREM LeavesNobodyBehind == Spec => []NobodyLeftBehind
<1>1. IInv => NobodyLeftBehind
  <2> SUFFICES ASSUME IInv, NEW t \in Transports,
                      inp[t] \in {"kick", "kicking", "unref", "done"}
               PROVE  connection_state[t] = "OFFLINE" /\ Bound(t, {"smart", "opening", "connected"}) = {}
    BY DEF NobodyLeftBehind
  <2>1. connection_state[t] = "OFFLINE"
    BY DEF IInv, Queue, Drained
  <2>2. ASSUME NEW c \in Clients, ctrans[c] = t PROVE cstate[c] \notin {"smart", "opening", "connected"}
    <3>1. Client(c)
      BY DEF IInv
    <3> QED
      BY <2>1, <2>2, <3>1 DEF Client
  <2> QED
    BY <2>1, <2>2 DEF Bound
<1> QED
  BY <1>1, Invariant, PTL

(* send_packet never writes to a socketpair whose other half is closed,    *)
(* nor to a freed transport, so its fatal_errno does not end the server.   *)
THEOREM NeverAbortsOnWrite == Spec => []NoWriteAbort
<1>1. IInv => NoWriteAbort
  BY DEF IInv
<1> QED
  BY <1>1, Invariant, PTL
=============================================================================
