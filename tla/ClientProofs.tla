---------------------------- MODULE ClientProofs ----------------------------
(* The safety of Client, for any number of commands and versions.          *)
EXTENDS Client, SequenceTheorems, TLAPS

(* A leaf that names no prover is Zenon's.                                *)
USE Zenon

---------------------------------------------------------------------------
(* The inductive invariant of Client, and the proof of the part about      *)
(* requests and connections.                                               *)

Unit == Requests \X (1..Size)

ClientTypes ==
  /\ cmd \in [Clients -> Commands] /\ ver \in [Clients -> Versions]
  /\ at \in [Clients -> {"version", "kill", "launch", "service", "done"}]
  /\ stage \in [Clients -> {"connect", "write", "status", "sleep", "ack", "done"}]
  /\ req \in [Clients -> Requests \cup {None}]
  /\ result \in [Clients -> {None, "success", "error"}]
  /\ victim \in [Clients -> Servers \cup {None}]

LinkTypes ==
  /\ fd \in [Clients -> Servers \cup {None}]
  /\ net \in [Clients -> Seq(Unit)] /\ pkt \in [Clients -> Seq(Unit)]
  /\ answer \in [Clients -> Answers \cup {None}]
  /\ bound \subseteq Clients /\ opening \subseteq Clients

ServerTypes ==
  /\ srv \in [Servers -> {"none", "starting", "listening", "up", "dying", "dead"}]
  /\ sver \in [Servers -> Versions \cup {Unknown}]
  /\ port \in Servers \cup {None}
  /\ acked \subseteq Clients
  /\ crashes \in Nat

(* Where a command is tells which request it makes.                        *)
Placed(c) ==
  /\ stage[c] \in {"sleep", "ack"} <=> at[c] = "launch"
  /\ stage[c] = "done" <=> at[c] = "done"
  /\ stage[c] \in {"write", "status"} =>
       /\ at[c] = "version" => req[c] = "host:version"
       /\ at[c] = "kill" => req[c] = "host:kill"
       /\ at[c] = "service" => req[c] \in {"host:devices", "host:transport", "shell"}

(* A command holds a connection, to a server that has had the port, just   *)
(* while it makes a request; before it has written and after the answer    *)
(* the connection is empty, and in between it holds the request, until the *)
(* device is asked.                                                        *)
Wired(c) ==
  /\ fd[c] # None <=> stage[c] \in {"write", "status"}
  /\ fd[c] # None => srv[fd[c]] \in {"listening", "up", "dying", "dead"}
  /\ stage[c] # "status" => answer[c] = None
  /\ c \in opening => stage[c] = "status" /\ answer[c] = None /\ req[c] = "shell"
  /\ stage[c] # "status" \/ answer[c] # None \/ c \in opening => net[c] = <<>> /\ pkt[c] = <<>>
  /\ answer[c] # None => answer[c].req = req[c]
  /\ stage[c] = "status" /\ answer[c] = None /\ Alive(c) /\ c \notin opening
       => pkt[c] \o net[c] = Units(req[c])
  /\ Len(net[c]) <= Size /\ Len(pkt[c]) < Size

(* One server has the port; a command that may still start its server has  *)
(* not done so.                                                            *)
Owned ==
  /\ port # None => srv[port] \in {"listening", "up", "dying"}
  /\ \A s \in Servers : srv[s] \in {"listening", "up", "dying"} => port = s
  /\ \A s \in acked : srv[s] \notin {"none", "starting"}
  /\ \A c \in Clients : at[c] \in {"version", "kill"} \/ stage[c] = "sleep" => srv[c] = "none"
  /\ srv[Resident] \notin {"starting", "listening"}

(* The command will start a server unless it finds one.                    *)
Owes(c) ==
  \/ at[c] = "version" /\ stage[c] = "connect"
  \/ at[c] = "kill" \/ stage[c] = "sleep"
  \/ at[c] = "launch" /\ srv[c] = "starting"

(* The command has asked the server to exit, and will start one after it.  *)
Kills(c, s) ==
  \/ at[c] = "kill" /\ stage[c] = "status" /\ fd[c] = s
  \/ stage[c] = "sleep" /\ victim[c] = s

(* While nobody has the port somebody is about to start a server, and who  *)
(* has a server killed starts one after it.                                *)
Replaced ==
  (\A c \in Clients : cmd[c] # "kill-server") /\ crashes = 0 =>
    /\ port = None => \E c \in Clients : Owes(c)
    /\ \A s \in Servers : srv[s] = "dying" => \E c \in Clients : Kills(c, s)

(* Commands of the server's version are told so, and kill nothing.         *)
Agreed ==
  /\ \A c \in Clients : sver[c] = ver[c]
  /\ SameVersion =>
       /\ \A c \in Clients :
            /\ at[c] # "kill"
            /\ answer[c] # None /\ at[c] = "version" => answer[c].status = "OKAY" /\ answer[c].info = ver[c]
       /\ \A s \in Servers : srv[s] # "dying"

Types == ClientTypes /\ LinkTypes /\ ServerTypes
Wire == \A c \in Clients : Placed(c) /\ Wired(c)
IInv == Types /\ Wire /\ Owned /\ Replaced /\ Agreed

---------------------------------------------------------------------------
(* Arithmetic of lengths.                                                  *)
LEMMA Lengths ==
  ASSUME NEW b \in Nat, NEW n \in 1..b
  PROVE  /\ n \in Nat /\ n \in Int /\ n + 1 \in Int /\ b \in Int /\ n - 1 + 1 = n
         /\ n \in 1 - 1 .. b /\ b \in n..b /\ 1 \in 1..b + 1 /\ 1 \in Int
         /\ 1 <= n
         /\ (IF n + 1 <= b THEN b - (n + 1) + 1 ELSE 0) = b - n
BY SMT

(* Bytes that move from the connection to the reader: the sum stays.       *)
LEMMA Sums ==
  ASSUME NEW a \in Nat, NEW b \in Nat, NEW n \in 1..b
  PROVE  /\ b - n \in Nat /\ a + n \in Nat /\ 1 <= a + n
         /\ 1 \in 1 .. (a + n) + (b - n)
BY SMT

(* A request has two units, so a full reader leaves nothing behind.        *)
LEMMA Whole ==
  ASSUME NEW a \in Nat, NEW b \in Nat, a + b = 2
  PROVE  b <= Size /\ (a >= Size => b = 0)
BY SMT DEF Size

(* A delivery cuts what is to be read in two.                              *)
LEMMA Cut ==
  ASSUME NEW q \in Seq(Unit), NEW n \in 1..Len(q)
  PROVE  /\ SubSeq(q, 1, n) \in Seq(Unit) /\ Len(SubSeq(q, 1, n)) = n
         /\ SubSeq(q, n + 1, Len(q)) \in Seq(Unit)
         /\ Len(SubSeq(q, n + 1, Len(q))) = Len(q) - n
         /\ SubSeq(q, 1, n) \o SubSeq(q, n + 1, Len(q)) = q
<1>1. Len(q) \in Nat /\ q \in [1..Len(q) -> Unit]
  BY LenProperties
<1>2. \A i \in 1..Len(q) : q[i] \in Unit
  BY <1>1
<1>3. (\A i \in 1..n : q[i] \in Unit) /\ (\A i \in n + 1 .. Len(q) : q[i] \in Unit)
  BY <1>1, SMT
<1>4. /\ n \in Int /\ n + 1 \in Int /\ Len(q) \in Int /\ n - 1 + 1 = n /\ 1 <= n /\ 1 \in Int
      /\ n \in 1 - 1 .. Len(q) /\ Len(q) \in n..Len(q) /\ 1 \in 1..Len(q) + 1
      /\ (IF n + 1 <= Len(q) THEN Len(q) - (n + 1) + 1 ELSE 0) = Len(q) - n
  BY <1>1, Lengths
<1>5. /\ SubSeq(q, 1, n) \in Seq(Unit)
      /\ Len(SubSeq(q, 1, n)) = IF 1 <= n THEN n - 1 + 1 ELSE 0
  BY <1>3, <1>4, SubSeqProperties, SMT
<1>6. /\ SubSeq(q, n + 1, Len(q)) \in Seq(Unit)
      /\ Len(SubSeq(q, n + 1, Len(q))) = IF n + 1 <= Len(q) THEN Len(q) - (n + 1) + 1 ELSE 0
  BY <1>3, <1>4, SubSeqProperties, SMT
<1>7. SubSeq(q, 1, n) \o SubSeq(q, n + 1, Len(q)) = SubSeq(q, 1, Len(q))
  BY <1>4, ConcatAdjacentSubSeq
<1>8. SubSeq(q, 1, Len(q)) = q
  BY SubSeqFull
<1>9. Len(SubSeq(q, 1, n)) = n
  BY <1>4, <1>5
<1>10. Len(SubSeq(q, n + 1, Len(q))) = Len(q) - n
  BY <1>4, <1>6, SMT
<1>. QED
  BY <1>5, <1>6, <1>7, <1>8, <1>9, <1>10

(* The length and the first unit of what two parts make.                   *)
LEMMA Concat ==
  ASSUME NEW x \in Seq(Unit), NEW y \in Seq(Unit)
  PROVE  Len(x \o y) = Len(x) + Len(y) /\ (1 <= Len(x) => (x \o y)[1] = x[1])
BY ConcatProperties, LenProperties, SMT

(* Units may be delivered in any pieces.                                   *)
LEMMA Associative ==
  \A x, y, z \in Seq(Unit) : (x \o y) \o z = x \o (y \o z)
BY ConcatAssociative, SMT

(* What smart_socket_enqueue has put together and what is still to be read *)
(* are the same bytes before and after a delivery.                         *)
LEMMA Joined ==
  ASSUME NEW p \in Seq(Unit), NEW q \in Seq(Unit), NEW n \in 1..Len(q)
  PROVE  /\ p \o SubSeq(q, 1, n) \in Seq(Unit) /\ SubSeq(q, n + 1, Len(q)) \in Seq(Unit)
         /\ (p \o SubSeq(q, 1, n)) \o SubSeq(q, n + 1, Len(q)) = p \o q
         /\ (p \o SubSeq(q, 1, n))[1] = (p \o q)[1]
         /\ Len(p \o SubSeq(q, 1, n)) \in Nat /\ Len(SubSeq(q, n + 1, Len(q))) \in Nat
         /\ Len(p \o SubSeq(q, 1, n)) + Len(SubSeq(q, n + 1, Len(q))) = Len(p \o q)
<1>1. PICK front : front = SubSeq(q, 1, n)
  OBVIOUS
<1>2. PICK rest : rest = SubSeq(q, n + 1, Len(q))
  OBVIOUS
<1>3. /\ front \in Seq(Unit) /\ Len(front) = n
      /\ rest \in Seq(Unit) /\ Len(rest) = Len(q) - n
      /\ front \o rest = q
  BY <1>1, <1>2, Cut
<1>4. PICK d : d = p \o front
  OBVIOUS
<1>5. d \in Seq(Unit) /\ Len(d) = Len(p) + n
  <2>1. p \o front \in Seq(Unit) /\ Len(p \o front) = Len(p) + Len(front)
    BY <1>3, ConcatProperties
  <2>. QED
    BY <1>3, <1>4, <2>1
<1>6. Len(p) \in Nat /\ Len(q) \in Nat
  BY LenProperties
<1>7. d \o rest = p \o q
  <2>0. p \in Seq(Unit) /\ front \in Seq(Unit) /\ rest \in Seq(Unit)
    BY <1>3
  <2>1. (p \o front) \o rest = p \o (front \o rest)
    BY ONLY <2>0, Associative
  <2>. QED
    BY <1>3, <1>4, <2>1
<1>8. Len(d) \in Nat /\ Len(rest) \in Nat /\ 1 \in 1 .. Len(d) + Len(rest) /\ 1 <= Len(d)
  <2>1. /\ Len(q) - n \in Nat /\ Len(p) + n \in Nat /\ 1 <= Len(p) + n
        /\ 1 \in 1 .. (Len(p) + n) + (Len(q) - n)
    BY <1>6, Sums
  <2>. QED
    BY <1>3, <1>5, <2>1
<1>9. Len(d \o rest) = Len(d) + Len(rest) /\ (d \o rest)[1] = d[1]
  BY <1>3, <1>5, <1>8, Concat
<1>. QED
  BY <1>1, <1>2, <1>3, <1>4, <1>5, <1>7, <1>8, <1>9

---------------------------------------------------------------------------
(* A server that reads from a connection reads the request its client      *)
(* waits for.                                                              *)
LEMMA Reading ==
  ASSUME LinkTypes, ClientTypes, NEW c \in Clients, Placed(c), Wired(c), NEW n,
         fd[c] # None, srv[fd[c]] = "up", n \in 1..Len(net[c])
  PROVE  LET d == Deliver(c, n)
             rest == SubSeq(net[c], n + 1, Len(net[c]))
         IN  /\ stage[c] = "status" /\ answer[c] = None /\ fd[c] \in Servers /\ c \notin opening
             /\ req[c] \in Requests
             /\ d \in Seq(Unit) /\ rest \in Seq(Unit)
             /\ d \o rest = Units(req[c]) /\ d[1][1] = req[c]
             /\ Len(d) \in Nat /\ Len(rest) <= Size
             /\ Len(d) >= Size => rest = <<>>
<1>1. net[c] # <<>>
  <2>1. Len(<<>>) = 0 /\ ~(n \in 1..0)
    BY SMT
  <2>. QED
    BY <2>1
<1>2. stage[c] = "status" /\ answer[c] = None /\ c \notin opening
  BY <1>1 DEF Wired
<1>3. pkt[c] \o net[c] = Units(req[c])
  BY <1>2 DEF Wired, Alive
<1>4. pkt[c] \in Seq(Unit) /\ net[c] \in Seq(Unit) /\ fd[c] \in Servers
  BY DEF LinkTypes
<1>5. req[c] \in Requests
  <2>1. at[c] \in {"version", "kill", "launch", "service", "done"}
    BY DEF ClientTypes
  <2>. QED
    BY <1>2, <2>1 DEF Placed, Requests
<1>6. /\ Deliver(c, n) \in Seq(Unit) /\ SubSeq(net[c], n + 1, Len(net[c])) \in Seq(Unit)
      /\ Deliver(c, n) \o SubSeq(net[c], n + 1, Len(net[c])) = Units(req[c])
      /\ Deliver(c, n)[1] = <<req[c], 1>>
      /\ Len(Deliver(c, n)) \in Nat /\ Len(SubSeq(net[c], n + 1, Len(net[c]))) <= Size
      /\ Len(Deliver(c, n)) >= Size => SubSeq(net[c], n + 1, Len(net[c])) = <<>>
  <2>1. Deliver(c, n) = pkt[c] \o SubSeq(net[c], 1, n)
    BY DEF Deliver
  <2>2. PICK d : d = Deliver(c, n)
    OBVIOUS
  <2>3. PICK rest : rest = SubSeq(net[c], n + 1, Len(net[c]))
    OBVIOUS
  <2>4. /\ d \in Seq(Unit) /\ rest \in Seq(Unit)
        /\ d \o rest = Units(req[c]) /\ d[1] = Units(req[c])[1]
        /\ Len(d) \in Nat /\ Len(rest) \in Nat /\ Len(d) + Len(rest) = Len(Units(req[c]))
    <3>1. /\ pkt[c] \o SubSeq(net[c], 1, n) \in Seq(Unit)
          /\ SubSeq(net[c], n + 1, Len(net[c])) \in Seq(Unit)
          /\ (pkt[c] \o SubSeq(net[c], 1, n)) \o SubSeq(net[c], n + 1, Len(net[c]))
               = pkt[c] \o net[c]
          /\ (pkt[c] \o SubSeq(net[c], 1, n))[1] = (pkt[c] \o net[c])[1]
          /\ Len(pkt[c] \o SubSeq(net[c], 1, n)) \in Nat
          /\ Len(SubSeq(net[c], n + 1, Len(net[c]))) \in Nat
          /\ Len(pkt[c] \o SubSeq(net[c], 1, n)) + Len(SubSeq(net[c], n + 1, Len(net[c])))
               = Len(pkt[c] \o net[c])
      BY <1>4, Joined
    <3>. QED
      BY <1>3, <2>1, <2>2, <2>3, <3>1
  <2>5. Units(req[c])[1] = <<req[c], 1>> /\ Len(Units(req[c])) = 2
    BY SMT DEF Units, Size
  <2>6. Len(rest) <= Size /\ (Len(d) >= Size => Len(rest) = 0)
    BY <2>4, <2>5, Whole
  <2>7. Len(rest) = 0 => rest = <<>>
    BY <2>4, EmptySeq
  <2>. QED
    BY <2>2, <2>3, <2>4, <2>5, <2>6, <2>7
<1>7. Deliver(c, n)[1][1] = req[c]
  <2>1. \A x : x = <<req[c], 1>> => x[1] = req[c]
    BY SMT
  <2>. QED
    BY <1>6, <2>1
<1>. QED
  BY <1>2, <1>4, <1>5, <1>6, <1>7

(* What handling a request comes to: the connection is empty, and the      *)
(* request has its answer.                                                 *)
LEMMA Handling ==
  ASSUME LinkTypes, ClientTypes, ServerTypes, NEW c \in Clients, Placed(c), Wired(c), NEW n,
         enqueue_handles(c, n)
  PROVE  /\ stage[c] = "status" /\ answer[c] = None /\ fd[c] \in Servers /\ srv[fd[c]] = "up"
         /\ req[c] \in Requests /\ c \notin opening
         /\ \E status \in {"OKAY", "FAIL"}, info \in Versions \cup {Unknown, None} :
              /\ answer' = [answer EXCEPT ![c] = [req |-> req[c], status |-> status, info |-> info]]
              /\ req[c] = "host:version" =>
                   info = sver[fd[c]] /\ (sver[fd[c]] # Unknown => status = "OKAY")
         /\ srv' = [srv EXCEPT ![fd[c]] = IF req[c] = "host:kill" THEN "dying" ELSE @]
         /\ pkt' = [pkt EXCEPT ![c] = <<>>] /\ net' = [net EXCEPT ![c] = <<>>]
         /\ bound' \subseteq Clients
         /\ UNCHANGED <<command, client, fd, opening, sver, port, acked, crashes>>
<1>1. /\ stage[c] = "status" /\ answer[c] = None /\ fd[c] \in Servers /\ srv[fd[c]] = "up" /\ c \notin opening
      /\ req[c] \in Requests /\ Deliver(c, n)[1][1] = req[c]
      /\ Len(Deliver(c, n)) >= Size => SubSeq(net[c], n + 1, Len(net[c])) = <<>>
  BY Reading DEF enqueue_handles
<1>2. Len(Deliver(c, n)) >= Size
  BY DEF enqueue_handles, Complete
<1>3. net' = [net EXCEPT ![c] = <<>>]
  BY <1>1, <1>2 DEF enqueue_handles
<1>4. /\ srv' = [srv EXCEPT ![fd[c]] = IF req[c] = "host:kill" THEN "dying" ELSE @]
      /\ pkt' = [pkt EXCEPT ![c] = <<>>]
  BY <1>1 DEF enqueue_handles, RestOfPacket
<1>5. bound' \subseteq Clients
  BY <1>1 DEF enqueue_handles, LinkTypes
<1>6. sver[fd[c]] \in Versions \cup {Unknown}
  BY <1>1 DEF ServerTypes
<1>7. \E status \in {"OKAY", "FAIL"}, info \in Versions \cup {Unknown, None} :
        /\ answer' = [answer EXCEPT ![c] = [req |-> req[c], status |-> status, info |-> info]]
        /\ req[c] = "host:version" =>
             info = sver[fd[c]] /\ (sver[fd[c]] # Unknown => status = "OKAY")
  <2>1. CASE req[c] = "host:version"
    BY <1>1, <1>6, <2>1 DEF enqueue_handles, Reply
  <2>2. CASE req[c] \in {"host:kill", "host:devices"}
    BY <1>1, <2>2 DEF enqueue_handles, Reply
  <2>3. CASE req[c] = "host:transport"
    BY <1>1, <2>3 DEF enqueue_handles, Reply
  <2>4. CASE req[c] = "shell"
    BY <1>1, <2>4 DEF enqueue_handles, Reply
  <2>. QED
    BY <1>1, <2>1, <2>2, <2>3, <2>4 DEF Requests
<1>. QED
  BY <1>1, <1>3, <1>4, <1>5, <1>7 DEF enqueue_handles

(* What opening a service comes to: the connection is empty, and the       *)
(* device is asked.                                                        *)
LEMMA Opening ==
  ASSUME LinkTypes, ClientTypes, ServerTypes, NEW c \in Clients, Placed(c), Wired(c), NEW n,
         connect_to_remote(c, n)
  PROVE  /\ stage[c] = "status" /\ answer[c] = None /\ fd[c] \in Servers /\ srv[fd[c]] = "up"
         /\ req[c] = "shell" /\ opening' = opening \cup {c}
         /\ pkt' = [pkt EXCEPT ![c] = <<>>] /\ net' = [net EXCEPT ![c] = <<>>]
         /\ UNCHANGED <<command, client, fd, answer, bound, server>>
<1>1. /\ stage[c] = "status" /\ answer[c] = None /\ fd[c] \in Servers /\ srv[fd[c]] = "up"
      /\ req[c] \in Requests /\ Deliver(c, n)[1][1] = req[c]
      /\ Len(Deliver(c, n)) >= Size => SubSeq(net[c], n + 1, Len(net[c])) = <<>>
  BY Reading DEF connect_to_remote
<1>2. Len(Deliver(c, n)) >= Size
  BY DEF connect_to_remote, Complete
<1>3. net' = [net EXCEPT ![c] = <<>>]
  BY <1>1, <1>2 DEF connect_to_remote
<1>. QED
  BY <1>1, <1>3 DEF connect_to_remote

---------------------------------------------------------------------------
(* Types.                                                                  *)

(* A command's step keeps the types of the commands.                       *)
LEMMA ClientTypesStep ==
  ASSUME ClientTypes, LinkTypes, NEW c \in Clients, Placed(c), ClientStep(c) \/ launch_fails(c)
  PROVE  ClientTypes'
<1>1. stage[c] = "connect" => FirstRequest(c) \in Requests
  BY DEF ClientTypes, FirstRequest, Requests, Placed
<1>2. ASSUME connect_refused(c) PROVE ClientTypes'
  BY <1>2 DEF connect_refused, End, Move, ClientTypes, command
<1>3. ASSUME connect(c) PROVE ClientTypes'
  BY <1>1, <1>3 DEF connect, ClientTypes, command
<1>4. ASSUME write(c) PROVE ClientTypes'
  BY <1>4 DEF write, ClientTypes, command
<1>5. ASSUME version_status(c) PROVE ClientTypes'
  <2>1. PICK place \in {"kill", "service", "done"}, how \in {"connect", "done"} : Move(c, place, how)
    BY <1>5 DEF version_status, End
  <2>2. PICK status \in {result[c], "success", "error"} : result' = [result EXCEPT ![c] = status]
    BY <1>5 DEF version_status, End, ClientTypes
  <2>3. req' = [req EXCEPT ![c] = None] /\ UNCHANGED <<command, victim>>
    BY <1>5 DEF version_status, Close
  <2> QED BY <2>1, <2>2, <2>3 DEF Move, ClientTypes, command
<1>6. ASSUME kill_status(c) PROVE ClientTypes'
  BY <1>6 DEF kill_status, End, Move, Close, ClientTypes, LinkTypes, command
<1>7. ASSUME switch_status(c) PROVE ClientTypes'
  BY <1>7 DEF switch_status, ClientTypes, command, Requests
<1>8. ASSUME service_status(c) PROVE ClientTypes'
  BY <1>8 DEF service_status, End, Move, Close, ClientTypes, command
<1>9. ASSUME launch_server(c) PROVE ClientTypes'
  BY <1>9 DEF launch_server, ClientTypes, command
<1>10. ASSUME launch_ack(c) PROVE ClientTypes'
  BY <1>10 DEF launch_ack, End, Move, ClientTypes, command
<1>11. ASSUME launch_fails(c) PROVE ClientTypes'
  BY <1>11 DEF launch_fails, End, Move, ClientTypes, command
<1>. QED
  BY <1>2, <1>3, <1>4, <1>5, <1>6, <1>7, <1>8, <1>9, <1>10, <1>11 DEF ClientStep

(* A request on the wire is its length and its name.                       *)
LEMMA UnitsType == \A r \in Requests : Units(r) \in Seq(Unit) /\ Len(Units(r)) = 2
BY SMT DEF Units, Unit, Size

(* What a client writes: a request, on an empty connection.                *)
LEMMA Writing ==
  ASSUME ClientTypes, LinkTypes, NEW c \in Clients, Placed(c), Wired(c), write(c)
  PROVE  /\ Units(req[c]) \in Seq(Unit) /\ Len(Units(req[c])) = 2
         /\ pkt[c] = <<>> /\ answer[c] = None
         /\ net' = [net EXCEPT ![c] = IF Alive(c) THEN Units(req[c]) ELSE <<>>]
<1>1. pkt[c] = <<>> /\ net[c] = <<>> /\ answer[c] = None
  BY DEF write, Wired
<1>2. req[c] \in Requests
  BY DEF write, Placed, ClientTypes, Requests
<1>3. Units(req[c]) \in Seq(Unit) /\ Len(Units(req[c])) = 2
  BY <1>2, UnitsType
<1>4. <<>> \o Units(req[c]) = Units(req[c])
  BY <1>3, ConcatEmptySeq
<1>5. net' = [net EXCEPT ![c] = IF Alive(c) THEN net[c] \o Units(req[c]) ELSE net[c]]
  BY DEF write
<1>. QED
  BY <1>1, <1>3, <1>4, <1>5

(* A command's step keeps the types of the connections.                    *)
LEMMA LinkTypesStep ==
  ASSUME ClientTypes, LinkTypes, ServerTypes, NEW c \in Clients, Placed(c), Wired(c),
         ClientStep(c) \/ launch_fails(c)
  PROVE  LinkTypes'
<1>0. <<>> \in Seq(Unit)
  BY EmptySeq
<1>1. ASSUME connect_refused(c) \/ launch_server(c) \/ launch_ack(c) \/ launch_fails(c)
      PROVE  LinkTypes'
  BY <1>1 DEF connect_refused, launch_server, launch_ack, launch_fails, LinkTypes, link
<1>2. ASSUME connect(c) PROVE LinkTypes'
  BY <1>2 DEF connect, LinkTypes, ServerTypes
<1>3. ASSUME write(c) PROVE LinkTypes'
  <2>1. Units(req[c]) \in Seq(Unit) /\ net' = [net EXCEPT ![c] = IF Alive(c) THEN Units(req[c]) ELSE <<>>]
    BY <1>3, Writing
  <2>. QED
    BY <1>0, <1>3, <2>1 DEF write, LinkTypes
<1>4. ASSUME Close(c) PROVE LinkTypes'
  BY <1>0, <1>4 DEF Close, LinkTypes
<1>5. ASSUME switch_status(c) PROVE LinkTypes'
  BY <1>5 DEF switch_status, LinkTypes
<1>. QED
  BY <1>1, <1>2, <1>3, <1>4, <1>5
     DEF ClientStep, version_status, kill_status, service_status

(* A command's step keeps the types of the servers.                        *)
LEMMA ServerTypesStep ==
  ASSUME ServerTypes, NEW c \in Clients, ClientStep(c) \/ launch_fails(c)
  PROVE  ServerTypes'
<1>0. ASSUME launch_fails(c) PROVE ServerTypes'
  BY <1>0, SMT DEF launch_fails, ServerTypes
<1>1. ASSUME launch_server(c) PROVE ServerTypes'
  BY <1>1 DEF launch_server, ServerTypes, Servers
<1>2. ASSUME UNCHANGED server PROVE ServerTypes'
  BY <1>2 DEF server, ServerTypes
<1>. QED
  BY <1>0, <1>1, <1>2 DEF ClientStep, connect_refused, connect, write, version_status,
     kill_status, switch_status, service_status, launch_ack

(* A server that reads and answers keeps the types.                        *)
LEMMA TypesServe ==
  ASSUME Types, NEW c \in Clients, Placed(c), Wired(c), Serve(c) \/ device_answers(c)
  PROVE  Types'
<1>0. <<>> \in Seq(Unit)
  BY EmptySeq
<1>1. ASSUME NEW n, enqueue_waits(c, n) PROVE Types'
  <2>1. Deliver(c, n) \in Seq(Unit) /\ SubSeq(net[c], n + 1, Len(net[c])) \in Seq(Unit)
    BY <1>1, Reading DEF enqueue_waits, Types
  <2>2. LinkTypes'
    BY <1>1, <2>1 DEF enqueue_waits, Types, LinkTypes
  <2>. QED
    BY <1>1, <2>2 DEF enqueue_waits, Types, ClientTypes, ServerTypes, command, client, server
<1>2. ASSUME NEW n, enqueue_handles(c, n) PROVE Types'
  <2>1. PICK status \in {"OKAY", "FAIL"}, info \in Versions \cup {Unknown, None} :
          /\ answer' = [answer EXCEPT ![c] = [req |-> req[c], status |-> status, info |-> info]]
          /\ req[c] = "host:version" =>
               info = sver[fd[c]] /\ (sver[fd[c]] # Unknown => status = "OKAY")
    BY <1>2, Handling DEF Types
  <2>2. /\ srv' = [srv EXCEPT ![fd[c]] = IF req[c] = "host:kill" THEN "dying" ELSE @]
        /\ pkt' = [pkt EXCEPT ![c] = <<>>] /\ net' = [net EXCEPT ![c] = <<>>]
        /\ bound' \subseteq Clients /\ req[c] \in Requests
        /\ UNCHANGED <<command, client, fd, opening, sver, port, acked, crashes>>
    BY <1>2, Handling DEF Types
  <2>3. LinkTypes'
    BY <1>0, <2>1, <2>2 DEF Types, LinkTypes, Answers
  <2>4. ServerTypes'
    BY <2>2 DEF Types, ServerTypes
  <2>. QED
    BY <2>2, <2>3, <2>4 DEF Types, ClientTypes, command, client
<1>3. ASSUME NEW n, connect_to_remote(c, n) PROVE Types'
  <2>1. /\ opening' = opening \cup {c}
        /\ pkt' = [pkt EXCEPT ![c] = <<>>] /\ net' = [net EXCEPT ![c] = <<>>]
        /\ UNCHANGED <<command, client, fd, answer, bound, server>>
    BY <1>3, Opening DEF Types
  <2>2. LinkTypes'
    BY <1>0, <2>1 DEF Types, LinkTypes
  <2>. QED
    BY <2>1, <2>2 DEF Types, ClientTypes, ServerTypes, command, client, server
<1>4. ASSUME device_answers(c) PROVE Types'
  <2>0. \A status \in {"OKAY", "FAIL"} : [req |-> "shell", status |-> status, info |-> None] \in Answers
    BY SMT DEF Answers, Requests
  <2>1. LinkTypes'
    <3>1. answer \in [Clients -> Answers \cup {None}] /\ opening \subseteq Clients
      BY DEF Types, LinkTypes
    <3>2. answer' \in [Clients -> Answers \cup {None}]
      BY <1>4, <2>0, <3>1 DEF device_answers, Reply
    <3>3. opening' \subseteq Clients /\ UNCHANGED <<fd, net, pkt, bound>>
      BY <1>4, <3>1 DEF device_answers
    <3>. QED
      BY <3>2, <3>3 DEF Types, LinkTypes
  <2>. QED
    BY <1>4, <2>1 DEF device_answers, Types, ClientTypes, ServerTypes, command, client, server
<1>. QED
  BY <1>1, <1>2, <1>3, <1>4 DEF Serve

(* A server that starts, exits or crashes keeps the types.                 *)
LEMMA TypesServer ==
  ASSUME Types, Owned, NEW s \in Servers, adb_main(s) \/ inform_parent(s) \/ exit(s) \/ crash(s)
  PROVE  Types'
<1>1. ServerTypes'
  <2>1. CASE adb_main(s)
    BY <2>1 DEF adb_main, Types, ServerTypes, Owned, Servers
  <2>2. CASE exit(s)
    BY <2>2 DEF exit, Types, ServerTypes
  <2>4. CASE inform_parent(s)
    BY <2>4 DEF inform_parent, Types, ServerTypes, Owned, Servers
  <2>3. CASE crash(s)
    BY <2>3, SMT DEF crash, Types, ServerTypes
  <2>. QED
    BY <2>1, <2>2, <2>3, <2>4
<1>2. UNCHANGED <<command, client, link>>
  BY DEF adb_main, inform_parent, exit, crash
<1>. QED
  BY <1>1, <1>2 DEF Types, ClientTypes, LinkTypes, command, client, link

(* Every step keeps the types.                                             *)
LEMMA TypesNext ==
  ASSUME Types, Wire, Owned, [Next]_vars
  PROVE  Types'
<1>1. ASSUME NEW c \in Clients, ClientStep(c) \/ launch_fails(c) PROVE Types'
  BY <1>1, ClientTypesStep, LinkTypesStep, ServerTypesStep DEF Types, Wire
<1>2. ASSUME NEW c \in Clients, Serve(c) \/ device_answers(c) PROVE Types'
  BY <1>2, TypesServe DEF Wire
<1>3. ASSUME NEW s \in Servers, adb_main(s) \/ inform_parent(s) \/ exit(s) \/ crash(s) PROVE Types'
  BY <1>3, TypesServer
<1>4. CASE UNCHANGED vars
  BY <1>4 DEF vars, command, client, link, server, Types, ClientTypes, LinkTypes, ServerTypes
<1>. QED
  BY <1>1, <1>2, <1>3, <1>4 DEF Next

---------------------------------------------------------------------------
(* Connections.                                                            *)

(* A server, once it has run, never starts again.                          *)
Forward ==
  \A s \in Servers : /\ srv[s] = "dead" => srv'[s] = "dead"
                     /\ srv[s] \in {"listening", "up", "dying"} => srv'[s] \in {"listening", "up", "dying", "dead"}

(* Every step takes a command, and a server, forward only.                 *)
LEMMA ForwardNext ==
  ASSUME Types, Wire, Owned, [Next]_vars
  PROVE  Forward
<1>0. srv \in [Servers -> {"none", "starting", "listening", "up", "dying", "dead"}]
  BY DEF Types, ServerTypes
<1>1. ASSUME UNCHANGED srv PROVE Forward
  BY <1>1 DEF Forward
<1>2. ASSUME NEW c \in Clients, launch_server(c) PROVE Forward
  <2>1. srv[c] = "none"
    BY <1>2 DEF launch_server, Owned
  <2>. QED
    BY <1>0, <1>2, <2>1 DEF launch_server, Forward
<1>3. ASSUME NEW c \in Clients, NEW n, enqueue_handles(c, n) PROVE Forward
  <2>1. /\ fd[c] \in Servers /\ srv[fd[c]] = "up"
        /\ srv' = [srv EXCEPT ![fd[c]] = IF req[c] = "host:kill" THEN "dying" ELSE @]
    BY <1>3, Handling DEF Types, Wire
  <2>. QED
    BY <1>0, <2>1 DEF Forward
<1>4. ASSUME NEW s \in Servers, adb_main(s) \/ inform_parent(s) \/ exit(s) \/ crash(s) PROVE Forward
  BY <1>0, <1>4 DEF adb_main, inform_parent, exit, crash, Forward
<1>5. ASSUME NEW c \in Clients, ClientStep(c) \/ launch_fails(c) PROVE launch_server(c) \/ UNCHANGED srv
  BY <1>5 DEF ClientStep, connect_refused, connect, write, version_status, kill_status,
              switch_status, service_status, launch_ack, launch_fails, server
<1>6. ASSUME NEW c \in Clients, Serve(c) \/ device_answers(c)
      PROVE  UNCHANGED srv \/ \E n \in 1..Size : enqueue_handles(c, n)
  BY <1>6 DEF Serve, enqueue_waits, connect_to_remote, device_answers, server
<1>7. CASE UNCHANGED vars
  BY <1>1, <1>7 DEF vars, server
<1>. QED
  BY <1>1, <1>2, <1>3, <1>4, <1>5, <1>6, <1>7 DEF Next

(* A command that nothing is done to stays as it is: a server it is        *)
(* connected to may only stop.                                             *)
LEMMA WireFrame ==
  ASSUME Types, Forward, NEW d \in Clients, Placed(d), Wired(d),
         at'[d] = at[d], stage'[d] = stage[d], req'[d] = req[d], fd'[d] = fd[d],
         net'[d] = net[d], pkt'[d] = pkt[d], answer'[d] = answer[d],
         d \in opening' <=> d \in opening
  PROVE  Placed(d)' /\ Wired(d)'
<1>1. Placed(d)'
  BY DEF Placed
<1>2. fd[d] \in Servers \cup {None} /\ srv \in [Servers -> {"none", "starting", "listening", "up", "dying", "dead"}]
  BY DEF Types, LinkTypes, ServerTypes
<1>3. fd[d] # None => srv'[fd[d]] \in {"listening", "up", "dying", "dead"}
  BY <1>2 DEF Wired, Forward
<1>4. stage[d] = "status" /\ Alive(d)' => Alive(d)
  BY <1>2, <1>3 DEF Wired, Forward, Alive
<1>5. stage'[d] = "status" /\ answer'[d] = None /\ Alive(d)' /\ d \notin opening'
        => pkt'[d] \o net'[d] = Units(req'[d])
  BY <1>4 DEF Wired
<1>. QED
  BY <1>1, <1>3, <1>5 DEF Wired

(* A command without a connection.                                         *)
LEMMA Unwired ==
  ASSUME NEW c \in Clients, fd'[c] = None, net'[c] = <<>>, pkt'[c] = <<>>, answer'[c] = None,
         stage'[c] \notin {"write", "status"}, c \notin opening'
  PROVE  Wired(c)'
<1>1. Len(<<>>) <= Size /\ Len(<<>>) < Size
  BY SMT DEF Size
<1>. QED
  BY <1>1 DEF Wired

(* The steps of a client: its own connection.                              *)
LEMMA WireOwn ==
  ASSUME Types, Owned, Forward, NEW c \in Clients, Placed(c), Wired(c),
         ClientStep(c) \/ launch_fails(c)
  PROVE  Placed(c)' /\ Wired(c)'
<1>0. /\ at \in [Clients -> {"version", "kill", "launch", "service", "done"}]
      /\ stage \in [Clients -> {"connect", "write", "status", "sleep", "ack", "done"}]
      /\ req \in [Clients -> Requests \cup {None}]
      /\ cmd \in [Clients -> Commands]
  BY DEF Types, ClientTypes
<1>1. /\ fd \in [Clients -> Servers \cup {None}] /\ net \in [Clients -> Seq(Unit)]
      /\ pkt \in [Clients -> Seq(Unit)] /\ answer \in [Clients -> Answers \cup {None}]
  BY DEF Types, LinkTypes
<1>2. stage[c] \notin {"write", "status"} =>
        fd[c] = None /\ net[c] = <<>> /\ pkt[c] = <<>> /\ answer[c] = None /\ c \notin opening
  BY DEF Wired
<1>3. ASSUME connect_refused(c) \/ launch_server(c) \/ launch_ack(c) \/ launch_fails(c)
      PROVE  Placed(c)' /\ Wired(c)'
  <2>1. stage[c] \notin {"write", "status"} /\ UNCHANGED link
    BY <1>3 DEF connect_refused, launch_server, launch_ack, launch_fails
  <2>2. /\ stage'[c] \in {"sleep", "ack"} <=> at'[c] = "launch"
        /\ stage'[c] = "done" <=> at'[c] = "done"
        /\ stage'[c] \notin {"write", "status"}
    <3>1. CASE connect_refused(c)
      BY <1>0, <3>1 DEF connect_refused, End, Move, Placed
    <3>2. CASE launch_server(c)
      BY <1>0, <3>2 DEF launch_server, Placed
    <3>3. CASE launch_ack(c)
      BY <1>0, <3>3 DEF launch_ack, End, Move, Placed
    <3>4. CASE launch_fails(c)
      BY <1>0, <3>4 DEF launch_fails, End, Move, Placed
    <3>. QED
      BY <1>3, <3>1, <3>2, <3>3, <3>4
  <2>3. fd'[c] = None /\ net'[c] = <<>> /\ pkt'[c] = <<>> /\ answer'[c] = None /\ c \notin opening'
    BY <1>2, <2>1 DEF link
  <2>4. Wired(c)'
    BY <2>2, <2>3, Unwired
  <2>. QED
    BY <2>2, <2>4 DEF Placed
<1>4. ASSUME connect(c) PROVE Placed(c)' /\ Wired(c)'
  <2>1. /\ stage[c] = "connect" /\ port # None /\ fd'[c] = port /\ stage'[c] = "write" /\ at'[c] = at[c]
        /\ req'[c] = FirstRequest(c) /\ UNCHANGED <<net, answer, pkt, opening, srv>>
    BY <1>0, <1>1, <1>4 DEF connect, server
  <2>2. at[c] \in {"version", "kill", "service"}
    BY <1>0, <2>1 DEF Placed
  <2>3. srv'[fd'[c]] \in {"listening", "up", "dying", "dead"}
    BY <2>1 DEF Owned
  <2>4. Placed(c)'
    BY <2>1, <2>2 DEF Placed, FirstRequest
  <2>5. net'[c] = <<>> /\ pkt'[c] = <<>> /\ answer'[c] = None /\ c \notin opening'
    BY <1>2, <2>1
  <2>6. Len(<<>>) <= Size /\ Len(<<>>) < Size
    BY SMT DEF Size
  <2>. QED
    BY <2>1, <2>3, <2>4, <2>5, <2>6 DEF Wired
<1>5. ASSUME write(c) PROVE Placed(c)' /\ Wired(c)'
  <2>1. /\ stage[c] = "write" /\ stage'[c] = "status"
        /\ c \notin opening /\ UNCHANGED <<at, req, fd, answer, pkt, opening, srv>>
    BY <1>0, <1>5 DEF write, server, Wired
  <2>2. /\ Units(req[c]) \in Seq(Unit) /\ Len(Units(req[c])) = 2
        /\ pkt[c] = <<>> /\ answer[c] = None
        /\ net' = [net EXCEPT ![c] = IF Alive(c) THEN Units(req[c]) ELSE <<>>]
    BY <1>5, Writing DEF Types
  <2>3. net'[c] = IF Alive(c) THEN Units(req[c]) ELSE <<>>
    BY <1>1, <2>2
  <2>4. <<>> \o Units(req[c]) = Units(req[c])
    BY <2>2, ConcatEmptySeq
  <2>5. Len(<<>>) <= Size /\ Len(<<>>) < Size /\ 2 <= Size
    BY SMT DEF Size
  <2>6. Alive(c)' <=> Alive(c)
    BY <2>1 DEF Alive
  <2>7. Placed(c)'
    BY <2>1 DEF Placed
  <2>8. fd[c] # None /\ srv[fd[c]] \in {"listening", "up", "dying", "dead"}
    BY <2>1 DEF Wired
  <2>9. Len(net'[c]) <= Size
    BY <2>2, <2>3, <2>5
  <2>10. Alive(c)' => pkt'[c] \o net'[c] = Units(req'[c])
    BY <2>1, <2>2, <2>3, <2>4, <2>6
  <2>. QED
    BY <2>1, <2>2, <2>5, <2>7, <2>8, <2>9, <2>10 DEF Wired
<1>6. ASSUME Close(c), Move(c, "done", "done") \/ Move(c, "kill", "connect")
               \/ Move(c, "service", "connect") \/ Move(c, "launch", "sleep")
      PROVE  Placed(c)' /\ Wired(c)'
  <2>1. /\ stage'[c] \in {"sleep", "ack"} <=> at'[c] = "launch"
        /\ stage'[c] = "done" <=> at'[c] = "done"
        /\ stage'[c] \notin {"write", "status"}
    BY <1>0, <1>6 DEF Move
  <2>2. fd'[c] = None /\ net'[c] = <<>> /\ pkt'[c] = <<>> /\ answer'[c] = None /\ c \notin opening'
    BY <1>1, <1>6 DEF Close
  <2>. QED
    BY <2>1, <2>2, Unwired DEF Placed
<1>7. ASSUME switch_status(c) PROVE Placed(c)' /\ Wired(c)'
  <2>1. /\ stage[c] = "status" /\ stage'[c] = "write" /\ at[c] = "service" /\ req'[c] = "shell"
        /\ answer[c] # None /\ answer'[c] = None
        /\ c \notin opening /\ UNCHANGED <<at, fd, net, pkt, opening, srv>>
    BY <1>0, <1>1, <1>7 DEF switch_status, Answered, Okay, server, Wired
  <2>2. net'[c] = <<>> /\ pkt'[c] = <<>> /\ fd[c] # None /\ srv[fd[c]] \in {"listening", "up", "dying", "dead"}
    BY <2>1 DEF Wired
  <2>3. Len(<<>>) <= Size /\ Len(<<>>) < Size
    BY SMT DEF Size
  <2>4. Placed(c)'
    BY <2>1 DEF Placed
  <2>. QED
    BY <2>1, <2>2, <2>3, <2>4 DEF Wired
<1>8. ASSUME version_status(c) \/ kill_status(c) \/ service_status(c) PROVE Placed(c)' /\ Wired(c)'
  <2>1. Close(c)
    BY <1>8 DEF version_status, kill_status, service_status
  <2>2. Move(c, "done", "done") \/ Move(c, "kill", "connect")
               \/ Move(c, "service", "connect") \/ Move(c, "launch", "sleep")
    BY <1>8 DEF version_status, kill_status, service_status, End
  <2>. QED
    BY <1>6, <2>1, <2>2
<1>. QED
  BY <1>3, <1>4, <1>5, <1>7, <1>8 DEF ClientStep

(* The server's side of a connection.                                      *)
LEMMA WireServe ==
  ASSUME Types, Forward, NEW c \in Clients, Placed(c), Wired(c), Serve(c) \/ device_answers(c)
  PROVE  Placed(c)' /\ Wired(c)'
<1>1. ASSUME NEW n, enqueue_waits(c, n) PROVE Placed(c)' /\ Wired(c)'
  <2>1. /\ stage[c] = "status" /\ answer[c] = None /\ fd[c] \in Servers /\ c \notin opening
        /\ Deliver(c, n) \o SubSeq(net[c], n + 1, Len(net[c])) = Units(req[c])
        /\ Len(Deliver(c, n)) \in Nat /\ Len(SubSeq(net[c], n + 1, Len(net[c]))) <= Size
    BY <1>1, Reading DEF enqueue_waits, Types
  <2>2. Len(Deliver(c, n)) < Size
    BY <1>1, <2>1, SMT DEF enqueue_waits, Complete, Size
  <2>3. net \in [Clients -> Seq(Unit)] /\ pkt \in [Clients -> Seq(Unit)]
    BY DEF Types, LinkTypes
  <2>4. pkt'[c] = Deliver(c, n) /\ net'[c] = SubSeq(net[c], n + 1, Len(net[c]))
    BY <1>1, <2>3 DEF enqueue_waits
  <2>5. UNCHANGED <<at, stage, req, fd, answer, opening, srv>>
    BY <1>1 DEF enqueue_waits, client, server
  <2>6. Placed(c)'
    BY <2>5 DEF Placed
  <2>7. fd[c] # None /\ srv[fd[c]] \in {"listening", "up", "dying", "dead"}
    BY <1>1 DEF enqueue_waits
  <2>8. pkt'[c] \o net'[c] = Units(req'[c]) /\ Len(net'[c]) <= Size /\ Len(pkt'[c]) < Size
    BY <2>1, <2>2, <2>4, <2>5
  <2>. QED
    BY <2>1, <2>5, <2>6, <2>7, <2>8 DEF Wired
<1>2. ASSUME NEW n, enqueue_handles(c, n) PROVE Placed(c)' /\ Wired(c)'
  <2>1. PICK status \in {"OKAY", "FAIL"}, info \in Versions \cup {Unknown, None} :
          /\ answer' = [answer EXCEPT ![c] = [req |-> req[c], status |-> status, info |-> info]]
          /\ req[c] = "host:version" =>
               info = sver[fd[c]] /\ (sver[fd[c]] # Unknown => status = "OKAY")
    BY <1>2, Handling DEF Types
  <2>2. /\ srv' = [srv EXCEPT ![fd[c]] = IF req[c] = "host:kill" THEN "dying" ELSE @]
        /\ pkt' = [pkt EXCEPT ![c] = <<>>] /\ net' = [net EXCEPT ![c] = <<>>]
        /\ stage[c] = "status" /\ req[c] \in Requests /\ fd[c] \in Servers /\ srv[fd[c]] = "up"
        /\ c \notin opening /\ UNCHANGED <<command, client, fd, opening, sver, port, acked, crashes>>
    BY <1>2, Handling DEF Types
  <2>3. /\ net \in [Clients -> Seq(Unit)] /\ pkt \in [Clients -> Seq(Unit)]
        /\ answer \in [Clients -> Answers \cup {None}]
        /\ srv \in [Servers -> {"none", "starting", "listening", "up", "dying", "dead"}]
    BY DEF Types, LinkTypes, ServerTypes
  <2>4. net'[c] = <<>> /\ pkt'[c] = <<>> /\ srv'[fd[c]] \in {"listening", "up", "dying", "dead"}
    BY <2>2, <2>3
  <2>5. answer'[c] = [req |-> req[c], status |-> status, info |-> info]
    BY <2>1, <2>3
  <2>6. answer'[c] \in Answers /\ answer'[c].req = req[c]
    BY <2>2, <2>5, SMT DEF Answers
  <2>7. answer'[c] # None
    BY <2>6, ClientAssumption
  <2>8. UNCHANGED <<at, stage, req, fd>>
    BY <2>2 DEF client
  <2>9. Placed(c)'
    BY <2>8 DEF Placed
  <2>10. Len(<<>>) <= Size /\ Len(<<>>) < Size
    BY SMT DEF Size
  <2>11. fd[c] # None
    BY <1>2 DEF enqueue_handles
  <2>. QED
    BY <2>2, <2>4, <2>6, <2>7, <2>8, <2>9, <2>10, <2>11 DEF Wired
<1>3. ASSUME NEW n, connect_to_remote(c, n) PROVE Placed(c)' /\ Wired(c)'
  <2>1. /\ stage[c] = "status" /\ answer[c] = None /\ req[c] = "shell"
        /\ fd[c] \in Servers /\ srv[fd[c]] = "up" /\ opening' = opening \cup {c}
        /\ pkt' = [pkt EXCEPT ![c] = <<>>] /\ net' = [net EXCEPT ![c] = <<>>]
        /\ UNCHANGED <<at, stage, req, fd, answer, srv>>
    BY <1>3, Opening DEF Types, client, server
  <2>2. net'[c] = <<>> /\ pkt'[c] = <<>>
    BY <2>1 DEF Types, LinkTypes
  <2>3. Len(<<>>) <= Size /\ Len(<<>>) < Size
    BY SMT DEF Size
  <2>4. Placed(c)'
    BY <2>1 DEF Placed
  <2>5. fd[c] # None
    BY <1>3 DEF connect_to_remote
  <2>. QED
    BY <2>1, <2>2, <2>3, <2>4, <2>5 DEF Wired
<1>4. ASSUME device_answers(c) PROVE Placed(c)' /\ Wired(c)'
  <2>1. /\ c \in opening /\ opening' = opening \ {c} /\ UNCHANGED <<at, stage, req, fd, net, pkt, srv>>
    BY <1>4 DEF device_answers, client, server
  <2>2. PICK status \in {"OKAY", "FAIL"} :
          answer' = [answer EXCEPT ![c] = [req |-> "shell", status |-> status, info |-> None]]
    BY <1>4 DEF device_answers, Reply
  <2>3. answer'[c] = [req |-> "shell", status |-> status, info |-> None]
    BY <2>2 DEF Types, LinkTypes
  <2>4. answer'[c] \in Answers /\ answer'[c].req = "shell"
    BY <2>3, SMT DEF Answers, Requests
  <2>5. answer'[c] # None
    BY <2>4, ClientAssumption
  <2>6. Placed(c)'
    BY <2>1 DEF Placed
  <2>7. /\ stage[c] = "status" /\ req[c] = "shell" /\ net[c] = <<>> /\ pkt[c] = <<>>
        /\ fd[c] # None /\ srv[fd[c]] \in {"listening", "up", "dying", "dead"}
        /\ Len(net[c]) <= Size /\ Len(pkt[c]) < Size
    BY <2>1 DEF Wired
  <2>. QED
    BY <2>1, <2>4, <2>5, <2>6, <2>7 DEF Wired
<1>. QED
  BY <1>1, <1>2, <1>3, <1>4 DEF Serve

(* Nobody touches the connections of another command.                      *)
LEMMA WireOthers ==
  ASSUME Types, NEW c \in Clients, Placed(c), Wired(c),
         ClientStep(c) \/ Serve(c) \/ device_answers(c) \/ launch_fails(c),
         NEW d \in Clients, d # c
  PROVE  /\ at'[d] = at[d] /\ stage'[d] = stage[d] /\ req'[d] = req[d] /\ fd'[d] = fd[d]
         /\ net'[d] = net[d] /\ pkt'[d] = pkt[d] /\ answer'[d] = answer[d]
         /\ victim'[d] = victim[d] /\ (d \in opening' <=> d \in opening)
<1>0. Types
  OBVIOUS
<1>1. CASE connect_refused(c) \/ launch_server(c) \/ launch_ack(c) \/ launch_fails(c)
  BY <1>0, <1>1 DEF connect_refused, launch_server, launch_ack, launch_fails, End, Move, link,
                    Types, ClientTypes
<1>2. CASE connect(c) \/ write(c) \/ switch_status(c)
  BY <1>0, <1>2, SMT DEF connect, write, switch_status, Types, ClientTypes, LinkTypes
<1>3. CASE version_status(c) \/ kill_status(c) \/ service_status(c)
  BY <1>0, <1>3, SMT DEF version_status, kill_status, service_status, End, Move, Close, Types,
                    ClientTypes, LinkTypes
<1>4. CASE \E n \in 1..Size : enqueue_waits(c, n)
  BY <1>0, <1>4 DEF enqueue_waits, client, Types, LinkTypes
<1>5. ASSUME NEW n \in 1..Size, enqueue_handles(c, n)
      PROVE  /\ at'[d] = at[d] /\ stage'[d] = stage[d] /\ req'[d] = req[d] /\ fd'[d] = fd[d]
             /\ net'[d] = net[d] /\ pkt'[d] = pkt[d] /\ answer'[d] = answer[d]
             /\ victim'[d] = victim[d] /\ (d \in opening' <=> d \in opening)
  <2>1. PICK status \in {"OKAY", "FAIL"}, info \in Versions \cup {Unknown, None} :
          /\ answer' = [answer EXCEPT ![c] = [req |-> req[c], status |-> status, info |-> info]]
          /\ req[c] = "host:version" =>
               info = sver[fd[c]] /\ (sver[fd[c]] # Unknown => status = "OKAY")
    BY <1>5, Handling DEF Types
  <2>2. /\ pkt' = [pkt EXCEPT ![c] = <<>>] /\ net' = [net EXCEPT ![c] = <<>>]
        /\ UNCHANGED <<client, fd, opening>>
    BY <1>5, Handling DEF Types
  <2>. QED
    BY <1>0, <2>1, <2>2 DEF client, Types, LinkTypes
<1>6. CASE \E n \in 1..Size : connect_to_remote(c, n)
  BY <1>0, <1>6 DEF connect_to_remote, client, Types, LinkTypes
<1>7. CASE device_answers(c)
  BY <1>0, <1>7 DEF device_answers, Reply, client, Types, LinkTypes
<1>. QED
  BY <1>1, <1>2, <1>3, <1>4, <1>5, <1>6, <1>7 DEF ClientStep, Serve

(* Every step keeps the wire: a connection holds its own request.          *)
LEMMA WireNext ==
  ASSUME Types, Wire, Owned, [Next]_vars
  PROVE  Wire'
<1>0. Forward
  BY ForwardNext
<1>1. ASSUME NEW c \in Clients, ClientStep(c) \/ Serve(c) \/ device_answers(c) \/ launch_fails(c),
             NEW d \in Clients
      PROVE  Placed(d)' /\ Wired(d)'
  <2>1. CASE d = c
    BY <1>0, <1>1, <2>1, WireOwn, WireServe DEF Wire
  <2>2. CASE d # c
    BY <1>0, <1>1, <2>2, WireOthers, WireFrame DEF Wire
  <2>. QED
    BY <2>1, <2>2
<1>2. ASSUME NEW s \in Servers, adb_main(s) \/ inform_parent(s) \/ exit(s) \/ crash(s), NEW d \in Clients
      PROVE  Placed(d)' /\ Wired(d)'
  BY <1>0, <1>2, WireFrame DEF Wire, adb_main, inform_parent, exit, crash, client, link
<1>3. ASSUME UNCHANGED vars, NEW d \in Clients PROVE Placed(d)' /\ Wired(d)'
  BY <1>0, <1>3, WireFrame DEF Wire, vars, client, link
<1>. QED
  BY <1>1, <1>2, <1>3 DEF Next, Wire

---------------------------------------------------------------------------
(* The rest of the inductive invariant of Client - who has the port, who   *)
(* will start a server, who may kill one - and the theorems.               *)

(* What a step does to the servers, and by whom.                           *)
LEMMA ServerSteps ==
  ASSUME Types, Wire, [Next]_vars
  PROVE  \/ UNCHANGED <<srv, sver, port, acked, crashes>>
         \/ \E c \in Clients :
              /\ srv[fd[c]] = "up" /\ at[c] = "kill" /\ stage[c] = "status" /\ fd[c] \in Servers
              /\ srv' = [srv EXCEPT ![fd[c]] = "dying"]
              /\ UNCHANGED <<client, fd, sver, port, acked, crashes>>
         \/ \E c \in Clients : launch_server(c) \/ launch_fails(c)
         \/ \E s \in Servers : adb_main(s) \/ inform_parent(s) \/ exit(s) \/ crash(s)
<1>1. ASSUME NEW c \in Clients, ClientStep(c)
      PROVE  UNCHANGED <<srv, sver, port, acked, crashes>> \/ launch_server(c)
  BY <1>1 DEF ClientStep, connect_refused, connect, write, version_status, kill_status,
     switch_status, service_status, launch_ack, server
<1>2. ASSUME NEW c \in Clients, NEW n,
             enqueue_waits(c, n) \/ connect_to_remote(c, n) \/ device_answers(c)
      PROVE  UNCHANGED <<srv, sver, port, acked, crashes>>
  BY <1>2 DEF enqueue_waits, connect_to_remote, device_answers, server
<1>3. ASSUME NEW c \in Clients, NEW n, enqueue_handles(c, n)
      PROVE  \/ UNCHANGED <<srv, sver, port, acked, crashes>>
             \/ /\ srv[fd[c]] = "up" /\ at[c] = "kill" /\ stage[c] = "status" /\ fd[c] \in Servers
                /\ srv' = [srv EXCEPT ![fd[c]] = "dying"]
                /\ UNCHANGED <<client, fd, sver, port, acked, crashes>>
  <2>1. /\ srv' = [srv EXCEPT ![fd[c]] = IF req[c] = "host:kill" THEN "dying" ELSE @]
        /\ stage[c] = "status" /\ fd[c] \in Servers /\ srv[fd[c]] = "up"
        /\ UNCHANGED <<client, fd, sver, port, acked, crashes>>
    BY <1>3, Handling DEF Types, Wire
  <2>2. srv \in [Servers -> {"none", "starting", "listening", "up", "dying", "dead"}]
        /\ at \in [Clients -> {"version", "kill", "launch", "service", "done"}]
    BY DEF Types, ServerTypes, ClientTypes
  <2>3. CASE req[c] = "host:kill"
    <3>1. at[c] = "kill"
      BY <2>1, <2>2, <2>3 DEF Wire, Placed
    <3>. QED
      BY <2>1, <2>3, <3>1 DEF client
  <2>4. CASE req[c] # "host:kill"
    BY <2>1, <2>2, <2>4
  <2>. QED
    BY <2>3, <2>4
<1>4. CASE UNCHANGED vars
  BY <1>4 DEF vars, server
<1>. QED
  BY <1>1, <1>2, <1>3, <1>4 DEF Next, Serve

(* What a step does to a command's place, when it does not start a server. *)
LEMMA PlaceSteps ==
  ASSUME Types, Wire, [Next]_vars, NEW c \in Clients
  PROVE  \/ at'[c] = at[c] /\ (stage'[c] = "sleep" <=> stage[c] = "sleep")
         \/ at[c] = "version" /\ at'[c] \in {"kill", "service", "done"} /\ stage[c] = "status"
              /\ stage'[c] # "sleep"
         \/ at[c] \in {"version", "kill"} /\ at'[c] = "launch" /\ stage'[c] = "sleep"
         \/ at[c] = "kill" /\ cmd[c] = "kill-server" /\ at'[c] = "done" /\ stage'[c] # "sleep"
         \/ at[c] = "service" /\ at'[c] = "done" /\ stage'[c] # "sleep"
         \/ launch_server(c) /\ at'[c] = "launch" /\ stage'[c] = "ack"
         \/ launch_ack(c) /\ at'[c] \in {"service", "done"} /\ stage'[c] # "sleep"
         \/ launch_fails(c) /\ at'[c] = "done" /\ stage'[c] # "sleep"
<1>0. /\ at \in [Clients -> {"version", "kill", "launch", "service", "done"}]
      /\ stage \in [Clients -> {"connect", "write", "status", "sleep", "ack", "done"}]
  BY DEF Types, ClientTypes
<1>1. CASE connect_refused(c)
  BY <1>0, <1>1 DEF connect_refused, End, Move, Wire, Placed
<1>2. CASE connect(c) \/ write(c) \/ switch_status(c)
  BY <1>0, <1>2 DEF connect, write, switch_status, Answered
<1>3. CASE version_status(c)
  BY <1>0, <1>3 DEF version_status, End, Move, Answered
<1>4. CASE kill_status(c)
  BY <1>0, <1>4 DEF kill_status, End, Move
<1>5. CASE service_status(c)
  BY <1>0, <1>5 DEF service_status, End, Move
<1>6. CASE launch_server(c)
  BY <1>0, <1>6 DEF launch_server
<1>7. CASE launch_ack(c)
  BY <1>0, <1>7 DEF launch_ack, End, Move
<1>8. ASSUME NEW d \in Clients, d # c, ClientStep(d) \/ Serve(d) \/ device_answers(d) \/ launch_fails(d)
      PROVE  at'[c] = at[c] /\ stage'[c] = stage[c]
  BY <1>8, WireOthers DEF Wire
<1>9. CASE Serve(c) \/ device_answers(c)
  BY <1>9 DEF Serve, enqueue_waits, enqueue_handles, connect_to_remote, device_answers, client
<1>10. CASE \E s \in Servers : adb_main(s) \/ inform_parent(s) \/ exit(s) \/ crash(s)
  BY <1>10 DEF adb_main, inform_parent, exit, crash, client
<1>11. CASE UNCHANGED vars
  BY <1>11 DEF vars, client
<1>12. CASE launch_fails(c)
  BY <1>0, <1>12 DEF launch_fails, End, Move
<1>. QED
  BY <1>1, <1>2, <1>3, <1>4, <1>5, <1>6, <1>7, <1>8, <1>9, <1>10, <1>11, <1>12
     DEF Next, ClientStep

---------------------------------------------------------------------------
(* Every step keeps one server at most on the port.                        *)
LEMMA OwnedNext ==
  ASSUME Types, Wire, Owned, [Next]_vars
  PROVE  Owned'
<1>0. /\ srv \in [Servers -> {"none", "starting", "listening", "up", "dying", "dead"}]
      /\ Clients \subseteq Servers /\ acked \subseteq Clients /\ Resident \in Servers
      /\ port \in Servers \cup {None} /\ None \notin Servers /\ Resident \notin Clients
  BY ClientAssumption DEF Types, ServerTypes, Servers
<1>1. \A c \in Clients : at'[c] \in {"version", "kill"} \/ stage'[c] = "sleep" =>
        srv[c] = "none" /\ ~launch_server(c)
  <2>. SUFFICES ASSUME NEW c \in Clients, at'[c] \in {"version", "kill"} \/ stage'[c] = "sleep"
               PROVE  srv[c] = "none" /\ ~launch_server(c)
    OBVIOUS
  <2>1. at[c] \in {"version", "kill"} \/ stage[c] = "sleep"
    BY PlaceSteps DEF launch_ack
  <2>2. launch_server(c) => at'[c] = "launch" /\ stage'[c] = "ack"
    BY DEF launch_server, Types, ClientTypes
  <2>. QED
    BY <2>1, <2>2 DEF Owned
<1>2. CASE UNCHANGED <<srv, sver, port, acked, crashes>>
  BY <1>1, <1>2 DEF Owned
<1>3. ASSUME NEW c \in Clients,
             srv[fd[c]] = "up", fd[c] \in Servers,
             srv' = [srv EXCEPT ![fd[c]] = "dying"], UNCHANGED <<port, acked>>
      PROVE  Owned'
  <2>1. port # None => srv'[port] \in {"listening", "up", "dying"}
    BY <1>0, <1>3 DEF Owned
  <2>2. \A s \in Servers : srv'[s] \in {"listening", "up", "dying"} => port = s
    BY <1>0, <1>3 DEF Owned
  <2>3. \A s \in acked : srv'[s] \notin {"none", "starting"}
    BY <1>0, <1>3 DEF Owned
  <2>4. \A d \in Clients : srv[d] = "none" => srv'[d] = "none"
    BY <1>0, <1>3
  <2>5. srv'[Resident] \notin {"starting", "listening"}
    BY <1>0, <1>3 DEF Owned
  <2>. QED
    BY <1>1, <1>3, <2>1, <2>2, <2>3, <2>4, <2>5 DEF Owned
<1>4. ASSUME NEW c \in Clients, launch_server(c) PROVE Owned'
  <2>1. /\ srv[c] = "none" /\ srv' = [srv EXCEPT ![c] = "starting"]
        /\ UNCHANGED <<port, acked>>
    BY <1>4 DEF launch_server, Owned
  <2>2. \A d \in Clients : d # c /\ srv[d] = "none" => srv'[d] = "none"
    BY <1>0, <2>1
  <2>3. /\ port # None => srv'[port] \in {"listening", "up", "dying"}
        /\ \A s \in Servers : srv'[s] \in {"listening", "up", "dying"} => port = s
        /\ \A s \in acked : srv'[s] \notin {"none", "starting"}
        /\ srv'[Resident] \notin {"starting", "listening"}
    BY <1>0, <2>1 DEF Owned
  <2>. QED
    BY <1>1, <1>4, <2>1, <2>2, <2>3 DEF Owned
<1>7. ASSUME NEW c \in Clients, launch_fails(c) PROVE Owned'
  BY <1>1, <1>7 DEF launch_fails, Owned
<1>8. ASSUME NEW s \in Servers, inform_parent(s) PROVE Owned'
  <2>1. /\ srv[s] = "listening" /\ srv' = [srv EXCEPT ![s] = "up"] /\ port' = port
        /\ acked' = acked \cup {s}
    BY <1>8 DEF inform_parent
  <2>2. \A d \in Clients : srv[d] = "none" => srv'[d] = "none"
    BY <1>0, <2>1
  <2>3. /\ port' # None => srv'[port'] \in {"listening", "up", "dying"}
        /\ \A t \in Servers : srv'[t] \in {"listening", "up", "dying"} => port' = t
    BY <1>0, <2>1 DEF Owned
  <2>4. (\A t \in acked' : srv'[t] \notin {"none", "starting"}) /\ srv'[Resident] \notin {"starting", "listening"}
    BY <1>0, <2>1 DEF Owned
  <2>. QED
    BY <1>1, <2>1, <2>2, <2>3, <2>4 DEF Owned
<1>5. ASSUME NEW s \in Servers, adb_main(s) PROVE Owned'
  <2>1. \A d \in Clients : srv[d] = "none" => srv'[d] = "none"
    BY <1>0, <1>5 DEF adb_main
  <2>2. /\ port' # None => srv'[port'] \in {"listening", "up", "dying"}
        /\ \A t \in Servers : srv'[t] \in {"listening", "up", "dying"} => port' = t
    BY <1>0, <1>5 DEF adb_main, Owned
  <2>3. \A t \in acked' : srv'[t] \notin {"none", "starting"}
    BY <1>0, <1>5 DEF adb_main, Owned
  <2>4. srv'[Resident] \notin {"starting", "listening"}
    BY <1>0, <1>5 DEF adb_main, Owned
  <2>. QED
    BY <1>1, <2>1, <2>2, <2>3, <2>4 DEF Owned
<1>6. ASSUME NEW s \in Servers, exit(s) \/ crash(s) PROVE Owned'
  <2>1. /\ srv[s] \in {"listening", "up", "dying"} /\ srv' = [srv EXCEPT ![s] = "dead"] /\ port' = None
        /\ acked' = acked
    BY <1>6 DEF exit, crash
  <2>2. \A d \in Clients : srv[d] = "none" => srv'[d] = "none"
    BY <1>0, <2>1
  <2>3. \A t \in Servers : srv'[t] \in {"listening", "up", "dying"} => port' = t
    BY <1>0, <2>1 DEF Owned
  <2>4. (\A t \in acked' : srv'[t] \notin {"none", "starting"}) /\ srv'[Resident] \notin {"starting", "listening"}
    BY <1>0, <2>1 DEF Owned
  <2>. QED
    BY <1>1, <2>1, <2>2, <2>3, <2>4 DEF Owned
<1>. QED
  BY <1>2, <1>3, <1>4, <1>5, <1>6, <1>7, <1>8, ServerSteps

(* A command keeps its service and its version, a server its version.      *)
LEMMA CommandConstant ==
  ASSUME [Next]_vars
  PROVE  cmd' = cmd /\ ver' = ver /\ sver' = sver
<1>1. ASSUME NEW c \in Clients, ClientStep(c) \/ launch_fails(c)
      PROVE  cmd' = cmd /\ ver' = ver /\ sver' = sver
  BY <1>1 DEF ClientStep, connect_refused, connect, write, version_status, kill_status,
     switch_status, service_status, launch_server, launch_ack, launch_fails, server, command
<1>2. ASSUME NEW c \in Clients, Serve(c) \/ device_answers(c)
      PROVE  cmd' = cmd /\ ver' = ver /\ sver' = sver
  BY <1>2 DEF Serve, enqueue_waits, enqueue_handles, connect_to_remote, device_answers, server, command
<1>3. ASSUME NEW s \in Servers, adb_main(s) \/ inform_parent(s) \/ exit(s) \/ crash(s)
      PROVE  cmd' = cmd /\ ver' = ver /\ sver' = sver
  BY <1>3 DEF adb_main, inform_parent, exit, crash, command
<1>4. CASE UNCHANGED vars
  BY <1>4 DEF vars, command, server
<1>. QED
  BY <1>1, <1>2, <1>3, <1>4 DEF Next

---------------------------------------------------------------------------
Killer(c) == at[c] = "kill" \/ stage[c] = "sleep"

(* Who has killed a server starts one, after that one has exited.          *)
LEMMA KillerStays ==
  ASSUME Types, Wire, [Next]_vars, NEW c \in Clients, Killer(c), cmd[c] # "kill-server"
  PROVE  Killer(c)' \/ (launch_server(c) /\ at'[c] = "launch") \/ launch_fails(c)
<1>1. stage[c] = "sleep" => at[c] = "launch"
  BY DEF Wire, Placed
<1>. QED
  BY <1>1, PlaceSteps DEF Killer, launch_ack

(* A command that looked for a server and finds none starts one.           *)
LEMMA LookingStays ==
  ASSUME Types, Wire, [Next]_vars, port = None,
         NEW c \in Clients, at[c] = "version", stage[c] = "connect"
  PROVE  (at'[c] = "version" /\ stage'[c] = "connect") \/ Killer(c)'
<1>1. CASE connect_refused(c)
  BY <1>1 DEF connect_refused, Move, Killer, Types, ClientTypes
<1>2. CASE ClientStep(c) /\ ~connect_refused(c)
  BY <1>2 DEF ClientStep, connect, write, version_status, kill_status, switch_status,
     service_status, launch_server, launch_ack, Answered
<1>3. ASSUME NEW d \in Clients, d # c, ClientStep(d) \/ Serve(d) \/ device_answers(d) \/ launch_fails(d)
      PROVE  at'[c] = at[c] /\ stage'[c] = stage[c]
  BY <1>3, WireOthers DEF Wire
<1>4. CASE Serve(c) \/ device_answers(c)
  BY <1>4 DEF Serve, enqueue_waits, enqueue_handles, connect_to_remote, device_answers, client
<1>5. CASE \E s \in Servers : adb_main(s) \/ inform_parent(s) \/ exit(s) \/ crash(s)
  BY <1>5 DEF adb_main, inform_parent, exit, crash, client
<1>6. CASE UNCHANGED vars
  BY <1>6 DEF vars, client
<1>7. ~launch_fails(c)
  BY DEF launch_fails
<1>. QED
  BY <1>1, <1>2, <1>3, <1>4, <1>5, <1>6, <1>7 DEF Next

(* A command whose server is about to take the port waits for it.          *)
LEMMA StarterStays ==
  ASSUME Types, Wire, Owned, [Next]_vars, port = None, port' = None,
         NEW c \in Clients, at[c] = "launch", srv[c] = "starting"
  PROVE  at'[c] = "launch" /\ srv'[c] = "starting"
<1>0. /\ srv \in [Servers -> {"none", "starting", "listening", "up", "dying", "dead"}] /\ c \in Servers
      /\ None \notin Servers
  BY ClientAssumption DEF Types, ServerTypes, Servers
<1>1. ~launch_ack(c) /\ ~launch_fails(c)
  BY DEF launch_ack, launch_fails, Owned
<1>2. at'[c] = "launch"
  BY <1>1, PlaceSteps
<1>3. ASSUME NEW d \in Clients, launch_server(d) PROVE srv'[c] = "starting"
  BY <1>0, <1>3 DEF launch_server
<1>4. ASSUME NEW s \in Servers, adb_main(s) PROVE FALSE
  BY <1>0, <1>4 DEF adb_main
<1>5. ASSUME NEW s \in Servers, inform_parent(s) \/ exit(s) \/ crash(s) PROVE srv'[c] = "starting"
  BY <1>0, <1>5 DEF inform_parent, exit, crash
<1>6. ASSUME NEW d \in Clients, srv[fd[d]] = "up", fd[d] \in Servers,
             srv' = [srv EXCEPT ![fd[d]] = "dying"]
      PROVE  srv'[c] = "starting"
  BY <1>0, <1>6
<1>7. ASSUME NEW d \in Clients, launch_fails(d) PROVE srv'[c] = "starting"
  BY <1>7 DEF launch_fails
<1>. QED
  BY <1>2, <1>3, <1>4, <1>5, <1>6, <1>7, ServerSteps

(* Who has asked a server to exit starts no other while it exits.          *)
LEMMA KillsStays ==
  ASSUME Types, Wire, [Next]_vars, NEW c \in Clients, NEW s \in Servers, Kills(c, s),
         srv[s] = "dying", cmd[c] # "kill-server"
  PROVE  Kills(c, s)'
<1>0. /\ at \in [Clients -> {"version", "kill", "launch", "service", "done"}]
      /\ stage \in [Clients -> {"connect", "write", "status", "sleep", "ack", "done"}]
      /\ victim \in [Clients -> Servers \cup {None}] /\ None \notin Servers
  BY ClientAssumption DEF Types, ClientTypes
<1>1. ASSUME UNCHANGED <<at, stage, victim, fd>> PROVE Kills(c, s)'
  BY <1>1 DEF Kills
<1>2. CASE kill_status(c)
  <2>1. stage[c] = "status" /\ fd[c] = s
    BY <1>2 DEF kill_status, Answered, Kills
  <2>2. stage'[c] = "sleep" /\ victim'[c] = s
    BY <1>0, <1>2, <2>1 DEF kill_status, Move
  <2>. QED
    BY <2>2 DEF Kills
<1>3. ~connect_refused(c) /\ ~connect(c) /\ ~write(c) /\ ~launch_ack(c)
  BY DEF connect_refused, connect, write, launch_ack, Kills
<1>4. ~version_status(c) /\ ~switch_status(c) /\ ~service_status(c)
  BY DEF version_status, switch_status, service_status, Answered, Kills
<1>5. ~launch_server(c) /\ ~launch_fails(c)
  BY <1>0 DEF launch_server, launch_fails, Exited, Kills
<1>6. ASSUME NEW d \in Clients, d # c,
             ClientStep(d) \/ Serve(d) \/ device_answers(d) \/ launch_fails(d)
      PROVE  Kills(c, s)'
  <2>1. at'[c] = at[c] /\ stage'[c] = stage[c] /\ fd'[c] = fd[c] /\ victim'[c] = victim[c]
    BY <1>6, WireOthers DEF Wire
  <2>. QED
    BY <2>1 DEF Kills
<1>7. CASE Serve(c) \/ device_answers(c)
  BY <1>1, <1>7 DEF Serve, enqueue_waits, enqueue_handles, connect_to_remote, device_answers, client
<1>8. CASE \E t \in Servers : adb_main(t) \/ inform_parent(t) \/ exit(t) \/ crash(t)
  BY <1>1, <1>8 DEF adb_main, inform_parent, exit, crash, client, link
<1>9. CASE UNCHANGED vars
  BY <1>1, <1>9 DEF vars, client, link
<1>. QED
  BY <1>2, <1>3, <1>4, <1>5, <1>6, <1>7, <1>8, <1>9 DEF Next, ClientStep

(* Every step keeps a server owed while nobody has the port.               *)
LEMMA ReplacedNext ==
  ASSUME Types, Wire, Owned, Replaced, [Next]_vars
  PROVE  Replaced'
<1>0. /\ srv \in [Servers -> {"none", "starting", "listening", "up", "dying", "dead"}]
      /\ Clients \subseteq Servers /\ None \notin Servers /\ crashes \in Nat
  BY ClientAssumption DEF Types, ServerTypes, Servers
<1>. SUFFICES ASSUME \A c \in Clients : cmd'[c] # "kill-server", crashes' = 0
     PROVE  /\ port' = None => \E c \in Clients : Owes(c)'
            /\ \A s \in Servers : srv'[s] = "dying" => \E c \in Clients : Kills(c, s)'
  BY DEF Replaced
<1>1. crashes = 0 /\ ~(\E s \in Servers : crash(s)) /\ ~(\E c \in Clients : launch_fails(c))
  <2>1. ASSUME NEW s \in Servers, crash(s) PROVE FALSE
    BY <1>0, <2>1, SMT DEF crash
  <2>3. ASSUME NEW c \in Clients, launch_fails(c) PROVE FALSE
    BY <1>0, <2>3, SMT DEF launch_fails
  <2>2. crashes' = crashes
    BY <2>1, <2>3, ServerSteps DEF launch_server, adb_main, inform_parent, exit
  <2>. QED
    BY <2>1, <2>2, <2>3
<1>2. \A c \in Clients : cmd[c] # "kill-server"
  BY CommandConstant
<1>3. /\ port = None => \E c \in Clients : Owes(c)
      /\ \A s \in Servers : srv[s] = "dying" => \E c \in Clients : Kills(c, s)
  BY <1>1, <1>2 DEF Replaced
<1>4. ASSUME NEW s \in Servers, srv'[s] = "dying" PROVE \E c \in Clients : Kills(c, s)'
  <2>1. CASE srv[s] = "dying"
    BY <1>2, <1>3, <2>1, KillsStays
  <2>2. CASE srv[s] # "dying"
    <3>1. ASSUME NEW c \in Clients, launch_server(c) PROVE FALSE
      BY <1>0, <1>4, <2>2, <3>1 DEF launch_server
    <3>2. ASSUME NEW t \in Servers, adb_main(t) \/ inform_parent(t) \/ exit(t) PROVE FALSE
      BY <1>0, <1>4, <2>2, <3>2 DEF adb_main, inform_parent, exit
    <3>3. PICK c \in Clients :
              /\ srv[fd[c]] = "up" /\ at[c] = "kill" /\ stage[c] = "status" /\ fd[c] \in Servers
              /\ srv' = [srv EXCEPT ![fd[c]] = "dying"]
              /\ UNCHANGED <<client, fd, sver, port, acked, crashes>>
      BY <1>1, <1>4, <2>2, <3>1, <3>2, ServerSteps
    <3>4. fd[c] = s
      BY <1>0, <1>4, <2>2, <3>3
    <3>. QED
      BY <3>3, <3>4 DEF Kills, client
  <2>. QED
    BY <2>1, <2>2
<1>5. ASSUME port' = None PROVE \E c \in Clients : Owes(c)'
  <2>1. CASE port # None
    <3>1. ASSUME NEW s \in Servers, exit(s) PROVE \E c \in Clients : Owes(c)'
      <4>1. srv[s] = "dying" /\ at' = at /\ stage' = stage
        BY <3>1 DEF exit, client
      <4>. QED
        BY <1>3, <4>1 DEF Kills, Owes
    <3>2. ASSUME NEW s \in Servers, adb_main(s) \/ inform_parent(s) PROVE FALSE
      BY <1>0, <1>5, <2>1, <3>2 DEF adb_main, inform_parent
    <3>. QED
      BY <1>1, <1>5, <2>1, <3>1, <3>2, ServerSteps DEF launch_server
  <2>2. ASSUME port = None, NEW c \in Clients, Owes(c) PROVE Owes(c)'
    <3>1. CASE at[c] = "version" /\ stage[c] = "connect"
      BY <2>2, <3>1, LookingStays DEF Killer, Owes
    <3>2. CASE Killer(c)
      <4>1. launch_server(c) => srv'[c] = "starting"
        BY <1>0 DEF launch_server
      <4>. QED
        BY <1>1, <1>2, <3>2, <4>1, KillerStays DEF Killer, Owes
    <3>3. CASE at[c] = "launch" /\ srv[c] = "starting"
      BY <1>5, <2>2, <3>3, StarterStays DEF Owes
    <3>. QED
      BY <2>2, <3>1, <3>2, <3>3 DEF Owes, Killer
  <2>. QED
    BY <1>3, <2>1, <2>2
<1>. QED
  BY <1>4, <1>5

---------------------------------------------------------------------------
(* All versions are equal when everybody's is the resident server's.       *)
LEMMA OneVersion ==
  ASSUME Types, Agreed, SameVersion, NEW c \in Clients, NEW s \in Servers
  PROVE  sver[s] = ver[c] /\ sver[s] # Unknown
<1>1. ver[c] \in Versions /\ Unknown \notin Versions
  BY ClientAssumption DEF Types, ClientTypes
<1>2. sver[s] = ver[c]
  BY DEF Agreed, SameVersion, Servers
<1>. QED
  BY <1>1, <1>2

(* Of commands of one version none gets to killing a server.               *)
LEMMA AgreedPlace ==
  ASSUME Types, Wire, Agreed, SameVersion, [Next]_vars, NEW c \in Clients
  PROVE  at'[c] # "kill"
<1>0. /\ at \in [Clients -> {"version", "kill", "launch", "service", "done"}] /\ at[c] # "kill"
      /\ cmd[c] # "kill-server"
  BY DEF Types, ClientTypes, Agreed, SameVersion
<1>1. CASE version_status(c)
  <2>1. ~Lost(c) => ~OutOfDate(c)
    BY <1>1 DEF version_status, Answered, OutOfDate, Okay, Agreed
  <2>. QED
    BY <1>0, <1>1, <2>1 DEF version_status, End, Move
<1>2. CASE ~version_status(c)
  <2>1. CASE ClientStep(c)
    BY <1>0, <1>2, <2>1 DEF ClientStep, connect_refused, connect, write, kill_status,
       switch_status, service_status, launch_server, launch_ack, End, Move
  <2>6. CASE launch_fails(c)
    BY <1>0, <2>6 DEF launch_fails, End, Move
  <2>2. ASSUME NEW d \in Clients, d # c, ClientStep(d) \/ Serve(d) \/ device_answers(d) \/ launch_fails(d) PROVE at'[c] = at[c]
    BY <2>2, WireOthers DEF Wire
  <2>3. CASE Serve(c) \/ device_answers(c)
    BY <1>0, <2>3 DEF Serve, enqueue_waits, enqueue_handles, connect_to_remote, device_answers, client
  <2>4. CASE \E s \in Servers : adb_main(s) \/ inform_parent(s) \/ exit(s) \/ crash(s)
    BY <1>0, <2>4 DEF adb_main, inform_parent, exit, crash, client
  <2>5. CASE UNCHANGED vars
    BY <1>0, <2>5 DEF vars, client
  <2>. QED
    BY <1>0, <2>1, <2>2, <2>3, <2>4, <2>5, <2>6 DEF Next
<1>. QED
  BY <1>1, <1>2

(* Commands of one version are told that version.                          *)
LEMMA AgreedAnswer ==
  ASSUME Types, Wire, Agreed, SameVersion, [Next]_vars, NEW c \in Clients,
         answer'[c] # None, at'[c] = "version"
  PROVE  answer'[c].status = "OKAY" /\ answer'[c].info = ver[c]
<1>0. /\ answer \in [Clients -> Answers \cup {None}]
      /\ at \in [Clients -> {"version", "kill", "launch", "service", "done"}]
  BY DEF Types, LinkTypes, ClientTypes
<1>1. at[c] = "version"
  BY PlaceSteps
<1>2. ASSUME answer'[c] = answer[c] PROVE answer'[c].status = "OKAY" /\ answer'[c].info = ver[c]
  BY <1>1, <1>2 DEF Agreed
<1>3. ASSUME NEW n, enqueue_handles(c, n)
      PROVE  answer'[c].status = "OKAY" /\ answer'[c].info = ver[c]
  <2>1. PICK status \in {"OKAY", "FAIL"}, info \in Versions \cup {Unknown, None} :
          /\ answer' = [answer EXCEPT ![c] = [req |-> req[c], status |-> status, info |-> info]]
          /\ req[c] = "host:version" =>
               info = sver[fd[c]] /\ (sver[fd[c]] # Unknown => status = "OKAY")
    BY <1>3, Handling DEF Types, Wire
  <2>2. fd[c] \in Servers /\ stage[c] = "status"
    BY <1>3, Handling DEF Types, Wire
  <2>3. req[c] = "host:version"
    BY <1>1, <2>2 DEF Wire, Placed
  <2>4. sver[fd[c]] = ver[c] /\ sver[fd[c]] # Unknown
    BY <2>2, OneVersion
  <2>. QED
    BY <1>0, <2>1, <2>3, <2>4
<1>4. CASE ClientStep(c) \/ launch_fails(c)
  <2>1. answer'[c] = answer[c] \/ answer'[c] = None
    BY <1>0, <1>4 DEF ClientStep, connect_refused, connect, write, version_status, kill_status,
       switch_status, service_status, launch_server, launch_ack, launch_fails, Close, link
  <2>. QED
    BY <1>2, <2>1
<1>5. ASSUME NEW d \in Clients, d # c, ClientStep(d) \/ Serve(d) \/ device_answers(d) \/ launch_fails(d) PROVE answer'[c] = answer[c]
  BY <1>5, WireOthers DEF Wire
<1>6. ASSUME NEW n, enqueue_waits(c, n) \/ connect_to_remote(c, n) PROVE answer'[c] = answer[c]
  BY <1>6 DEF enqueue_waits, connect_to_remote
<1>9. ASSUME device_answers(c) PROVE FALSE
  <2>1. stage[c] = "status" /\ req[c] = "shell"
    BY <1>9 DEF device_answers, Wire, Wired
  <2>. QED
    BY <1>1, <2>1 DEF Wire, Placed
<1>7. CASE \E s \in Servers : adb_main(s) \/ inform_parent(s) \/ exit(s) \/ crash(s)
  BY <1>2, <1>7 DEF adb_main, inform_parent, exit, crash, link
<1>8. CASE UNCHANGED vars
  BY <1>2, <1>8 DEF vars, link
<1>. QED
  BY <1>2, <1>3, <1>4, <1>5, <1>6, <1>7, <1>8, <1>9 DEF Next, Serve

(* Every step keeps commands of one version in agreement.                  *)
LEMMA AgreedNext ==
  ASSUME Types, Wire, Owned, Agreed, [Next]_vars
  PROVE  Agreed'
<1>1. cmd' = cmd /\ ver' = ver /\ sver' = sver
  BY CommandConstant
<1>2. SameVersion' <=> SameVersion
  BY <1>1 DEF SameVersion
<1>3. ASSUME SameVersion, NEW s \in Servers PROVE srv'[s] # "dying"
  <2>0. /\ srv \in [Servers -> {"none", "starting", "listening", "up", "dying", "dead"}]
        /\ \A t \in Servers : srv[t] # "dying"
    BY <1>3 DEF Types, ServerTypes, Agreed
  <2>1. \A c \in Clients : at[c] # "kill"
    BY <1>3 DEF Agreed
  <2>2. ASSUME NEW c \in Clients, launch_server(c) PROVE srv'[s] # "dying"
    BY <2>0, <2>2 DEF launch_server
  <2>3. ASSUME NEW t \in Servers, adb_main(t) \/ inform_parent(t) \/ exit(t) \/ crash(t) PROVE srv'[s] # "dying"
    BY <2>0, <2>3 DEF adb_main, inform_parent, exit, crash
  <2>4. ASSUME NEW c \in Clients, launch_fails(c) PROVE srv'[s] # "dying"
    BY <2>0, <2>4 DEF launch_fails
  <2>. QED
    BY <2>0, <2>1, <2>2, <2>3, <2>4, ServerSteps
<1>4. (\A c \in Clients : sver[c] = ver[c])'
  BY <1>1 DEF Agreed
<1>5. ASSUME SameVersion, NEW c \in Clients
      PROVE  /\ at'[c] # "kill"
             /\ answer'[c] # None /\ at'[c] = "version" =>
                  answer'[c].status = "OKAY" /\ answer'[c].info = ver'[c]
  BY <1>1, <1>5, AgreedPlace, AgreedAnswer
<1>. QED
  BY <1>2, <1>3, <1>4, <1>5 DEF Agreed

---------------------------------------------------------------------------
(* The invariant holds at the start.                                       *)
LEMMA InitIInv == Init => IInv
<1>. SUFFICES ASSUME Init PROVE IInv
  OBVIOUS
<1>0. Init /\ <<>> \in Seq(Unit) /\ 0 \in Nat
  BY EmptySeq
<1>1. ClientTypes
  BY <1>0, SMT DEF Init, ClientTypes
<1>2. LinkTypes
  BY <1>0, SMT DEF Init, LinkTypes
<1>3. ServerTypes
  <2>1. sver \in [Servers -> Versions \cup {Unknown}]
    BY <1>0, <1>1, SMT DEF Init, Servers, ClientTypes
  <2>2. srv \in [Servers -> {"none", "starting", "listening", "up", "dying", "dead"}] /\ port \in Servers \cup {None}
    BY <1>0, SMT DEF Init, Servers
  <2>. QED
    BY <1>0, <2>1, <2>2 DEF Init, ServerTypes
<1>4. ASSUME NEW c \in Clients PROVE Placed(c) /\ Wired(c)
  <2>1. /\ fd[c] = None /\ net[c] = <<>> /\ pkt[c] = <<>> /\ answer[c] = None
        /\ stage[c] = "connect" /\ at[c] \in {"kill", "version"} /\ c \notin opening
    BY <1>0, SMT DEF Init
  <2>2. Len(<<>>) <= Size /\ Len(<<>>) < Size
    BY SMT DEF Size
  <2>. QED
    BY <2>1, <2>2 DEF Placed, Wired
<1>5. Owned
  <2>1. /\ Resident \in Servers /\ Clients \subseteq Servers /\ None \notin Servers
        /\ Resident \notin Clients
    BY ClientAssumption DEF Servers
  <2>. QED
    BY <1>0, <2>1, SMT DEF Init, Owned
<1>6. Replaced
  <2>1. PICK c \in Clients : TRUE
    BY ClientAssumption
  <2>2. Owes(c)
    BY <1>0 DEF Init, Owes
  <2>3. \A s \in Servers : srv[s] # "dying"
    BY <1>0 DEF Init
  <2>. QED
    BY <2>2, <2>3 DEF Replaced
<1>7. Agreed
  <2>1. Clients \subseteq Servers /\ Resident \notin Clients
    BY ClientAssumption DEF Servers
  <2>2. /\ \A c \in Clients : sver[c] = ver[c] /\ answer[c] = None
        /\ \A s \in Servers : srv[s] # "dying"
    <3>1. PICK v : sver = [s \in Servers |-> IF s = Resident THEN v ELSE ver[s]]
      BY <1>0 DEF Init
    <3>2. \A c \in Clients : sver[c] = ver[c]
      BY <2>1, <3>1
    <3>3. (\A c \in Clients : answer[c] = None) /\ (\A s \in Servers : srv[s] # "dying")
      BY <1>0 DEF Init
    <3>. QED
      BY <3>2, <3>3
  <2>3. \A c \in Clients : cmd[c] # "kill-server" => at[c] # "kill"
    BY <1>0 DEF Init
  <2>. QED
    BY <2>2, <2>3 DEF Agreed, SameVersion
<1>. QED
  BY <1>1, <1>2, <1>3, <1>4, <1>5, <1>6, <1>7 DEF IInv, Types, Wire

(* Every step keeps the invariant.                                         *)
LEMMA IInvNext == IInv /\ [Next]_vars => IInv'
BY TypesNext, WireNext, OwnedNext, ReplacedNext, AgreedNext DEF IInv

(* The inductive invariant: types, connections, the owner of the port, who *)
(* will replace a killed server, and the agreement of equal versions.      *)
THEOREM Invariance == Spec => []IInv
BY InitIInv, IInvNext, PTL DEF Spec

(* Type correctness for every set of clients, versions and commands; the   *)
(* port always belongs to a running server (adb_main, exit).               *)
THEOREM TypeCorrect == Spec => []TypeOK
<1>1. IInv => TypeOK
  BY DEF IInv, Types, ClientTypes, LinkTypes, ServerTypes, Unit, Wire, Wired, Owned, TypeOK
<1>. QED
  BY <1>1, Invariance, PTL

(* smart_socket_enqueue never loses or mixes the bytes of a request, for   *)
(* any number of connections and any way of delivering them.               *)
THEOREM RequestsIntact == Spec => []RequestIntact
<1>1. <<>> \o <<>> = <<>>
  BY EmptySeq, ConcatEmptySeq
<1>2. IInv => RequestIntact
  BY <1>1 DEF IInv, Wire, Wired, RequestIntact
<1>. QED
  BY <1>2, Invariance, PTL

(* adb_status reads the answer to the request just written.                *)
THEOREM StatusesAreOurs == Spec => []StatusIsOurs
<1>1. IInv => StatusIsOurs
  BY DEF IInv, Wire, Wired, StatusIsOurs
<1>. QED
  BY <1>1, Invariance, PTL

(* However many adb commands of whatever versions start, restart and use   *)
(* the server at once, one is running when they have all returned.         *)
THEOREM ServerRunsAtTheEnd == Spec => []ServerAtTheEnd
<1>1. ASSUME IInv PROVE ServerAtTheEnd
  <2>. SUFFICES ASSUME \A c \in Clients : at[c] = "done" /\ cmd[c] # "kill-server",
                       crashes = 0, port = None
               PROVE  FALSE
    BY DEF ServerAtTheEnd
  <2>1. PICK c \in Clients : Owes(c)
    BY <1>1 DEF IInv, Replaced
  <2>2. Placed(c) /\ at[c] = "done"
    BY <1>1 DEF IInv, Wire
  <2>. QED
    BY <2>1, <2>2 DEF Owes, Placed
<1>. QED
  BY <1>1, Invariance, PTL

(* Commands of one version never take the port from the server that has    *)
(* it (version check of adb_connect).                                      *)
THEOREM SameVersionsKeepServer == Spec => SameVersionKeepsServer
<1>1. ASSUME IInv, [Next]_vars
      PROVE  [SameVersion /\ port # None /\ crashes' = crashes => port' = port]_vars
  <2>. SUFFICES ASSUME SameVersion, port # None, crashes' = crashes PROVE port' = port
    OBVIOUS
  <2>1. \A s \in Servers : srv[s] # "dying"
    BY <1>1 DEF IInv, Agreed
  <2>2. crashes \in Nat
    BY <1>1 DEF IInv, Types, ServerTypes
  <2>3. ASSUME NEW s \in Servers, adb_main(s) \/ inform_parent(s) \/ exit(s) \/ crash(s) PROVE port' = port
    BY <2>1, <2>2, <2>3, SMT DEF adb_main, inform_parent, exit, crash
  <2>. QED
    BY <1>1, <2>3, ServerSteps DEF IInv, launch_server, launch_fails
<1>. QED
  BY <1>1, Invariance, PTL DEF Spec, SameVersionKeepsServer
=============================================================================
