---------------------------- MODULE StreamProofs ----------------------------
(* The flow control of a stream, for every size of a payload and whatever  *)
(* the two applications write, and that the stream implements Pipe.        *)
EXTENDS Stream, TLAPS

(* A leaf that names no prover is Zenon's.                                *)
USE Zenon

Data == Seq(Nat \ {0})
Commands == {"OPEN", "OKAY", "CLSE", "WRTE"}
Has(s, cmd) == \E p \in Range(s) : p.cmd = cmd

(* Data that comes behind n bytes, with r more to come of w in all.        *)
Follows(data, n, r, w) ==
  /\ data \in Data /\ Len(data) \in 1 .. MaxPayload
  /\ \A j \in 1 .. Len(data) : data[j] = n + j
  /\ n + Len(data) + r = w

(* In a channel no two packets have the same command, and CLSE is the last. *)
Fine(s) ==
  /\ s \in Seq(Packet)
  /\ \A i, j \in DOMAIN s : s[i].cmd = s[j].cmd => i = j
  /\ \A i \in DOMAIN s : s[i].cmd = "CLSE" => i = Len(s)

Types ==
  /\ st \in [Ends -> {"none", "opening", "open", "closing", "closed"}]
  /\ readOn \subseteq Ends
  /\ pkts \in [Ends -> Seq(Data)]
  /\ chan \in [Ends -> Seq(Packet)] /\ \A e \in Ends : Fine(chan[e])
  /\ up \in BOOLEAN /\ refused \in BOOLEAN
  /\ wrote \in [Ends -> Nat]
  /\ inbuf \in [Ends -> Data] /\ got \in [Ends -> Data]
  /\ gone \subseteq eof /\ eof \subseteq Ends
  /\ status \in {"", "OKAY", "FAIL"}

(* Before the host has sent the OPEN, before the device has taken it, and  *)
(* while the client waits for the answer.                                  *)
Start ==
  /\ st["device"] # "opening" /\ ~Has(chan["device"], "OPEN")
  /\ st["host"] = "none" => st["device"] = "none" /\ chan["host"] = << >>
  /\ st["device"] # "none" => ~Has(chan["host"], "OPEN")
  /\ st["device"] = "none" =>
       /\ st["host"] \in {"none", "opening", "closed"}
       /\ \A e \in Ends : /\ pkts[e] = << >> /\ got[e] = << >> /\ e \notin readOn
                          /\ Len(inbuf[e]) = wrote[e]
       /\ chan["device"] = << >>
       /\ \A p \in Range(chan["host"]) : p.cmd = "OPEN" /\ p.data = << >>
  /\ st["host"] = "opening" =>
       /\ pkts["host"] = << >>
       /\ chan["device"] # << >> => Head(chan["device"]).cmd \in {"OKAY", "CLSE"}
       /\ up /\ chan["device"] = << >> => st["device"] = "none"

(* What the state of a socket says about it.                               *)
Sockets ==
  \A e \in Ends :
    /\ e \in readOn => st[e] = "open"
    /\ st[e] \in {"none", "closed"} => pkts[e] = << >>
    /\ st[e] = "closing" => pkts[e] # << >>
    /\ Has(chan[e], "CLSE") => ~Found(e)

(* The four places of the credit of a direction, the first one the         *)
(* source's fdevent.                                                       *)
Sent(d) == Has(chan[d], "WRTE")
Waits(d) == pkts[Other(d)] # << >>
Asked(d) == Has(chan[Other(d)], "OKAY")

Single(d) ==
  /\ Len(pkts[Other(d)]) <= 1
  /\ d \in readOn => ~Sent(d) /\ ~Waits(d) /\ ~Asked(d)
  /\ Sent(d) => ~Waits(d) /\ ~Asked(d)
  /\ Waits(d) => ~Asked(d)

(* The bytes of a direction, which is named for its source d: what has     *)
(* arrived, what is on its way, what the source has not read.              *)
Bytes(d) ==
  LET n == Len(got[Other(d)])
  IN  /\ \A i \in 1 .. n : got[Other(d)][i] = i
      /\ n + Len(inbuf[d]) <= wrote[d]
      /\ \A i \in 1 .. Len(inbuf[d]) : inbuf[d][i] = wrote[d] - Len(inbuf[d]) + i
      /\ \A p \in Range(chan[d]) :
           IF p.cmd = "WRTE" THEN Follows(p.data, n, Len(inbuf[d]), wrote[d]) ELSE p.data = << >>
      /\ \A i \in DOMAIN pkts[Other(d)] : Follows(pkts[Other(d)][i], n, Len(inbuf[d]), wrote[d])
      /\ d \in readOn \/ Asked(d) => n + Len(inbuf[d]) = wrote[d]

Connected == up /\ \A e \in Ends : Found(e)
Live(d) == Connected => d \in readOn \/ Sent(d) \/ Waits(d) \/ Asked(d)

(* Why the descriptor of e may be closed.                                  *)
Excused(e) == ~up \/ refused \/ e \in eof \/ Other(e) \in gone
AllRead(e) == Other(e) \in eof /\ inbuf[Other(e)] = << >>

Reasons(e) ==
  /\ st[e] = "closing" => Excused(e) \/ AllRead(e)
  /\ Has(chan[Other(e)], "CLSE") =>
       \/ ~Found(e) \/ Excused(e)
       \/ AllRead(e) /\ (Sent(Other(e)) \/ Waits(Other(e)) \/ Len(got[e]) = wrote[Other(e)])

(* The inductive invariant.                                                *)
IInv ==
  /\ Types /\ Start /\ Sockets
  /\ \A d \in Ends : Single(d) /\ Bytes(d) /\ Live(d) /\ Reasons(d)

---------------------------------------------------------------------------
(* Channels.                                                               *)

(* A stream has two ends.                                                  *)
LEMMA TwoEnds ==
  /\ \A e \in Ends : Other(e) \in Ends /\ Other(e) # e /\ Other(Other(e)) = e /\ Ends = {e, Other(e)}
  /\ "host" \in Ends /\ "device" \in Ends
  BY DEF Ends, Other

(* Nothing is in an empty sequence.                                        *)
LEMMA EmptySeq ==
  /\ \A S : << >> \in Seq(S)
  /\ Range(<< >>) = {} /\ Len(<< >>) = 0 /\ DOMAIN << >> = {}
  BY SMT DEF Range

(* Data can be joined and cut.                                             *)
LEMMA DataFacts ==
  ASSUME NEW s \in Data
  PROVE  /\ Len(s) \in Nat
         /\ \A t \in Data : s \o t \in Data
         /\ \A k \in 0 .. Len(s) : SubSeq(s, 1, k) \in Data
<1>1. ASSUME NEW S, NEW x \in Seq(S), NEW y \in Seq(S) PROVE x \o y \in Seq(S)
  BY SMT
<1>2. \A t \in Data : s \o t \in Data
  BY <1>1 DEF Data
<1>3. Len(s) \in Nat
  BY SMT DEF Data
<1>4. ASSUME NEW k \in 0 .. Len(s) PROVE SubSeq(s, 1, k) \in Data
  BY <1>3, SMT DEF Data
<1> QED
  BY <1>2, <1>3, <1>4

(* What a packet is made of.                                               *)
LEMMA PacketFacts ==
  \A p \in Packet : p.cmd \in Commands /\ p.data \in Data
  BY DEF Packet, Commands, Data

(* A channel stays fine when its first packet is taken,                    *)
LEMMA FineTail ==
  ASSUME NEW s, Fine(s), s # << >>
  PROVE  /\ Fine(Tail(s)) /\ Head(s) \in Range(s) /\ Head(s) \in Packet
         /\ Range(Tail(s)) = {p \in Range(s) : p.cmd # Head(s).cmd}
         /\ Head(s).cmd = "CLSE" => Range(s) = {Head(s)}
<1>1. s \in Seq(Packet) /\ Len(s) \in Nat \ {0} /\ DOMAIN s = 1 .. Len(s) /\ Head(s) = s[1] /\ 1 \in DOMAIN s
  BY SMT DEF Fine
<1>2. /\ Tail(s) \in Seq(Packet) /\ Len(Tail(s)) = Len(s) - 1 /\ DOMAIN Tail(s) = 1 .. Len(s) - 1
      /\ \A i \in DOMAIN Tail(s) : Tail(s)[i] = s[i + 1] /\ i + 1 \in DOMAIN s
  BY <1>1, SMT
<1>3. Fine(Tail(s))
  <2>1. ASSUME NEW i \in DOMAIN Tail(s), NEW j \in DOMAIN Tail(s), Tail(s)[i].cmd = Tail(s)[j].cmd
        PROVE  i = j
    <3>1. i + 1 = j + 1
      BY <1>2, <2>1, SMT DEF Fine
    <3> QED BY <1>1, <1>2, <3>1, SMT
  <2>2. ASSUME NEW i \in DOMAIN Tail(s), Tail(s)[i].cmd = "CLSE" PROVE i = Len(Tail(s))
    <3>1. i + 1 = Len(s)
      BY <1>2, <2>2 DEF Fine
    <3> QED BY <1>1, <1>2, <3>1, SMT
  <2> QED BY <1>2, <2>1, <2>2 DEF Fine
<1>4. Range(Tail(s)) = {p \in Range(s) : p.cmd # Head(s).cmd}
  <2>1. ASSUME NEW i \in DOMAIN Tail(s) PROVE Tail(s)[i] \in Range(s) /\ Tail(s)[i].cmd # Head(s).cmd
    <3>1. i + 1 # 1
      BY <1>1, <1>2, SMT
    <3> QED BY <1>1, <1>2, <3>1 DEF Fine, Range
  <2>2. ASSUME NEW i \in DOMAIN s, s[i].cmd # Head(s).cmd PROVE s[i] \in Range(Tail(s))
    <3>1. i # 1
      BY <1>1, <2>2
    <3>2. i - 1 \in DOMAIN Tail(s) /\ Tail(s)[i - 1] = s[i]
      BY <1>1, <1>2, <3>1, SMT
    <3> QED BY <3>2 DEF Range
  <2> QED BY <2>1, <2>2 DEF Range
<1>5. Head(s).cmd = "CLSE" => Range(s) = {Head(s)}
  BY <1>1, SMT DEF Fine, Range
<1>6. Head(s) \in Range(s) /\ Head(s) \in Packet
  BY <1>1, SMT DEF Range
<1> QED
  BY <1>3, <1>4, <1>5, <1>6

(* when a packet is added whose command it does not hold,                  *)
LEMMA FineAppend ==
  ASSUME NEW s, Fine(s), NEW p \in Packet, ~Has(s, p.cmd), ~Has(s, "CLSE")
  PROVE  /\ Fine(Append(s, p)) /\ Range(Append(s, p)) = Range(s) \cup {p}
         /\ Append(s, p) # << >> /\ (s # << >> => Head(Append(s, p)) = Head(s))
<1>1. s \in Seq(Packet) /\ Len(s) \in Nat /\ DOMAIN s = 1 .. Len(s)
  BY SMT DEF Fine
<1> DEFINE t == Append(s, p)
<1>2. /\ t \in Seq(Packet) /\ Len(t) = Len(s) + 1 /\ DOMAIN t = 1 .. Len(s) + 1
      /\ \A i \in DOMAIN s : t[i] = s[i] /\ i \in DOMAIN t
      /\ t[Len(s) + 1] = p /\ t # << >>
  BY <1>1, SMT
<1>3. \A i \in DOMAIN t : i \in DOMAIN s \/ i = Len(s) + 1
  BY <1>1, <1>2, SMT
<1>4. \A i \in DOMAIN s : s[i].cmd # p.cmd /\ s[i].cmd # "CLSE"
  BY DEF Has, Range
<1>5. s # << >> => Head(t) = Head(s)
  BY <1>1, <1>2, SMT
<1> HIDE DEF t
<1>6. Fine(t)
  BY <1>1, <1>2, <1>3, <1>4, SMT DEF Fine
<1>7. Range(t) = Range(s) \cup {p}
  <2>1. Len(s) + 1 \in DOMAIN t
    BY <1>1, <1>2, SMT
  <2> QED BY <1>2, <1>3, <2>1 DEF Range
<1> QED
  BY <1>2, <1>5, <1>6, <1>7 DEF t

(* and when its end is lost.                                               *)
LEMMA FinePrefix ==
  ASSUME NEW s, Fine(s), NEW k \in 0 .. Len(s)
  PROVE  /\ Fine(SubSeq(s, 1, k)) /\ Range(SubSeq(s, 1, k)) \subseteq Range(s)
         /\ SubSeq(s, 1, k) # << >> => s # << >> /\ Head(SubSeq(s, 1, k)) = Head(s)
<1>1. s \in Seq(Packet) /\ Len(s) \in Nat /\ DOMAIN s = 1 .. Len(s)
  BY SMT DEF Fine
<1> DEFINE t == SubSeq(s, 1, k)
<1>2. t \in Seq(Packet) /\ Len(t) = k /\ DOMAIN t = 1 .. k /\ \A i \in DOMAIN t : t[i] = s[i] /\ i \in DOMAIN s
  BY <1>1, SMT
<1>3. t # << >> => s # << >> /\ Head(t) = Head(s)
  BY <1>1, <1>2, SMT
<1> HIDE DEF t
<1>4. Fine(t)
  BY <1>1, <1>2, SMT DEF Fine
<1> QED
  BY <1>2, <1>3, <1>4 DEF Range, t

(* The packets ps, those of the set P, may be sent behind s.               *)
Fits(s, ps, P) ==
  \/ ps = << >> /\ P = {}
  \/ /\ ~Has(s, "CLSE")
     /\ \E p \in Packet : /\ ~Has(s, p.cmd)
                          /\ \/ ps = << p >> /\ P = {p}
                             \/ /\ p.cmd # "CLSE"
                                /\ ps = << p >> \o << Pkt("CLSE") >> /\ P = {p, Pkt("CLSE")}

(* A packet without data.                                                  *)
LEMMA PktFacts ==
  \A cmd \in Commands : Pkt(cmd) \in Packet /\ Pkt(cmd).cmd = cmd /\ Pkt(cmd).data = << >>
  BY SMT DEF Pkt, Packet, Commands

(* A channel stays fine when packets that fit are added.                   *)
LEMMA FineJoin ==
  ASSUME NEW s, NEW ps, NEW P, Fine(s), Fits(s, ps, P)
  PROVE  /\ Fine(s \o ps) /\ Range(s \o ps) = Range(s) \cup P
         /\ s # << >> => s \o ps # << >> /\ Head(s \o ps) = Head(s)
<1>0. s \in Seq(Packet)
  BY DEF Fine
<1>1. CASE ps = << >> /\ P = {}
  <2>1. s \o ps = s
    BY <1>0, <1>1, SMT
  <2> QED BY <1>1, <2>1
<1>2. ASSUME NEW p \in Packet, ~Has(s, "CLSE"), ~Has(s, p.cmd), ps = << p >>, P = {p}
      PROVE  /\ Fine(s \o ps) /\ Range(s \o ps) = Range(s) \cup P
             /\ s # << >> => s \o ps # << >> /\ Head(s \o ps) = Head(s)
  <2>1. s \o ps = Append(s, p)
    BY <1>0, <1>2, SMT
  <2>2. /\ Fine(Append(s, p)) /\ Range(Append(s, p)) = Range(s) \cup {p}
        /\ Append(s, p) # << >> /\ (s # << >> => Head(Append(s, p)) = Head(s))
    BY <1>2, FineAppend
  <2> QED BY <1>2, <2>1, <2>2
<1>3. ASSUME NEW p \in Packet, ~Has(s, "CLSE"), ~Has(s, p.cmd), p.cmd # "CLSE",
             ps = << p >> \o << Pkt("CLSE") >>, P = {p, Pkt("CLSE")}
      PROVE  /\ Fine(s \o ps) /\ Range(s \o ps) = Range(s) \cup P
             /\ s # << >> => s \o ps # << >> /\ Head(s \o ps) = Head(s)
  <2>1. PICK q \in Packet : q = Pkt("CLSE") /\ q.cmd = "CLSE"
    BY PktFacts DEF Commands
  <2>2. s \o ps = Append(Append(s, p), q)
    BY <1>0, <1>3, <2>1, SMT
  <2> DEFINE t == Append(s, p)
  <2>3. Fine(t) /\ Range(t) = Range(s) \cup {p} /\ t # << >> /\ (s # << >> => Head(t) = Head(s))
    BY <1>3, FineAppend
  <2>4. ~Has(t, "CLSE")
    BY <1>3, <2>3 DEF Has
  <2> HIDE DEF t
  <2>5. Fine(Append(t, q)) /\ Range(Append(t, q)) = Range(t) \cup {q} /\ Append(t, q) # << >> /\ Head(Append(t, q)) = Head(t)
    BY <2>1, <2>3, <2>4, FineAppend
  <2> QED BY <1>3, <2>1, <2>2, <2>3, <2>5 DEF t
<1> QED
  BY <1>1, <1>2, <1>3 DEF Fits

(* What a handler of end e does to the channels: it sends the packets P,   *)
(* which are lost when the transport is down, and leaves Q of the other's. *)
Moves(e, P, Q) ==
  /\ chan' \in [Ends -> Seq(Packet)]
  /\ Fine(chan'[e]) /\ Fine(chan'[Other(e)])
  /\ Range(chan'[e]) = IF up THEN Range(chan[e]) \cup P ELSE Range(chan[e])
  /\ Range(chan'[Other(e)]) = Q
  /\ chan[e] # << >> => chan'[e] # << >> /\ Head(chan'[e]) = Head(chan[e])
  /\ up \/ chan'[e] = chan[e]

(* send_packet from e adds to the channel of e only.                       *)
LEMMA SendMoves ==
  ASSUME Types, NEW e \in Ends, NEW ps, NEW P, Fits(chan[e], ps, P), Send(e, ps)
  PROVE  Moves(e, P, Range(chan[Other(e)])) /\ chan'[Other(e)] = chan[Other(e)]
<1> DEFINE o == Other(e)
<1>1. o \in Ends /\ o # e
  BY TwoEnds
<1>2. chan'[o] = chan[o] /\ chan'[e] = IF up THEN chan[e] \o ps ELSE chan[e]
  BY <1>1 DEF Types, Send
<1>3. Fine(chan[e]) /\ Fine(chan[o])
  BY <1>1 DEF Types
<1> HIDE DEF o
<1>4. /\ Fine(chan[e] \o ps) /\ Range(chan[e] \o ps) = Range(chan[e]) \cup P
      /\ chan[e] # << >> => chan[e] \o ps # << >> /\ Head(chan[e] \o ps) = Head(chan[e])
  BY <1>3, FineJoin
<1>5. chan' \in [Ends -> Seq(Packet)]
  BY <1>3, <1>4 DEF Types, Send, Fine
<1> QED
  BY <1>2, <1>3, <1>4, <1>5 DEF Moves, o

(* handle_packet takes the first packet from the other end's channel.      *)
LEMMA ReplyMoves ==
  ASSUME Types, NEW e \in Ends, NEW ps, NEW P, Fits(chan[e], ps, P), Reply(e, ps), chan[Other(e)] # << >>
  PROVE  /\ Moves(e, P, {p \in Range(chan[Other(e)]) : p.cmd # Head(chan[Other(e)]).cmd})
         /\ chan'[Other(e)] = Tail(chan[Other(e)])
         /\ Head(chan[Other(e)]) \in Range(chan[Other(e)]) /\ Head(chan[Other(e)]) \in Packet
         /\ Head(chan[Other(e)]).cmd = "CLSE" => Range(chan[Other(e)]) = {Head(chan[Other(e)])}
<1> DEFINE o == Other(e)
<1>1. o \in Ends /\ o # e
  BY TwoEnds
<1>2. chan'[o] = Tail(chan[o]) /\ chan'[e] = IF up THEN chan[e] \o ps ELSE chan[e]
  BY <1>1 DEF Types, Reply
<1>3. Fine(chan[e]) /\ Fine(chan[o])
  BY <1>1 DEF Types
<1>4. /\ Fine(chan[e] \o ps) /\ Range(chan[e] \o ps) = Range(chan[e]) \cup P
      /\ chan[e] # << >> => chan[e] \o ps # << >> /\ Head(chan[e] \o ps) = Head(chan[e])
  BY <1>3, FineJoin
<1>5. /\ Fine(Tail(chan[o])) /\ Head(chan[o]) \in Range(chan[o]) /\ Head(chan[o]) \in Packet
      /\ Range(Tail(chan[o])) = {p \in Range(chan[o]) : p.cmd # Head(chan[o]).cmd}
      /\ Head(chan[o]).cmd = "CLSE" => Range(chan[o]) = {Head(chan[o])}
  BY <1>3, FineTail
<1> HIDE DEF o
<1>6. chan' \in [Ends -> Seq(Packet)]
  BY <1>3, <1>4, <1>5 DEF Types, Reply, Fine, o
<1> QED
  BY <1>2, <1>3, <1>4, <1>5, <1>6 DEF Moves, o

---------------------------------------------------------------------------
(* What all the handlers keep.                                             *)

(* A handler of e leaves the other end alone.                              *)
Local(e) ==
  LET o == Other(e)
  IN  /\ st' \in [Ends -> {"none", "opening", "open", "closing", "closed"}]
      /\ st'[o] = st[o] /\ st'[e] \notin {"none", "opening"}
      /\ pkts' \in [Ends -> Seq(Data)] /\ pkts'[o] = pkts[o]
      /\ readOn' \subseteq Ends /\ (o \in readOn' <=> o \in readOn)
      /\ got' \in [Ends -> Data] /\ got'[o] = got[o]
      /\ inbuf' \in [Ends -> Data] /\ inbuf'[o] = inbuf[o]
      /\ UNCHANGED <<up, wrote, eof, gone, refused>>
      /\ status' \in {"", "OKAY", "FAIL"}

(* A handler at e that keeps the socket of e right keeps the rest.         *)
LEMMA Handled ==
  ASSUME Types, Start, Sockets, NEW e \in Ends, NEW P, NEW Q, Moves(e, P, Q), Local(e),
         Q \subseteq Range(chan[Other(e)]), st["device"] # "none", \A p \in P : p.cmd # "OPEN",
         e \in readOn' => st'[e] = "open",
         st'[e] = "closed" => pkts'[e] = << >>, st'[e] = "closing" => pkts'[e] # << >>,
         Has(chan'[e], "CLSE") => st'[e] # "open"
  PROVE  Types' /\ Start' /\ Sockets'
<1> DEFINE o == Other(e)
<1>1. o \in Ends /\ o # e /\ Ends = {e, o} /\ "host" \in Ends /\ "device" \in Ends
  BY TwoEnds
<1>2. Types'
  BY <1>1 DEF Types, Moves, Local
<1>3. /\ st'[o] = st[o] /\ pkts'[o] = pkts[o] /\ (o \in readOn' <=> o \in readOn)
      /\ st'[e] \notin {"none", "opening"} /\ up' = up
      /\ Range(chan'[o]) \subseteq Range(chan[o]) /\ Range(chan'[e]) \subseteq Range(chan[e]) \cup P
      /\ chan[e] # << >> => chan'[e] # << >> /\ Head(chan'[e]) = Head(chan[e])
      /\ up \/ chan'[e] = chan[e]
  BY DEF Local, Moves
<1> HIDE DEF o
<1>4. Sockets'
  <2>1. Found(o)' <=> Found(o)
    BY <1>3 DEF Found
  <2>2. Has(chan'[o], "CLSE") => Has(chan[o], "CLSE")
    BY <1>3 DEF Has
  <2>3. Has(chan'[e], "CLSE") => ~Found(e)'
    BY <1>3 DEF Found
  <2> QED BY <1>1, <1>3, <2>1, <2>2, <2>3 DEF Sockets
<1>5. ~Has(chan'["host"], "OPEN") /\ ~Has(chan'["device"], "OPEN")
  BY <1>1, <1>3 DEF Start, Has
<1>6. st'["host"] # "none" /\ st'["device"] \notin {"none", "opening"}
  BY <1>1, <1>3 DEF Start
<1>7. ASSUME st'["host"] = "opening"
      PROVE  /\ pkts'["host"] = << >>
             /\ chan'["device"] # << >> => Head(chan'["device"]).cmd \in {"OKAY", "CLSE"}
             /\ up' /\ chan'["device"] = << >> => st'["device"] = "none"
  <2>1. o = "host" /\ e = "device"
    BY <1>1, <1>3, <1>7
  <2> QED BY <1>3, <1>7, <2>1 DEF Start
<1> QED
  BY <1>2, <1>4, <1>5, <1>6, <1>7 DEF Start

(* A direction in which nothing moves, or something is lost.               *)
LEMMA DirKept ==
  ASSUME Types, NEW d \in Ends, Single(d), Bytes(d),
         got'[Other(d)] = got[Other(d)], inbuf'[d] = inbuf[d], wrote'[d] = wrote[d],
         d \in readOn' => d \in readOn,
         pkts'[Other(d)] \in {pkts[Other(d)], << >>},
         \A p \in Range(chan'[d]) : p \in Range(chan[d]) \/ (p.cmd # "WRTE" /\ p.data = << >>),
         \A p \in Range(chan'[Other(d)]) : p.cmd = "OKAY" => p \in Range(chan[Other(d)])
  PROVE  Single(d)' /\ Bytes(d)'
<1> DEFINE o == Other(d)
<1>1. Sent(d)' => Sent(d)
  BY DEF Sent, Has
<1>2. Asked(d)' => Asked(d)
  BY DEF Asked, Has
<1>3. Waits(d)' => Waits(d)
  BY DEF Waits
<1>4. Single(d)'
  BY <1>1, <1>2, <1>3, SMT DEF Single
<1>5. Bytes(d)'
  <2>1. ASSUME NEW q \in Range(chan'[d])
        PROVE  IF q.cmd = "WRTE" THEN Follows(q.data, Len(got[o]), Len(inbuf[d]), wrote[d]) ELSE q.data = << >>
    BY DEF Bytes
  <2>2. ASSUME NEW i \in DOMAIN pkts'[o] PROVE Follows(pkts'[o][i], Len(got[o]), Len(inbuf[d]), wrote[d])
    <3>1. pkts'[o] = pkts[o]
      BY SMT
    <3> QED BY <3>1 DEF Bytes
  <2>3. d \in readOn' \/ Asked(d)' => Len(got[o]) + Len(inbuf[d]) = wrote[d]
    BY <1>2 DEF Bytes
  <2>4. /\ \A i \in 1 .. Len(got[o]) : got[o][i] = i
        /\ Len(got[o]) + Len(inbuf[d]) <= wrote[d]
        /\ \A i \in 1 .. Len(inbuf[d]) : inbuf[d][i] = wrote[d] - Len(inbuf[d]) + i
    BY DEF Bytes
  <2> QED BY <2>1, <2>2, <2>3, <2>4 DEF Bytes
<1> QED
  BY <1>4, <1>5

(* The reasons of the other end to close, when e handles something.        *)
LEMMA ReasonsOther ==
  ASSUME Types, NEW e \in Ends, NEW P, NEW Q, Moves(e, P, Q), Local(e), Reasons(Other(e)),
         inbuf[e] = << >> => inbuf'[e] = << >>,
         up /\ (\E p \in P : p.cmd = "CLSE") =>
           \/ ~Found(Other(e)) \/ Excused(Other(e))
           \/ AllRead(Other(e))' /\ (Sent(e)' \/ Len(got[Other(e)]) = wrote[e])
  PROVE  Reasons(Other(e))'
<1> DEFINE o == Other(e)
<1>1. o \in Ends /\ o # e /\ Other(o) = e
  BY TwoEnds
<1>2. /\ st'[o] = st[o] /\ pkts'[o] = pkts[o] /\ got'[o] = got[o]
      /\ UNCHANGED <<up, wrote, eof, gone, refused>>
      /\ Range(chan'[e]) = IF up THEN Range(chan[e]) \cup P ELSE Range(chan[e])
  BY DEF Local, Moves
<1> HIDE DEF o
<1>3. (Excused(o)' <=> Excused(o)) /\ (AllRead(o) => AllRead(o)') /\ (Found(o)' <=> Found(o))
  BY <1>1, <1>2 DEF Excused, AllRead, Found, o
<1>4. (Sent(e) => Sent(e)') /\ (Waits(e)' <=> Waits(e))
  BY <1>2 DEF Sent, Has, Waits, o
<1>5. Has(chan'[e], "CLSE") => Has(chan[e], "CLSE") \/ (up /\ \E p \in P : p.cmd = "CLSE")
  BY <1>2 DEF Has
<1> QED
  BY <1>1, <1>2, <1>3, <1>4, <1>5 DEF Reasons, o

(* ... and those of e itself.                                              *)
LEMMA ReasonsOwn ==
  ASSUME Types, NEW e \in Ends, NEW P, NEW Q, Moves(e, P, Q), Local(e), Reasons(e),
         Q \subseteq Range(chan[Other(e)]),
         st'[e] = "closing" => st[e] = "closing" \/ Excused(e) \/ AllRead(e),
         Found(e)' => Found(e),
         Found(e)' /\ AllRead(e) /\ (Sent(Other(e)) \/ Waits(Other(e)) \/ Len(got[e]) = wrote[Other(e)])
           => Sent(Other(e))' \/ Waits(Other(e))' \/ Len(got'[e]) = wrote[Other(e)]
  PROVE  Reasons(e)'
<1> DEFINE o == Other(e)
<1>1. o \in Ends /\ o # e /\ Other(o) = e
  BY TwoEnds
<1>2. /\ inbuf'[o] = inbuf[o] /\ UNCHANGED <<up, wrote, eof, gone, refused>>
      /\ Range(chan'[o]) = Q
  BY DEF Local, Moves
<1> HIDE DEF o
<1>3. (Excused(e)' <=> Excused(e)) /\ (AllRead(e)' <=> AllRead(e))
  BY <1>1, <1>2 DEF Excused, AllRead, o
<1>4. Has(chan'[o], "CLSE") => Has(chan[o], "CLSE")
  BY <1>2 DEF Has, o
<1> QED
  BY <1>2, <1>3, <1>4 DEF Reasons, o

(* The steps are put together from the two directions.                     *)
LEMMA Assemble ==
  ASSUME NEW e \in Ends, Types', Start', Sockets',
         Single(e)' /\ Bytes(e)', Single(Other(e))' /\ Bytes(Other(e))',
         Live(e)' /\ Live(Other(e))', Reasons(e)' /\ Reasons(Other(e))'
  PROVE  IInv'
<1>1. PICK o \in Ends : o = Other(e) /\ Ends = {e, o}
  BY TwoEnds
<1>2. Single(o)' /\ Bytes(o)' /\ Live(o)' /\ Reasons(o)'
  BY <1>1
<1> QED
  BY <1>1, <1>2 DEF IInv

---------------------------------------------------------------------------
(* FDE_READ.                                                               *)

(* What is left of data once some of it is written.                        *)
LEMMA RestFacts ==
  ASSUME NEW s \in Data, NEW j \in 0 .. Len(s)
  PROVE  /\ Rest(s, j) \in Data /\ Len(Rest(s, j)) = Len(s) - j
         /\ \A i \in 1 .. Len(Rest(s, j)) : Rest(s, j)[i] = s[j + i]
<1>1. PICK n \in Nat : n = Len(s)
  BY SMT DEF Data
<1>2. j \in Nat /\ j <= n
  BY <1>1, SMT
<1>3. Rest(s, j) \in Data /\ Len(Rest(s, j)) = n - j
  BY <1>1, <1>2, SMT DEF Rest, Data
<1>4. ASSUME NEW i \in 1 .. n - j PROVE Rest(s, j)[i] = s[j + i]
  BY <1>1, <1>2, SMT DEF Rest, Data
<1> QED
  BY <1>1, <1>3, <1>4

(* What is read from the descriptor: the next bytes.                       *)
LEMMA ReadSome ==
  ASSUME IInv, NEW e \in Ends, e \in readOn
  PROVE  LET n == ReadSize(e)
             m == Len(got[Other(e)])
             b == Rest(inbuf[e], n)
         IN  /\ n \in 0 .. MaxPayload /\ n <= Len(inbuf[e])
             /\ n < MaxPayload => n = Len(inbuf[e])
             /\ b \in Data /\ Len(b) = Len(inbuf[e]) - n
             /\ \A i \in 1 .. Len(b) : b[i] = wrote[e] - Len(b) + i
             /\ m + n + Len(b) = wrote[e] /\ m \in Nat
             /\ SubSeq(inbuf[e], 1, n) \in Data /\ Len(SubSeq(inbuf[e], 1, n)) = n
             /\ \A j \in 1 .. n : SubSeq(inbuf[e], 1, n)[j] = m + j
<1> DEFINE n == ReadSize(e)
           m == Len(got[Other(e)])
           b == Rest(inbuf[e], n)
           c == SubSeq(inbuf[e], 1, n)
<1>1. inbuf[e] \in Data /\ got[Other(e)] \in Data /\ wrote[e] \in Nat
  BY TwoEnds DEF IInv, Types
<1>2. /\ m + Len(inbuf[e]) = wrote[e]
      /\ \A i \in 1 .. Len(inbuf[e]) : inbuf[e][i] = wrote[e] - Len(inbuf[e]) + i
  BY DEF IInv, Bytes
<1>3. m \in Nat /\ Len(inbuf[e]) \in Nat
  BY <1>1, SMT DEF Data
<1>4. n \in 0 .. MaxPayload /\ n <= Len(inbuf[e]) /\ (n < MaxPayload => n = Len(inbuf[e]))
  BY <1>3, StreamAssumption, SMT DEF ReadSize, Min
<1> HIDE DEF n, m
<1>5. /\ b \in Data /\ Len(b) = Len(inbuf[e]) - n
      /\ \A i \in 1 .. Len(b) : b[i] = inbuf[e][n + i]
  <2>1. n \in 0 .. Len(inbuf[e])
    BY <1>3, <1>4, StreamAssumption, SMT
  <2> QED BY <1>1, <2>1, RestFacts
<1>6. c \in Data /\ Len(c) = n /\ \A j \in 1 .. n : c[j] = inbuf[e][j]
  BY <1>1, <1>3, <1>4, SMT DEF Data
<1> HIDE DEF b, c
<1>7. \A i \in 1 .. Len(b) : b[i] = wrote[e] - Len(b) + i
  BY <1>1, <1>2, <1>3, <1>4, <1>5, SMT
<1>8. ASSUME NEW j \in 1 .. n PROVE c[j] = m + j
  <2>1. c[j] = inbuf[e][j] /\ j \in 1 .. Len(inbuf[e])
    BY <1>3, <1>4, <1>6, SMT
  <2>2. inbuf[e][j] = wrote[e] - Len(inbuf[e]) + j
    BY <1>2, <2>1
  <2> QED BY <1>1, <1>2, <1>3, <2>1, <2>2, SMT
<1>9. m + n + Len(b) = wrote[e]
  <2>1. m + Len(inbuf[e]) = wrote[e] /\ m \in Int /\ Len(inbuf[e]) \in Int /\ wrote[e] \in Int
    BY <1>1, <1>2, <1>3, SMT
  <2>2. n \in Int /\ Len(b) \in Int /\ Len(b) = Len(inbuf[e]) - n
    BY <1>3, <1>4, <1>5, SMT
  <2>3. PICK x \in Int, y \in Int, z \in Int, t \in Int, u \in Int :
          x = m /\ y = Len(inbuf[e]) /\ z = n /\ t = wrote[e] /\ u = Len(b)
    BY <2>1, <2>2
  <2>4. x + y = t /\ u = y - z
    BY <2>1, <2>2, <2>3
  <2>5. x + z + u = t
    BY <2>4, SMT
  <2> QED BY <2>3, <2>5
<1>10. /\ n \in 0 .. MaxPayload /\ n <= Len(inbuf[e])
       /\ n < MaxPayload => n = Len(inbuf[e])
       /\ b \in Data /\ Len(b) = Len(inbuf[e]) - n
       /\ \A i \in 1 .. Len(b) : b[i] = wrote[e] - Len(b) + i
       /\ m + n + Len(b) = wrote[e] /\ m \in Nat
       /\ c \in Data /\ Len(c) = n
       /\ \A j \in 1 .. n : c[j] = m + j
  BY <1>3, <1>4, <1>5, <1>6, <1>7, <1>8, <1>9
<1> QED
  BY <1>10 DEF n, m, b, c

(* A read from the descriptor keeps the invariant.                         *)
LEMMA ReadKept ==
  ASSUME IInv, NEW e \in Ends, event_read(e)
  PROVE  IInv'
<1> DEFINE o == Other(e)
<1>0. o \in Ends /\ o # e /\ Other(o) = e /\ Ends = {e, o}
  BY TwoEnds
<1>a. st[e] = "open" /\ e \in readOn /\ UNCHANGED <<up, wrote, eof, gone, got, status, refused>>
  BY DEF event_read
<1> DEFINE N == ReadSize(e)
           M == Len(got[o])
           B == Rest(inbuf[e], N)
           D == SubSeq(inbuf[e], 1, N)
<1>2. /\ N \in 0 .. MaxPayload /\ N <= Len(inbuf[e])
      /\ N < MaxPayload => N = Len(inbuf[e])
      /\ B \in Data /\ Len(B) = Len(inbuf[e]) - N
      /\ \A i \in 1 .. Len(B) : B[i] = wrote[e] - Len(B) + i
      /\ M + N + Len(B) = wrote[e] /\ M \in Nat
      /\ D \in Data /\ Len(D) = N
      /\ \A j \in 1 .. N : D[j] = M + j
  BY <1>a, ReadSome
<1>3. N \in Nat /\ M \in Nat /\ Len(B) \in Nat /\ B \in Data /\ D \in Data
  BY <1>2, SMT DEF Data
<1> HIDE DEF N, M, B, D
<1>h. PICK n \in Nat, m \in Nat, r \in Nat, b \in Data, data \in Data :
        n = N /\ m = M /\ b = B /\ data = D /\ r = Len(b)
  BY <1>3
<1>b. /\ n = N /\ m = M /\ b = B /\ data = D /\ r = Len(b)
      /\ n \in 0 .. MaxPayload /\ n <= Len(inbuf[e])
      /\ n < MaxPayload => n = Len(inbuf[e])
      /\ r = Len(inbuf[e]) - n
      /\ \A i \in 1 .. r : b[i] = wrote[e] - r + i
      /\ m + n + r = wrote[e]
      /\ Len(data) = n
      /\ \A j \in 1 .. n : data[j] = m + j
  BY <1>2, <1>h
<1> USE DEF N, M, B, D
<1>c. PICK w \in Packet : w = Wrte(data) /\ w.cmd = "WRTE" /\ w.data = data
  <2>1. Wrte(data) \in Packet /\ Wrte(data).cmd = "WRTE" /\ Wrte(data).data = data
    BY DEF Wrte, Packet, Data
  <2> QED BY <2>1
<1>e. n > 0 => Follows(data, m, r, wrote[e])
  <2>1. n > 0 => Len(data) \in 1 .. MaxPayload
    BY <1>b, SMT
  <2>2. \A j \in 1 .. Len(data) : data[j] = m + j
    BY <1>b
  <2>3. m + Len(data) + r = wrote[e]
    BY <1>b
  <2> QED BY <2>1, <2>2, <2>3 DEF Follows
<1>f. (n < MaxPayload \/ inbuf[e] = << >>) => r = 0 /\ b = << >>
  <2>1. inbuf[e] = << >> => Len(inbuf[e]) = 0
    BY SMT
  <2>2. (n < MaxPayload \/ inbuf[e] = << >>) => r = 0
    BY <1>b, <2>1, SMT
  <2>3. Len(b) = 0 => b = << >>
    BY SMT DEF Data
  <2> QED BY <1>b, <2>2, <2>3
<1>g. ~(n > 0) /\ r = 0 => Len(got[o]) = wrote[e]
  BY <1>b, SMT
<1>d. PICK c \in Packet : c = Pkt("CLSE") /\ c.cmd = "CLSE" /\ c.data = << >>
  BY PktFacts DEF Commands
<1> DEFINE isEof == e \in eof /\ n < MaxPayload
           P == (IF n > 0 THEN {w} ELSE {}) \cup (IF isEof THEN {c} ELSE {})
<1>1. /\ st[e] = "open" /\ e \in readOn /\ (n > 0 \/ isEof)
      /\ inbuf' = [inbuf EXCEPT ![e] = b]
      /\ UNCHANGED <<up, wrote, eof, gone, got, status, refused>>
  BY <1>b DEF event_read
<1>4. ~Sent(e) /\ ~Waits(e) /\ ~Asked(e) /\ Found(e) /\ ~Has(chan[e], "CLSE") /\ st["device"] # "none"
  BY <1>1 DEF IInv, Single, Sockets, Found, Start
<1>6. e \notin readOn' /\ readOn' = readOn \ {e} /\ pkts' = pkts
  <2>1. CASE isEof
    <3>1. Close(e, pkts[e])
      BY <1>b, <2>1 DEF event_read
    <3>2. pkts' = [pkts EXCEPT ![e] = pkts[e]] /\ readOn' = readOn \ {e}
      BY <1>1, <3>1 DEF Close, Closing
    <3> QED BY <3>2 DEF IInv, Types
  <2>2. CASE ~isEof
    BY <1>b, <2>2 DEF event_read, ReadOn_after
  <2> QED BY <2>1, <2>2
<1>7. IF isEof THEN st' = [st EXCEPT ![e] = IF pkts[e] # << >> THEN "closing" ELSE "closed"]
               ELSE st' = st
  BY <1>1, <1>b DEF event_read, Close, Closing
<1>8. Moves(e, P, Range(chan[o])) /\ chan'[o] = chan[o]
  <2>1. CASE ~isEof
    <3>1. Send(e, << w >>)
      BY <1>1, <1>b, <1>c, <2>1 DEF event_read
    <3>2. P = {w} /\ Fits(chan[e], << w >>, P)
      BY <1>1, <1>c, <1>4, <2>1 DEF Fits, Sent
    <3> QED BY <3>1, <3>2, SendMoves DEF IInv
  <2>2. CASE isEof /\ n > 0
    <3>1. Send(e, << w >> \o << c >>)
      BY <1>1, <1>b, <1>c, <1>d, <2>2 DEF event_read, CloseMsg
    <3>3. P = {w, c} /\ Fits(chan[e], << w >> \o << c >>, P)
      BY <1>c, <1>4, <1>d, <2>2 DEF Fits, Sent
    <3> QED BY <3>1, <3>3, SendMoves DEF IInv
  <2>3. CASE isEof /\ ~(n > 0)
    <3>1. Send(e, << >> \o << c >>)
      BY <1>1, <1>b, <1>d, <2>3 DEF event_read, CloseMsg
    <3>2. << >> \o << c >> = << c >>
      BY <1>d, SMT
    <3>3. P = {c} /\ Fits(chan[e], << c >>, P)
      BY <1>4, <1>d, <2>3 DEF Fits
    <3> QED BY <3>1, <3>2, <3>3, SendMoves DEF IInv
  <2> QED BY <2>1, <2>2, <2>3
<1>9. Local(e)
  <2>1. /\ st' \in [Ends -> {"none", "opening", "open", "closing", "closed"}]
        /\ st'[o] = st[o] /\ st'[e] \notin {"none", "opening"}
    <3>1. st \in [Ends -> {"none", "opening", "open", "closing", "closed"}]
      BY DEF IInv, Types
    <3>2. PICK s \in {"open", "closing", "closed"} : st' = [st EXCEPT ![e] = s]
      BY <1>1, <1>7, <3>1
    <3> QED BY <1>0, <3>1, <3>2
  <2>2. inbuf' \in [Ends -> Data] /\ inbuf'[o] = inbuf[o]
    BY <1>0, <1>1 DEF IInv, Types
  <2>3. /\ pkts' \in [Ends -> Seq(Data)] /\ pkts'[o] = pkts[o]
        /\ readOn' \subseteq Ends /\ (o \in readOn' <=> o \in readOn)
        /\ got' \in [Ends -> Data] /\ got'[o] = got[o]
        /\ status' \in {"", "OKAY", "FAIL"}
    BY <1>0, <1>1, <1>6 DEF IInv, Types
  <2> QED BY <1>1, <2>1, <2>2, <2>3 DEF Local
<1>10. \A p \in P : p = w \/ (p = c /\ isEof)
  BY <1>d
<1>11. Range(chan'[e]) = IF up THEN Range(chan[e]) \cup P ELSE Range(chan[e])
  BY <1>8 DEF Moves
<1>12. Types' /\ Start' /\ Sockets'
  <2>1. Has(chan'[e], "CLSE") => st'[e] # "open"
    BY <1>c, <1>4, <1>7, <1>10, <1>11 DEF Has, IInv, Types
  <2>2. st'[e] = "closed" => pkts'[e] = << >>
    BY <1>1, <1>6, <1>7 DEF IInv, Types
  <2>3. st'[e] = "closing" => pkts'[e] # << >>
    BY <1>1, <1>6, <1>7 DEF IInv, Types
  <2> QED BY <1>c, <1>4, <1>d, <1>6, <1>8, <1>9, <1>10, <2>1, <2>2, <2>3, Handled DEF IInv
<1>13. Single(o)' /\ Bytes(o)'
  <2>1. \A p \in Range(chan'[e]) : p.cmd = "OKAY" => p \in Range(chan[e])
    BY <1>c, <1>d, <1>10, <1>11, SMT
  <2>2. Single(o) /\ Bytes(o) /\ Types
    BY <1>0 DEF IInv
  <2>3. /\ got'[Other(o)] = got[Other(o)] /\ inbuf'[o] = inbuf[o] /\ wrote'[o] = wrote[o]
        /\ o \in readOn' => o \in readOn
        /\ pkts'[Other(o)] \in {pkts[Other(o)], << >>}
    BY <1>0, <1>1, <1>6 DEF IInv, Types
  <2> QED BY <1>0, <1>8, <2>1, <2>2, <2>3, DirKept
<1>14. Single(e)'
  <2>1. ~Asked(e)' /\ ~Waits(e)'
    BY <1>4, <1>6, <1>8 DEF Asked, Waits
  <2> QED BY <1>6, <2>1 DEF Single, IInv
<1>15. Bytes(e)'
  <2>1. inbuf'[e] = b /\ Len(b) = r
    BY <1>1, <1>b DEF IInv, Types
  <2>2. ASSUME NEW p \in Range(chan'[e])
        PROVE  IF p.cmd = "WRTE" THEN Follows(p.data, m, r, wrote[e]) ELSE p.data = << >>
    <3>1. CASE p \in Range(chan[e])
      BY <1>4, <3>1 DEF IInv, Bytes, Sent, Has
    <3>2. CASE p = w /\ n > 0
      BY <1>c, <1>e, <3>2
    <3>3. CASE p = c
      BY <1>d, <3>3
    <3> QED BY <1>d, <1>11, <3>1, <3>2, <3>3
  <2>3. pkts'[o] = << >> /\ ~Asked(e)' /\ m = Len(got'[o])
    BY <1>1, <1>b, <1>4, <1>6, <1>8 DEF Waits, Asked
  <2>4. m + r <= wrote[e]
    BY <1>b, SMT
  <2>5. \A i \in 1 .. m : got'[o][i] = i
    BY <1>1, <1>b DEF IInv, Bytes
  <2>6. \A i \in 1 .. r : b[i] = wrote[e] - r + i
    BY <1>b
  <2>7. wrote' = wrote
    BY <1>1
  <2> QED BY <1>6, <2>1, <2>2, <2>3, <2>4, <2>5, <2>6, <2>7, SMT DEF Bytes
<1>16. Live(e)' /\ Live(o)'
  <2>1. ASSUME Connected' PROVE ~isEof /\ up /\ Connected
    <3>1. st'[e] \in {"opening", "open"} /\ st'[o] \in {"opening", "open"} /\ up
      BY <1>0, <1>1, <2>1 DEF Connected, Found
    <3>2. ~isEof
      BY <1>7, <3>1 DEF IInv, Types
    <3>3. st' = st
      BY <1>7, <3>2
    <3> QED BY <1>0, <3>1, <3>2, <3>3 DEF Connected, Found
  <2>2. ASSUME Connected' PROVE Sent(e)'
    BY <1>1, <1>c, <1>11, <2>1, <2>2 DEF Sent, Has
  <2>3. ASSUME Connected' PROVE o \in readOn' \/ Sent(o)' \/ Waits(o)' \/ Asked(o)'
    <3>1. o \in readOn \/ Sent(o) \/ Waits(o) \/ Asked(o)
      BY <1>0, <2>1, <2>3 DEF IInv, Live
    <3>2. (Sent(o) => Sent(o)') /\ (Waits(o) => Waits(o)') /\ (Asked(o) => Asked(o)')
      BY <1>0, <1>6, <1>8, <1>11 DEF Sent, Waits, Asked, Has
    <3> QED BY <1>0, <1>6, <3>1, <3>2
  <2> QED BY <2>2, <2>3 DEF Live
<1>17. Reasons(e)'
  <2>1. st'[e] = "closing" => Excused(e)
    BY <1>1, <1>7 DEF IInv, Types, Excused
  <2>2. Sent(o)' = Sent(o) /\ Waits(o)' = Waits(o)
    BY <1>0, <1>6, <1>8 DEF Sent, Waits
  <2> QED BY <1>1, <1>4, <1>8, <1>9, <2>1, <2>2, ReasonsOwn DEF IInv
<1>18. Reasons(o)'
  <2>1. ASSUME up, \E p \in P : p.cmd = "CLSE"
        PROVE  AllRead(o)' /\ (Sent(e)' \/ Len(got[o]) = wrote[e])
    <3>1. isEof
      BY <1>c, <1>10, <2>1
    <3>2. r = 0 /\ b = << >>
      BY <1>f, <3>1
    <3>3. inbuf'[e] = << >>
      BY <1>1, <3>2 DEF IInv, Types
    <3>4. n > 0 => Sent(e)'
      BY <1>c, <1>11, <2>1 DEF Sent, Has
    <3>5. ~(n > 0) => Len(got[o]) = wrote[e]
      BY <1>g, <3>2
    <3> QED BY <1>0, <1>1, <3>1, <3>3, <3>4, <3>5 DEF AllRead
  <2>2. inbuf[e] = << >> => inbuf'[e] = << >>
    <3>1. inbuf[e] = << >> => b = << >>
      BY <1>f
    <3> QED BY <1>1, <3>1 DEF IInv, Types
  <2> QED BY <1>0, <1>8, <1>9, <2>1, <2>2, ReasonsOther DEF IInv
<1> QED
  BY <1>12, <1>13, <1>14, <1>15, <1>16, <1>17, <1>18, Assemble

---------------------------------------------------------------------------
(* Writing to a descriptor.                                                *)

(* k bytes of the data that comes next are written.                        *)
Continues(g, data, k, r, w) ==
  /\ g \o SubSeq(data, 1, k) \in Data /\ Len(g \o SubSeq(data, 1, k)) = Len(g) + k
  /\ \A i \in 1 .. Len(g) + k : (g \o SubSeq(data, 1, k))[i] = i
  /\ SubSeq(data, 1, k) = [i \in 1 .. k |-> Len(g) + i]
  /\ k < Len(data) => Follows(Rest(data, k), Len(g) + k, r, w)
  /\ ~(k < Len(data)) => Len(g) + k + r = w
  /\ Len(g) + k + r <= w

(* What is written to a descriptor continues what was written before.      *)
LEMMA WriteSome ==
  ASSUME NEW g \in Data, \A i \in 1 .. Len(g) : g[i] = i, NEW data, NEW r \in Nat, NEW w \in Nat,
         Follows(data, Len(g), r, w), NEW k \in 0 .. Len(data)
  PROVE  Continues(g, data, k, r, w)
<1>1. data \in Data /\ Len(data) \in 1 .. MaxPayload /\ Len(g) \in Nat /\ Len(data) \in Nat /\ k \in Nat
  BY SMT DEF Follows, Data
<1>2. /\ \A j \in 1 .. Len(data) : data[j] = Len(g) + j
      /\ Len(g) + Len(data) + r = w
  BY DEF Follows
<1> DEFINE c == SubSeq(data, 1, k)
           b == Rest(data, k)
           h == g \o c
<1>3. c \in Data /\ Len(c) = k /\ \A j \in 1 .. k : c[j] = data[j]
  BY <1>1, SMT DEF Data
<1>4. b \in Data /\ Len(b) = Len(data) - k /\ \A j \in 1 .. Len(b) : b[j] = data[k + j]
  BY <1>1, SMT DEF Rest, Data
<1>5. c = [i \in 1 .. k |-> Len(g) + i]
  BY <1>1, <1>2, SMT DEF Data
<1> HIDE DEF c, b
<1>6. /\ h \in Data /\ Len(h) = Len(g) + k
      /\ \A i \in 1 .. Len(g) : h[i] = g[i]
      /\ \A i \in 1 .. k : h[Len(g) + i] = c[i]
  <2>1. h \in Data /\ Len(h) = Len(g) + k
    <3>1. ASSUME NEW S, NEW x \in Seq(S), NEW y \in Seq(S)
          PROVE  x \o y \in Seq(S) /\ Len(x \o y) = Len(x) + Len(y)
      BY SMT
    <3>2. Len(h) = Len(g) + Len(c) /\ h \in Data
      BY <1>3, <3>1 DEF Data
    <3> QED BY <1>3, <3>2
  <2>2. ASSUME NEW i \in 1 .. Len(g) PROVE h[i] = g[i]
    BY <1>1, <1>3, SMT DEF Data
  <2>3. ASSUME NEW i \in 1 .. k PROVE h[Len(g) + i] = c[i]
    <3>1. Len(g) + i \in 1 .. Len(g) + Len(c) /\ ~(Len(g) + i <= Len(g)) /\ Len(g) + i - Len(g) = i
      BY <1>1, <1>3, SMT
    <3> QED BY <1>1, <1>3, <3>1, SMT DEF Data
  <2> QED BY <2>1, <2>2, <2>3
<1> HIDE DEF h
<1>7. ASSUME NEW i \in 1 .. Len(g) + k PROVE h[i] = i
  <2>1. CASE i <= Len(g)
    BY <1>1, <1>6, <2>1, SMT
  <2>2. CASE ~(i <= Len(g))
    <3>1. PICK j \in 1 .. k : i = Len(g) + j
      <4>1. i - Len(g) \in 1 .. k /\ i = Len(g) + (i - Len(g))
        BY <1>1, <2>2, SMT
      <4> QED BY <4>1
    <3>2. h[i] = c[j] /\ c[j] = data[j] /\ j \in 1 .. Len(data)
      BY <1>1, <1>3, <1>6, <3>1, SMT
    <3> QED BY <1>2, <3>1, <3>2
  <2> QED BY <2>1, <2>2
<1>8. ASSUME k < Len(data) PROVE Follows(b, Len(g) + k, r, w)
  <2>1. Len(b) \in 1 .. MaxPayload
    <3>1. PICK x \in Nat, y \in Nat : x = Len(data) /\ y = MaxPayload
      BY <1>1, StreamAssumption
    <3>2. x - k \in 1 .. y
      BY <1>1, <1>8, <3>1, SMT
    <3> QED BY <1>4, <3>1, <3>2
  <2>2. ASSUME NEW j \in 1 .. Len(b) PROVE b[j] = Len(g) + k + j
    <3>1. b[j] = data[k + j] /\ k + j \in 1 .. Len(data)
      BY <1>1, <1>4, <1>8, SMT
    <3>2. data[k + j] = Len(g) + (k + j)
      BY <1>2, <3>1
    <3> QED BY <1>1, <3>1, <3>2, SMT
  <2>3. Len(g) + k + Len(b) + r = w
    <3>1. PICK x \in Nat, y \in Nat, z \in Nat : x = Len(g) /\ y = Len(data) /\ z = Len(b)
      BY <1>1, <2>1, SMT
    <3>2. x + y + r = w /\ z = y - k
      BY <1>2, <1>4, <3>1
    <3>3. x + k + z + r = w
      BY <1>1, <3>2, SMT
    <3> QED BY <3>1, <3>3
  <2> QED BY <1>4, <2>1, <2>2, <2>3 DEF Follows
<1>9. (~(k < Len(data)) => Len(g) + k + r = w) /\ Len(g) + k + r <= w
  <2>1. PICK x \in Nat, y \in Nat : x = Len(g) /\ y = Len(data)
    BY <1>1
  <2>2. k \in 0 .. y /\ r \in Nat /\ x + y + r = w
    BY <1>1, <1>2, <2>1
  <2>3. (~(k < y) => x + k + r = w) /\ x + k + r <= w
    BY ONLY <2>1, <2>2, SMT
  <2> QED BY <2>1, <2>3
<1>10. h \in Data /\ Len(h) = Len(g) + k /\ \A i \in 1 .. Len(g) + k : h[i] = i
  BY <1>6, <1>7
<1> QED
  BY <1>5, <1>8, <1>9, <1>10 DEF Continues, h, c, b

(* The direction whose bytes are written.                                  *)
LEMMA WroteDir ==
  ASSUME Types, NEW d \in Ends, Bytes(d), NEW data, NEW k \in 0 .. Len(data),
         Follows(data, Len(got[Other(d)]), Len(inbuf[d]), wrote[d]),
         got'[Other(d)] = got[Other(d)] \o SubSeq(data, 1, k),
         inbuf'[d] = inbuf[d], wrote'[d] = wrote[d], d \notin readOn',
         pkts'[Other(d)] = IF k < Len(data) THEN << Rest(data, k) >> ELSE << >>,
         \A p \in Range(chan'[d]) : p.cmd # "WRTE" /\ p.data = << >>,
         k < Len(data) => \A p \in Range(chan'[Other(d)]) : p.cmd # "OKAY"
  PROVE  /\ Single(d)' /\ Bytes(d)'
         /\ Waits(d)' \/ Len(got'[Other(d)]) + Len(inbuf[d]) = wrote[d]
         /\ k < Len(data) => Waits(d)'
<1> DEFINE e == Other(d)
<1>0. e \in Ends
  BY TwoEnds
<1>1. PICK g \in Data, r \in Nat, w \in Nat : g = got[e] /\ r = Len(inbuf[d]) /\ w = wrote[d]
  <2>1. got[e] \in Data /\ inbuf[d] \in Data /\ wrote[d] \in Nat
    BY <1>0 DEF Types
  <2>2. Len(inbuf[d]) \in Nat
    BY <2>1, DataFacts
  <2> QED BY <2>1, <2>2
<1>2. \A i \in 1 .. Len(g) : g[i] = i
  BY <1>1 DEF Bytes
<1>9. Follows(data, Len(g), r, w)
  BY <1>1
<1>10. /\ g \o SubSeq(data, 1, k) \in Data /\ Len(g \o SubSeq(data, 1, k)) = Len(g) + k
       /\ \A i \in 1 .. Len(g) + k : (g \o SubSeq(data, 1, k))[i] = i
       /\ k < Len(data) => Follows(Rest(data, k), Len(g) + k, r, w)
       /\ ~(k < Len(data)) => Len(g) + k + r = w
       /\ Len(g) + k + r <= w
  <2>1. Continues(g, data, k, r, w)
    BY <1>2, <1>9, WriteSome
  <2> QED BY <2>1 DEF Continues
<1>11. Len(g) + k \in Nat
  <2>1. Len(g) \in Nat /\ Len(data) \in Nat
    BY <1>9, SMT DEF Data, Follows
  <2> QED BY <2>1, SMT
<1>3. PICK h \in Data, n \in Nat : h = g \o SubSeq(data, 1, k) /\ n = Len(g) + k
  BY <1>10, <1>11
<1>4. /\ Len(h) = n /\ \A i \in 1 .. n : h[i] = i
      /\ k < Len(data) => Follows(Rest(data, k), n, r, w)
      /\ ~(k < Len(data)) => n + r = w
      /\ n + r <= w
  BY <1>3, <1>10
<1>5. got'[e] = h /\ r = Len(inbuf'[d]) /\ w = wrote'[d]
  BY <1>1, <1>3
<1> HIDE DEF e
<1>6. ~Sent(d)' /\ (k < Len(data) => ~Asked(d)')
  BY DEF Sent, Asked, Has
<1>7. CASE k < Len(data)
  <2>1. PICK b \in Data : b = Rest(data, k) /\ Follows(b, n, r, w)
    BY <1>4, <1>7 DEF Follows
  <2>2. pkts'[e] = << b >>
    BY <1>7, <2>1 DEF e
  <2>3. pkts'[e] # << >> /\ Len(pkts'[e]) = 1 /\ \A i \in DOMAIN pkts'[e] : pkts'[e][i] = b
    BY <2>2, SMT
  <2>4. Waits(d)'
    BY <2>3 DEF Waits, e
  <2>5. Single(d)'
    BY <1>6, <1>7, <2>3, <2>4, SMT DEF Single, e
  <2>6. \A i \in DOMAIN pkts'[e] : Follows(pkts'[e][i], n, r, w)
    BY <2>1, <2>3
  <2>7. Bytes(d)'
    <3>1. \A i \in 1 .. r : inbuf[d][i] = w - r + i
      BY <1>1 DEF Bytes
    <3> QED BY <1>4, <1>5, <1>6, <1>7, <2>6, <3>1 DEF Bytes, e
  <2> QED BY <2>4, <2>5, <2>7
<1>8. CASE ~(k < Len(data))
  <2>1. pkts'[e] = << >>
    BY <1>8 DEF e
  <2>5. Len(pkts'[e]) <= 1 /\ DOMAIN pkts'[e] = {}
    BY <2>1, SMT
  <2>2. ~Waits(d)' /\ Single(d)'
    BY <1>6, <2>1, <2>5 DEF Single, Waits, e
  <2>3. \A i \in 1 .. r : inbuf[d][i] = w - r + i
    BY <1>1 DEF Bytes
  <2>4. Bytes(d)'
    <3>1. /\ \A i \in 1 .. Len(got'[e]) : got'[e][i] = i
          /\ Len(got'[e]) + r <= w /\ Len(got'[e]) + r = w
      BY <1>4, <1>5, <1>8
    <3> QED BY <1>5, <2>3, <2>5, <3>1 DEF Bytes, e
  <2> QED BY <1>1, <1>4, <1>5, <1>8, <2>2, <2>4 DEF e
<1> QED
  BY <1>7, <1>8

(* A socket with a packet to write has just this one.                      *)
LEMMA Queued ==
  ASSUME IInv, NEW e \in Ends, pkts[e] # << >>
  PROVE  /\ st[e] \in {"open", "closing"} /\ st["device"] # "none"
         /\ Tail(pkts[e]) = << >> /\ Head(pkts[e]) \in Data
         /\ Follows(Head(pkts[e]), Len(got[e]), Len(inbuf[Other(e)]), wrote[Other(e)])
         /\ Other(e) \notin readOn /\ ~Sent(Other(e)) /\ ~Asked(Other(e)) /\ Waits(Other(e))
<1> DEFINE o == Other(e)
<1>0. o \in Ends /\ Other(o) = e /\ e \in {"host", "device"}
  BY TwoEnds DEF Ends
<1>1. Len(pkts[e]) <= 1 /\ Waits(o) /\ o \notin readOn /\ ~Sent(o) /\ ~Asked(o)
  BY <1>0 DEF IInv, Single, Waits
<1>2. ASSUME NEW S, NEW s \in Seq(S), s # << >>, Len(s) <= 1
      PROVE  Tail(s) = << >> /\ Head(s) = s[1] /\ 1 \in DOMAIN s /\ Head(s) \in S
  <2>1. Len(s) \in Nat /\ Len(s) # 0
    BY <1>2, SMT
  <2>2. Len(s) = 1
    BY <1>2, <2>1, SMT
  <2> QED BY <1>2, <2>2, SMT
<1>3. Tail(pkts[e]) = << >> /\ Head(pkts[e]) = pkts[e][1] /\ 1 \in DOMAIN pkts[e] /\ Head(pkts[e]) \in Data
  <2>1. pkts[e] \in Seq(Data)
    BY DEF IInv, Types
  <2> QED BY <1>1, <1>2, <2>1
<1>4. Follows(pkts[e][1], Len(got[e]), Len(inbuf[o]), wrote[o])
  BY <1>0, <1>3 DEF IInv, Bytes
<1>5. st[e] \in {"open", "closing"} /\ st["device"] # "none"
  BY <1>0 DEF IInv, Sockets, Start, Types
<1> QED
  BY <1>1, <1>3, <1>4, <1>5

(* What event_write and packet_wrte have in common: k bytes of the data    *)
(* that comes next are written, and the rest is kept.                      *)
Delivers(e, p, k, left) ==
  /\ got' = [got EXCEPT ![e] = got[e] \o SubSeq(p, 1, k)]
  /\ pkts' = [pkts EXCEPT ![e] = left]
  /\ st' = IF left = << >> /\ st[e] = "closing" THEN [st EXCEPT ![e] = "closed"] ELSE st
  /\ UNCHANGED <<readOn, up, wrote, inbuf, eof, gone, status, refused>>

(* A packet that is written, whole or in part, keeps the invariant.        *)
LEMMA Delivered ==
  ASSUME IInv, NEW e \in Ends, NEW p \in Data, NEW k \in 0 .. Len(p), NEW left \in Seq(Data), NEW P,
         Follows(p, Len(got[e]), Len(inbuf[Other(e)]), wrote[Other(e)]),
         st[e] \in {"open", "closing"}, st["device"] # "none",
         Other(e) \notin readOn, ~Asked(Other(e)),
         left = IF k < Len(p) THEN << Rest(p, k) >> ELSE << >>,
         Delivers(e, p, k, left), P = IF left = << >> /\ st[e] = "open" THEN {Pkt("OKAY")} ELSE {},
         Moves(e, P, {q \in Range(chan[Other(e)]) : q.cmd # "WRTE"})
  PROVE  IInv'
<1> DEFINE o == Other(e)
           Q == {q \in Range(chan[o]) : q.cmd # "WRTE"}
<1>0. o \in Ends /\ o # e /\ Other(o) = e /\ Ends = {e, o}
  BY TwoEnds
<1>4. /\ got' = [got EXCEPT ![e] = got[e] \o SubSeq(p, 1, k)]
      /\ pkts' = [pkts EXCEPT ![e] = left]
      /\ st' = IF left = << >> /\ st[e] = "closing" THEN [st EXCEPT ![e] = "closed"] ELSE st
      /\ UNCHANGED <<readOn, up, wrote, inbuf, eof, gone, status, refused>>
  BY DEF Delivers
<1>5. pkts'[e] = left /\ pkts'[o] = pkts[o] /\ got'[o] = got[o] /\ got'[e] = got[e] \o SubSeq(p, 1, k)
  BY <1>0, <1>4 DEF IInv, Types
<1>6. PICK c \in Packet : c = Pkt("OKAY") /\ c.cmd = "OKAY" /\ c.data = << >>
  BY PktFacts DEF Commands
<1>7. Moves(e, P, Q) /\ Q \subseteq Range(chan[o]) /\ Range(chan'[o]) = Q
  BY DEF Moves
<1>8. Local(e)
  <2>1. got'[e] \in Data
    <3>1. got[e] \in Data
      BY DEF IInv, Types
    <3>2. SubSeq(p, 1, k) \in Data
      BY DataFacts
    <3> QED BY <1>5, <3>1, <3>2, DataFacts
  <2> QED BY <1>0, <1>4, <1>5, <2>1 DEF IInv, Types, Local
<1>9. Range(chan'[e]) = IF up THEN Range(chan[e]) \cup P ELSE Range(chan[e])
  BY <1>7 DEF Moves
<1>10. \A q \in P : q = c /\ left = << >> /\ st[e] = "open"
  BY <1>5, <1>6
<1>11. st'[e] = st[e] \/ (left = << >> /\ st[e] = "closing" /\ st'[e] = "closed")
  BY <1>4 DEF IInv, Types
<1>12. Types' /\ Start' /\ Sockets'
  <2>1. Has(chan'[e], "CLSE") => st'[e] # "open"
    <3>1. Has(chan'[e], "CLSE") => Has(chan[e], "CLSE")
      BY <1>6, <1>9, <1>10 DEF Has
    <3> QED BY <1>11, <3>1 DEF IInv, Sockets, Found
  <2>2. e \in readOn' => st'[e] = "open"
    BY <1>4, <1>11 DEF IInv, Sockets
  <2>3. (st'[e] = "closed" => pkts'[e] = << >>) /\ (st'[e] = "closing" => pkts'[e] # << >>)
    BY <1>4, <1>5, <1>11 DEF IInv, Types
  <2> QED BY <1>6, <1>7, <1>8, <1>10, <2>1, <2>2, <2>3, Handled DEF IInv
<1>13. Single(e)' /\ Bytes(e)'
  <2>1. Single(e) /\ Bytes(e) /\ Types
    BY DEF IInv
  <2> QED BY <1>4, <1>5, <1>6, <1>7, <1>9, <1>10, <2>1, DirKept
<1>14. /\ Single(o)' /\ Bytes(o)'
       /\ Waits(o)' \/ Len(got'[e]) + Len(inbuf[o]) = wrote[o]
       /\ k < Len(p) => Waits(o)'
  <2>1. \A q \in Range(chan'[o]) : q.cmd # "WRTE" /\ q.data = << >>
    BY <1>0, <1>7 DEF IInv, Bytes
  <2>2. k < Len(p) => \A q \in Range(chan'[e]) : q.cmd # "OKAY"
    BY <1>0, <1>9, <1>10 DEF Asked, Has
  <2>3. Types /\ Bytes(o)
    BY <1>0 DEF IInv
  <2>4. /\ Follows(p, Len(got[Other(o)]), Len(inbuf[o]), wrote[o])
        /\ got'[Other(o)] = got[Other(o)] \o SubSeq(p, 1, k)
        /\ inbuf'[o] = inbuf[o] /\ wrote'[o] = wrote[o] /\ o \notin readOn'
        /\ pkts'[Other(o)] = IF k < Len(p) THEN << Rest(p, k) >> ELSE << >>
    BY <1>0, <1>4, <1>5
  <2> QED BY <1>0, <1>4, <2>1, <2>2, <2>3, <2>4, WroteDir
<1>15. Live(e)' /\ Live(o)'
  <2>1. ASSUME Connected' PROVE up /\ st[e] = "open" /\ Connected /\ st' = st
    <3>1. st'[e] \in {"opening", "open"} /\ up
      BY <1>4, <2>1 DEF Connected, Found
    <3>2. st[e] = "open" /\ st' = st
      BY <1>4, <1>11, <3>1
    <3> QED BY <2>1, <3>1, <3>2 DEF Connected, Found
  <2>2. ASSUME Connected' PROVE e \in readOn' \/ Sent(e)' \/ Waits(e)' \/ Asked(e)'
    <3>1. e \in readOn \/ Sent(e) \/ Waits(e) \/ Asked(e)
      BY <2>1, <2>2 DEF IInv, Live
    <3>2. (Sent(e) => Sent(e)') /\ (Waits(e) => Waits(e)') /\ (Asked(e) => Asked(e)')
      BY <1>5, <1>6, <1>7, <1>9 DEF Sent, Waits, Asked, Has
    <3> QED BY <1>4, <3>1, <3>2
  <2>3. ASSUME Connected' PROVE Waits(o)' \/ Asked(o)'
    <3>1. CASE k < Len(p)
      BY <1>14, <3>1
    <3>2. CASE ~(k < Len(p))
      <4>1. c \in Range(chan'[e])
        BY <1>5, <1>6, <1>9, <2>1, <2>3, <3>2
      <4> QED BY <1>0, <1>6, <4>1 DEF Asked, Has
    <3> QED BY <3>1, <3>2
  <2> QED BY <2>2, <2>3 DEF Live
<1>16. Reasons(e)'
  <2>1. AllRead(e) => Waits(o)' \/ Len(got'[e]) = wrote[o]
    <3>1. AllRead(e) => Len(inbuf[o]) = 0
      <4>1. Len(<< >>) = 0
        OBVIOUS
      <4> QED BY <4>1 DEF AllRead
    <3>2. PICK x \in Nat, w \in Nat, r \in Nat : x = Len(got'[e]) /\ w = wrote[o] /\ r = Len(inbuf[o])
      <4>1. got'[e] \in Data /\ wrote[o] \in Nat /\ inbuf[o] \in Data
        BY <1>0, <1>8 DEF Local, IInv, Types
      <4> QED BY <4>1, DataFacts
    <3>3. (Waits(o)' \/ x + r = w) /\ (AllRead(e) => r = 0)
      BY <1>14, <3>1, <3>2
    <3>4. AllRead(e) => Waits(o)' \/ x = w
      BY <3>3, SMT
    <3> QED BY <3>2, <3>4
  <2>2. Found(e)' => Found(e)
    BY <1>11 DEF Found
  <2>3. st'[e] = "closing" => st[e] = "closing"
    BY <1>11
  <2> QED BY <1>7, <1>8, <2>1, <2>2, <2>3, ReasonsOwn DEF IInv
<1>17. Reasons(o)'
  <2>1. ~\E q \in P : q.cmd = "CLSE"
    BY <1>6, <1>10
  <2> QED BY <1>0, <1>4, <1>7, <1>8, <2>1, ReasonsOther DEF IInv
<1> QED
  BY <1>12, <1>13, <1>14, <1>15, <1>16, <1>17, Assemble

(* A write of a waiting packet keeps the invariant.                        *)
LEMMA WriteKept ==
  ASSUME IInv, NEW e \in Ends, NEW k, event_write(e, k)
  PROVE  IInv'
<1> DEFINE o == Other(e)
<1>0. o \in Ends /\ o # e /\ Other(o) = e /\ Ends = {e, o}
  BY TwoEnds
<1>1. PICK p \in Data : p = Head(pkts[e]) /\ Follows(p, Len(got[e]), Len(inbuf[o]), wrote[o])
  BY Queued DEF event_write
<1>2. /\ st[e] \in {"open", "closing"} /\ st["device"] # "none" /\ Tail(pkts[e]) = << >>
      /\ o \notin readOn /\ ~Sent(o) /\ ~Asked(o) /\ Waits(o)
  BY Queued DEF event_write
<1>3. PICK left \in Seq(Data) : left = IF k < Len(p) THEN << Rest(p, k) >> ELSE << >>
  <2>1. Len(p) \in Nat /\ k \in 1 .. Len(p)
    BY <1>1, SMT DEF event_write, Data
  <2>2. Rest(p, k) \in Data
    BY <2>1, SMT DEF Rest, Data
  <2>3. << Rest(p, k) >> \in Seq(Data) /\ << >> \in Seq(Data)
    BY <2>2, SMT
  <2> QED BY <2>3
<1>4. /\ k \in 0 .. Len(p)
      /\ got' = [got EXCEPT ![e] = got[e] \o SubSeq(p, 1, k)]
      /\ pkts' = [pkts EXCEPT ![e] = left]
      /\ st' = IF left = << >> /\ st[e] = "closing" THEN [st EXCEPT ![e] = "closed"] ELSE st
      /\ Send(e, IF left = << >> THEN Ready(e) ELSE << >>)
      /\ UNCHANGED <<readOn, up, wrote, inbuf, eof, gone, status, refused>>
  <2>1. << Rest(p, k) >> \o << >> = << Rest(p, k) >>
    BY SMT
  <2>2. left = IF k < Len(p) THEN << Rest(p, k) >> \o Tail(pkts[e]) ELSE Tail(pkts[e])
    BY <1>2, <1>3, <2>1
  <2>3. k \in 0 .. Len(p)
    BY <1>1, SMT DEF event_write
  <2> QED BY <1>1, <2>2, <2>3 DEF event_write, Written, appVars
<1> DEFINE P == IF left = << >> /\ st[e] = "open" THEN {Pkt("OKAY")} ELSE {}
<1>6. PICK c \in Packet : c = Pkt("OKAY") /\ c.cmd = "OKAY" /\ c.data = << >>
  BY PktFacts DEF Commands
<1>7. Moves(e, P, Range(chan[o]))
  <2>1. CASE left = << >> /\ st[e] = "open"
    <3>1. Send(e, << c >>) /\ P = {c}
      BY <1>4, <1>6, <2>1 DEF Ready
    <3>2. ~Has(chan[e], "CLSE") /\ ~Has(chan[e], "OKAY")
      BY <1>0, <1>2, <2>1 DEF IInv, Sockets, Found, Asked
    <3> QED BY <1>6, <3>1, <3>2, SendMoves DEF IInv, Fits
  <2>2. CASE ~(left = << >> /\ st[e] = "open")
    <3>1. Send(e, << >>) /\ P = {}
      BY <1>4, <2>2 DEF Ready
    <3> QED BY <3>1, SendMoves DEF IInv, Fits
  <2> QED BY <2>1, <2>2
<1>8. Range(chan[o]) = {q \in Range(chan[o]) : q.cmd # "WRTE"}
  BY <1>2 DEF Sent, Has
<1>9. Delivers(e, p, k, left)
  BY <1>4 DEF Delivers
<1> HIDE DEF P
<1>10. Moves(e, P, {q \in Range(chan[o]) : q.cmd # "WRTE"})
  BY <1>7, <1>8
<1> QED
  BY <1>1, <1>2, <1>3, <1>4, <1>9, <1>10, Delivered DEF P

---------------------------------------------------------------------------
(* Closing a socket.                                                       *)

(* A socket that is closed for a reason keeps the invariant.               *)
LEMMA ClosedKept ==
  ASSUME IInv, NEW e \in Ends, NEW P, NEW Q, Moves(e, P, Q), Q \subseteq Range(chan[Other(e)]),
         P \subseteq {Pkt("CLSE")}, st["device"] # "none", Close(e, pkts[e]),
         UNCHANGED <<up, appVars, got, refused>>, status' \in {"", "OKAY", "FAIL"},
         Excused(e) \/ AllRead(e), P # {} => ~Found(Other(e)) \/ Excused(Other(e))
  PROVE  IInv'
<1> DEFINE o == Other(e)
<1>0. o \in Ends /\ o # e /\ Other(o) = e /\ Ends = {e, o}
  BY TwoEnds
<1>1. PICK c \in Packet : c = Pkt("CLSE") /\ c.cmd = "CLSE" /\ c.data = << >>
  BY PktFacts DEF Commands
<1>2. P \subseteq {c}
  BY <1>1
<1>3. /\ UNCHANGED <<up, wrote, inbuf, eof, gone, got, refused>> /\ readOn' = readOn \ {e}
      /\ st' \in [Ends -> {"none", "opening", "open", "closing", "closed"}]
      /\ pkts' \in [Ends -> Seq(Data)] /\ pkts'[o] = pkts[o] /\ st'[o] = st[o]
      /\ \/ st'[e] = "closing" /\ pkts'[e] = pkts[e] /\ pkts[e] # << >>
         \/ st'[e] = "closed" /\ pkts'[e] = << >>
  <2>1. st \in [Ends -> {"none", "opening", "open", "closing", "closed"}] /\ pkts \in [Ends -> Seq(Data)]
    BY DEF IInv, Types
  <2>2. PICK b \in BOOLEAN : b = Closing(e, pkts[e])
    BY DEF Closing
  <2>3. /\ st' = [st EXCEPT ![e] = IF b THEN "closing" ELSE "closed"] /\ readOn' = readOn \ {e}
        /\ pkts' = [pkts EXCEPT ![e] = IF b THEN pkts[e] ELSE << >>]
    BY <2>2 DEF Close
  <2>4. b => pkts[e] # << >>
    BY <2>2 DEF Closing
  <2>5. pkts[e] \in Seq(Data) /\ << >> \in Seq(Data)
    BY <2>1, EmptySeq
  <2>6. pkts' \in [Ends -> Seq(Data)] /\ pkts'[o] = pkts[o] /\ pkts'[e] = IF b THEN pkts[e] ELSE << >>
    BY <1>0, <2>1, <2>3, <2>5
  <2>7. /\ st' \in [Ends -> {"none", "opening", "open", "closing", "closed"}]
        /\ st'[o] = st[o] /\ st'[e] = IF b THEN "closing" ELSE "closed"
    BY <1>0, <2>1, <2>3
  <2> QED BY <2>3, <2>4, <2>6, <2>7 DEF appVars
<1>4. Local(e)
  BY <1>0, <1>3 DEF IInv, Types, Local
<1>5. Range(chan'[e]) = (IF up THEN Range(chan[e]) \cup P ELSE Range(chan[e])) /\ Range(chan'[o]) = Q
  BY DEF Moves
<1>6. Types' /\ Start' /\ Sockets'
  <2>1. \A p \in P : p.cmd # "OPEN"
    BY <1>1, <1>2
  <2>2. /\ e \in readOn' => st'[e] = "open"
        /\ st'[e] = "closed" => pkts'[e] = << >>
        /\ st'[e] = "closing" => pkts'[e] # << >>
        /\ st'[e] # "open"
    BY <1>3
  <2> QED BY <1>4, <2>1, <2>2, Handled DEF IInv
<1>7. Single(e)' /\ Bytes(e)'
  <2>1. \A p \in Range(chan'[e]) : p \in Range(chan[e]) \/ (p.cmd # "WRTE" /\ p.data = << >>)
    BY <1>1, <1>2, <1>5
  <2>2. Single(e) /\ Bytes(e) /\ Types
    BY DEF IInv
  <2> QED BY <1>3, <1>5, <2>1, <2>2, DirKept
<1>8. Single(o)' /\ Bytes(o)'
  <2>1. \A p \in Range(chan'[e]) : p.cmd = "OKAY" => p \in Range(chan[e])
    BY <1>1, <1>2, <1>5
  <2>2. Single(o) /\ Bytes(o) /\ Types
    BY <1>0 DEF IInv
  <2>3. /\ got'[Other(o)] = got[Other(o)] /\ inbuf'[o] = inbuf[o] /\ wrote'[o] = wrote[o]
        /\ o \in readOn' => o \in readOn
        /\ pkts'[Other(o)] \in {pkts[Other(o)], << >>}
    BY <1>0, <1>3
  <2> QED BY <1>0, <1>5, <2>1, <2>2, <2>3, DirKept
<1>9. Live(e)' /\ Live(o)'
  <2>1. ~Connected'
    BY <1>3 DEF Connected, Found
  <2> QED BY <2>1 DEF Live
<1>10. Reasons(e)'
  <2>1. ~Found(e)'
    BY <1>3 DEF Found
  <2> QED BY <1>4, <2>1, ReasonsOwn DEF IInv
<1>11. Reasons(o)'
  <2>1. (\E p \in P : p.cmd = "CLSE") => P # {}
    OBVIOUS
  <2> QED BY <1>0, <1>3, <1>4, <2>1, ReasonsOther DEF IInv
<1> QED
  BY <1>6, <1>7, <1>8, <1>9, <1>10, <1>11, Assemble

(* The CLSE that Close sends fits the channel.                             *)
LEMMA CloseFits ==
  ASSUME IInv, NEW e \in Ends
  PROVE  \E P : P \subseteq {Pkt("CLSE")} /\ Fits(chan[e], CloseMsg(e), P)
<1>1. PICK c \in Packet : c = Pkt("CLSE") /\ c.cmd = "CLSE" /\ c.data = << >>
  BY PktFacts DEF Commands
<1>2. CASE st[e] = "open"
  <2>1. ~Has(chan[e], "CLSE") /\ CloseMsg(e) = << c >>
    BY <1>1, <1>2 DEF IInv, Sockets, Found, CloseMsg
  <2>2. Fits(chan[e], CloseMsg(e), {c})
    BY <1>1, <2>1 DEF Fits
  <2> QED BY <1>1, <2>2
<1>3. CASE st[e] # "open"
  <2>1. Fits(chan[e], CloseMsg(e), {})
    BY <1>3 DEF Fits, CloseMsg
  <2> QED BY <2>1
<1> QED
  BY <1>2, <1>3

(* A write that fails, and closes the socket, keeps the invariant.         *)
LEMMA WriteFailedKept ==
  ASSUME IInv, NEW e \in Ends, event_write_failed(e)
  PROVE  IInv'
<1>1. PICK P : P \subseteq {Pkt("CLSE")} /\ Fits(chan[e], CloseMsg(e), P)
  BY CloseFits
<1>2. /\ pkts[e] # << >> /\ e \in gone /\ Close(e, pkts[e]) /\ Send(e, CloseMsg(e))
      /\ UNCHANGED <<up, appVars, got, refused>> /\ status' = status
  BY DEF event_write_failed
<1>3. Moves(e, P, Range(chan[Other(e)]))
  BY <1>1, <1>2, SendMoves DEF IInv
<1>4. st["device"] # "none"
  BY <1>2, Queued
<1>5. Excused(e) /\ Excused(Other(e)) /\ status' \in {"", "OKAY", "FAIL"}
  BY <1>2, TwoEnds DEF IInv, Types, Excused
<1> QED
  BY <1>1, <1>2, <1>3, <1>4, <1>5, ClosedKept

---------------------------------------------------------------------------
(* handle_packet.                                                          *)

(* A packet other than OPEN comes from an end that has a socket.           *)
LEMMA Received ==
  ASSUME IInv, NEW e \in Ends, NEW cmd, Receives(e, cmd), cmd # "OPEN"
  PROVE  /\ st["device"] # "none" /\ st[e] # "none" /\ Has(chan[Other(e)], cmd)
         /\ chan[Other(e)] # << >> /\ Head(chan[Other(e)]).cmd = cmd
         /\ Head(chan[Other(e)]) \in Range(chan[Other(e)])
<1> DEFINE o == Other(e)
<1>0. o \in Ends /\ o # e /\ o \in {"host", "device"} /\ e \in {"host", "device"}
  BY TwoEnds DEF Ends
<1>1. chan[o] # << >> /\ Head(chan[o]).cmd = cmd /\ Fine(chan[o])
  BY <1>0 DEF Receives, IInv, Types
<1>2. Head(chan[o]) \in Range(chan[o])
  BY <1>1, FineTail
<1>3. Has(chan[o], cmd)
  BY <1>1, <1>2 DEF Has
<1>4. st["device"] # "none"
  BY <1>0, <1>1, <1>2 DEF IInv, Start
<1> QED
  BY <1>0, <1>1, <1>2, <1>3, <1>4 DEF IInv, Start

(* A packet for a socket that is not found.                                *)
LEMMA DroppedKept ==
  ASSUME IInv, NEW e \in Ends, NEW cmd, Receives(e, cmd), cmd # "OPEN", ~Found(e), Reply(e, << >>),
         UNCHANGED <<endVars, up, appVars, got, refused>>
  PROVE  IInv'
<1> DEFINE o == Other(e)
           Q == {p \in Range(chan[o]) : p.cmd # Head(chan[o]).cmd}
<1>0. o \in Ends /\ o # e /\ Other(o) = e /\ Ends = {e, o}
  BY TwoEnds
<1>1. st["device"] # "none" /\ st[e] # "none" /\ chan[o] # << >>
  BY Received
<1>2. Moves(e, {}, Q) /\ Q \subseteq Range(chan[o])
  BY <1>1, ReplyMoves DEF IInv, Fits
<1>3. UNCHANGED <<st, readOn, pkts, status, up, wrote, inbuf, eof, gone, got, refused>>
  BY DEF endVars, appVars
<1>4. Local(e)
  BY <1>0, <1>1, <1>3 DEF IInv, Types, Local, Found
<1>5. Range(chan'[e]) = Range(chan[e]) /\ Range(chan'[o]) = Q
  BY <1>2 DEF Moves
<1> HIDE DEF Q
<1>6. Types' /\ Start' /\ Sockets'
  <2>1. Has(chan'[e], "CLSE") => st'[e] # "open"
    BY <1>3 DEF Found
  <2>2. /\ e \in readOn' => st'[e] = "open"
        /\ st'[e] = "closed" => pkts'[e] = << >>
        /\ st'[e] = "closing" => pkts'[e] # << >>
    BY <1>3 DEF IInv, Sockets
  <2> QED BY <1>1, <1>2, <1>4, <2>1, <2>2, Handled, SMT DEF IInv
<1>7. ASSUME NEW d \in Ends PROVE Single(d)' /\ Bytes(d)'
  <2>1. Single(d) /\ Bytes(d) /\ Types
    BY DEF IInv
  <2>2. Range(chan'[d]) \subseteq Range(chan[d]) /\ Range(chan'[Other(d)]) \subseteq Range(chan[Other(d)])
    BY <1>0, <1>2, <1>5
  <2> QED BY <1>3, <2>1, <2>2, DirKept
<1>8. Live(e)' /\ Live(o)'
  <2>1. ~Connected'
    BY <1>3 DEF Connected, Found
  <2> QED BY <2>1 DEF Live
<1>9. Reasons(e)'
  <2>1. ~Found(e)'
    BY <1>3 DEF Found
  <2> QED BY <1>2, <1>3, <1>4, <2>1, ReasonsOwn DEF IInv
<1>10. Reasons(o)'
  BY <1>0, <1>2, <1>3, <1>4, ReasonsOther DEF IInv
<1> QED
  BY <1>0, <1>6, <1>7, <1>8, <1>9, <1>10, Assemble

(* A CLSE keeps the invariant.                                             *)
LEMMA ClseKept ==
  ASSUME IInv, NEW e \in Ends, packet_clse(e)
  PROVE  IInv'
<1> DEFINE o == Other(e)
<1>0. o \in Ends /\ Other(o) = e
  BY TwoEnds
<1>1. Receives(e, "CLSE") /\ UNCHANGED <<up, appVars, got, refused>>
  BY DEF packet_clse
<1>2. CASE ~Found(e)
  <2>1. Reply(e, << >>) /\ UNCHANGED <<endVars, up, appVars, got, refused>>
    BY <1>1, <1>2 DEF packet_clse, endVars
  <2> QED BY <1>1, <1>2, <2>1, DroppedKept
<1>3. CASE Found(e)
  <2>1. st["device"] # "none" /\ Has(chan[o], "CLSE") /\ chan[o] # << >>
    BY <1>1, Received
  <2>2. PICK P : P \subseteq {Pkt("CLSE")} /\ Fits(chan[e], CloseMsg(e), P)
    BY CloseFits
  <2>3. Close(e, pkts[e]) /\ Reply(e, CloseMsg(e)) /\ status' \in {status, "FAIL"}
    BY <1>3 DEF packet_clse
  <2>4. PICK Q \in SUBSET Range(chan[o]) : Moves(e, P, Q)
    BY <2>1, <2>2, <2>3, ReplyMoves DEF IInv
  <2>5. ~Found(o)
    BY <1>0, <2>1 DEF IInv, Sockets
  <2>6. Excused(e) \/ AllRead(e)
    BY <1>3, <2>1 DEF IInv, Reasons
  <2>7. status' \in {"", "OKAY", "FAIL"}
    BY <2>3 DEF IInv, Types
  <2> QED BY <1>1, <2>1, <2>2, <2>3, <2>4, <2>5, <2>6, <2>7, ClosedKept
<1> QED
  BY <1>2, <1>3

(* A WRTE whose data cannot be written keeps the invariant.                *)
LEMMA WrteFailedKept ==
  ASSUME IInv, NEW e \in Ends, packet_wrte_failed(e)
  PROVE  IInv'
<1> DEFINE o == Other(e)
<1>1. PICK P : P \subseteq {Pkt("CLSE")} /\ Fits(chan[e], CloseMsg(e), P)
  BY CloseFits
<1>2. /\ Receives(e, "WRTE") /\ e \in gone /\ Close(e, pkts[e]) /\ Reply(e, CloseMsg(e))
      /\ UNCHANGED <<up, appVars, got, refused>> /\ status' = status
  BY DEF packet_wrte_failed
<1>3. st["device"] # "none" /\ chan[o] # << >>
  BY <1>2, Received
<1>4. PICK Q \in SUBSET Range(chan[o]) : Moves(e, P, Q)
  BY <1>1, <1>2, <1>3, ReplyMoves DEF IInv
<1>5. Excused(e) /\ Excused(o) /\ status' \in {"", "OKAY", "FAIL"}
  BY <1>2, TwoEnds DEF IInv, Types, Excused
<1> QED
  BY <1>1, <1>2, <1>3, <1>4, <1>5, ClosedKept

(* A WRTE for a socket that is gone keeps the invariant.                   *)
LEMMA WrteDroppedKept ==
  ASSUME IInv, NEW e \in Ends, packet_wrte_dropped(e)
  PROVE  IInv'
<1>1. /\ Receives(e, "WRTE") /\ ~Found(e) /\ Reply(e, << >>)
      /\ UNCHANGED <<endVars, up, appVars, got, refused>>
  BY DEF packet_wrte_dropped
<1> QED
  BY <1>1, DroppedKept

(* The data of a WRTE comes next, and there is nothing before it.          *)
LEMMA WrteDelivers ==
  ASSUME IInv, NEW e \in Ends, NEW k, packet_wrte(e, k)
  PROVE  \E p \in Data, left \in Seq(Data) :
           /\ Follows(p, Len(got[e]), Len(inbuf[Other(e)]), wrote[Other(e)]) /\ k \in 0 .. Len(p)
           /\ left = IF k < Len(p) THEN << Rest(p, k) >> ELSE << >>
           /\ Delivers(e, p, k, left) /\ Reply(e, IF left = << >> THEN << Pkt("OKAY") >> ELSE << >>)
           /\ st["device"] # "none" /\ st[e] = "open" /\ chan[Other(e)] # << >>
           /\ Head(chan[Other(e)]).cmd = "WRTE" /\ Other(e) \notin readOn /\ ~Asked(Other(e))
<1> DEFINE o == Other(e)
           w == Head(chan[o])
<1>0. o \in Ends /\ o # e /\ Other(o) = e /\ e \in {"host", "device"}
  BY TwoEnds DEF Ends
<1>1. Receives(e, "WRTE") /\ Found(e)
  BY DEF packet_wrte
<1>2. /\ st["device"] # "none" /\ Sent(o) /\ chan[o] # << >> /\ w.cmd = "WRTE" /\ w \in Range(chan[o])
  BY <1>1, Received DEF Sent
<1>3. o \notin readOn /\ ~Waits(o) /\ ~Asked(o)
  BY <1>0, <1>2 DEF IInv, Single
<1>4. pkts[e] = << >> /\ st[e] = "open"
  <2>1. pkts[e] = << >>
    BY <1>0, <1>3 DEF Waits
  <2>2. e # "host" => st[e] # "opening"
    BY <1>0 DEF IInv, Start
  <2>3. e = "host" => o = "device"
    BY DEF Other
  <2>4. e = "host" => st[e] # "opening"
    BY <1>2, <2>3 DEF IInv, Start
  <2> QED BY <1>1, <2>1, <2>2, <2>4 DEF Found
<1>5. Follows(w.data, Len(got[e]), Len(inbuf[o]), wrote[o])
  BY <1>0, <1>2 DEF IInv, Bytes
<1>6. PICK p \in Data : p = w.data
  BY <1>5 DEF Follows
<1>7. k \in 0 .. Len(p) /\ Len(p) \in Nat
  BY <1>4, <1>6, SMT DEF packet_wrte, Data
<1>8. PICK left \in Seq(Data) : left = IF k < Len(p) THEN << Rest(p, k) >> ELSE << >>
  <2>1. Rest(p, k) \in Data
    BY <1>7, SMT DEF Rest, Data
  <2>2. << Rest(p, k) >> \in Seq(Data) /\ << >> \in Seq(Data)
    BY <2>1, SMT
  <2> QED BY <2>2
<1>9. left = IF k < Len(p) THEN Append(pkts[e], Rest(p, k)) ELSE pkts[e]
  <2>1. Append(<< >>, Rest(p, k)) = << Rest(p, k) >>
    BY SMT
  <2> QED BY <1>4, <1>8, <2>1
<1>10. Delivers(e, p, k, left) /\ Reply(e, IF left = << >> THEN << Pkt("OKAY") >> ELSE << >>)
  BY <1>4, <1>6, <1>9 DEF packet_wrte, Delivers, Written, appVars
<1>11. Follows(p, Len(got[e]), Len(inbuf[o]), wrote[o])
  BY <1>5, <1>6
<1> HIDE DEF w
<1> QED
  BY <1>2, <1>3, <1>4, <1>7, <1>8, <1>10, <1>11 DEF w

(* A WRTE keeps the invariant.                                             *)
LEMMA WrteKept ==
  ASSUME IInv, NEW e \in Ends, NEW k, packet_wrte(e, k)
  PROVE  IInv'
<1> DEFINE o == Other(e)
<1>0. o \in Ends /\ o # e /\ Other(o) = e
  BY TwoEnds
<1>1. PICK p \in Data, left \in Seq(Data) :
           /\ Follows(p, Len(got[e]), Len(inbuf[o]), wrote[o]) /\ k \in 0 .. Len(p)
           /\ left = IF k < Len(p) THEN << Rest(p, k) >> ELSE << >>
           /\ Delivers(e, p, k, left) /\ Reply(e, IF left = << >> THEN << Pkt("OKAY") >> ELSE << >>)
           /\ st["device"] # "none" /\ st[e] = "open" /\ chan[o] # << >>
           /\ Head(chan[o]).cmd = "WRTE" /\ o \notin readOn /\ ~Asked(o)
  BY WrteDelivers
<1> DEFINE P == IF left = << >> /\ st[e] = "open" THEN {Pkt("OKAY")} ELSE {}
           Q == {q \in Range(chan[o]) : q.cmd # Head(chan[o]).cmd}
<1>2. PICK c \in Packet : c = Pkt("OKAY") /\ c.cmd = "OKAY" /\ c.data = << >>
  BY PktFacts DEF Commands
<1>3. Moves(e, P, Q)
  <2>1. CASE left = << >>
    <3>1. Reply(e, << c >>) /\ P = {c}
      BY <1>1, <1>2, <2>1
    <3>2. ~Has(chan[e], "CLSE") /\ ~Has(chan[e], "OKAY")
      BY <1>0, <1>1 DEF IInv, Sockets, Asked, Found
    <3>3. Fits(chan[e], << c >>, P)
      BY <1>2, <3>1, <3>2 DEF Fits
    <3> QED BY <1>1, <3>1, <3>3, ReplyMoves DEF IInv
  <2>2. CASE left # << >>
    <3>1. Reply(e, << >>) /\ P = {}
      BY <1>1, <2>2
    <3>2. Fits(chan[e], << >>, P)
      BY <3>1 DEF Fits
    <3> QED BY <1>1, <3>1, <3>2, ReplyMoves DEF IInv
  <2> QED BY <2>1, <2>2
<1> HIDE DEF P
<1>4. Moves(e, P, {q \in Range(chan[o]) : q.cmd # "WRTE"})
  BY <1>1, <1>3
<1> QED
  BY <1>1, <1>4, Delivered DEF P

(* The credit of e comes back.                                             *)
LEMMA OkayKept ==
  ASSUME IInv, NEW e \in Ends, packet_okay(e)
  PROVE  IInv'
<1> DEFINE o == Other(e)
           Q == {p \in Range(chan[o]) : p.cmd # Head(chan[o]).cmd}
<1>0. o \in Ends /\ o # e /\ Other(o) = e /\ Ends = {e, o}
  BY TwoEnds
<1>1. Receives(e, "OKAY") /\ Reply(e, << >>) /\ UNCHANGED <<pkts, up, appVars, got, refused>>
  BY DEF packet_okay
<1>2. CASE ~Found(e)
  <2>1. UNCHANGED <<endVars, up, appVars, got, refused>>
    BY <1>1, <1>2 DEF packet_okay, endVars
  <2> QED BY <1>1, <1>2, <2>1, DroppedKept
<1>3. CASE Found(e)
  <2>1. st["device"] # "none" /\ Asked(e) /\ chan[o] # << >> /\ Head(chan[o]).cmd = "OKAY"
    BY <1>1, Received DEF Asked
  <2>2. Moves(e, {}, Q) /\ Q \subseteq Range(chan[o])
    BY <1>1, <2>1, ReplyMoves DEF IInv, Fits
  <2>3. /\ st' = [st EXCEPT ![e] = "open"] /\ readOn' = readOn \cup {e} /\ status' \in {status, "OKAY"}
        /\ UNCHANGED <<pkts, up, wrote, inbuf, eof, gone, got, refused>>
    BY <1>1, <1>3 DEF packet_okay, appVars
  <2>4. Local(e) /\ st'[e] = "open" /\ st'[o] = st[o]
    BY <1>0, <2>3 DEF IInv, Types, Local
  <2>5. Range(chan'[e]) = Range(chan[e]) /\ Range(chan'[o]) = Q
    BY <2>2 DEF Moves
  <2>6. \A p : p \in Q <=> p \in Range(chan[o]) /\ p.cmd # "OKAY"
    BY <2>1
  <2> HIDE DEF Q
  <2>7. Types' /\ Start' /\ Sockets'
    <3>1. ~Has(chan'[e], "CLSE")
      BY <1>3, <2>5 DEF Has, IInv, Sockets
    <3> QED BY <2>1, <2>2, <2>4, <3>1, Handled, SMT DEF IInv
  <2>8. ~Sent(e) /\ ~Waits(e)
    BY <2>1 DEF IInv, Single
  <2>9. ~Sent(e)' /\ ~Waits(e)' /\ ~Asked(e)'
    BY <2>3, <2>5, <2>6, <2>8 DEF Sent, Waits, Asked, Has
  <2>10. Single(e)'
    BY <2>3, <2>9 DEF IInv, Single
  <2>11. Bytes(e)'
    <3>1. Bytes(e) /\ Len(got[o]) + Len(inbuf[e]) = wrote[e]
      BY <2>1 DEF IInv, Bytes
    <3> QED BY <2>3, <2>5, <3>1 DEF Bytes
  <2>12. Single(o)' /\ Bytes(o)'
    <3>1. Single(o) /\ Bytes(o) /\ Types
      BY <1>0 DEF IInv
    <3>2. o \in readOn' => o \in readOn
      BY <1>0, <2>3
    <3> QED BY <1>0, <2>2, <2>3, <2>5, <3>1, <3>2, DirKept
  <2>13. Live(e)' /\ Live(o)'
    <3>1. Connected' => Connected
      BY <1>0, <1>3, <2>3, <2>4 DEF Connected, Found
    <3>2. (Sent(o) => Sent(o)') /\ (Waits(o) => Waits(o)') /\ (Asked(o) => Asked(o)') /\ readOn \subseteq readOn'
      BY <1>0, <2>3, <2>5, <2>6 DEF Sent, Waits, Asked, Has
    <3>3. Live(o)
      BY <1>0 DEF IInv
    <3> QED BY <2>3, <3>1, <3>2, <3>3 DEF Live
  <2>14. Reasons(e)'
    <3>1. (Sent(o) => Sent(o)') /\ (Waits(o) => Waits(o)') /\ got' = got
      BY <1>0, <2>3, <2>5, <2>6 DEF Sent, Waits, Has
    <3> QED BY <1>3, <2>2, <2>4, <3>1, ReasonsOwn DEF IInv
  <2>15. Reasons(o)'
    BY <1>0, <2>2, <2>3, <2>4, ReasonsOther DEF IInv
  <2> QED BY <2>7, <2>10, <2>11, <2>12, <2>13, <2>14, <2>15, Assemble
<1> QED
  BY <1>2, <1>3

(* Before the stream is open.                                              *)
LEMMA FreshBytes ==
  ASSUME IInv, st["device"] = "none", NEW d \in Ends,
         UNCHANGED <<got, inbuf, wrote, pkts>>,
         \A p \in Range(chan'[d]) : p.cmd # "WRTE" /\ p.data = << >>
  PROVE  Bytes(d)' /\ ~Sent(d)' /\ ~Waits(d)' /\ Len(pkts'[Other(d)]) <= 1
<1> DEFINE o == Other(d)
<1>0. o \in Ends
  BY TwoEnds
<1>1. got[o] = << >> /\ pkts[o] = << >> /\ Len(inbuf[d]) = wrote[d] /\ wrote[d] \in Nat
  BY <1>0 DEF IInv, Start, Types
<1>2. \A i \in 1 .. Len(inbuf[d]) : inbuf[d][i] = wrote[d] - Len(inbuf[d]) + i
  BY DEF IInv, Bytes
<1>3. Len(got[o]) = 0 /\ DOMAIN pkts[o] = {} /\ Len(pkts[o]) = 0
  BY <1>1, SMT
<1>4. 0 + Len(inbuf[d]) = wrote[d] /\ 0 + Len(inbuf[d]) <= wrote[d] /\ 1 .. 0 = {}
  BY <1>1, SMT
<1>5. Bytes(d)'
  BY <1>2, <1>3, <1>4 DEF Bytes
<1> QED
  BY <1>1, <1>3, <1>5, SMT DEF Sent, Waits, Has

(* Only the device receives an OPEN, and only once.                        *)
LEMMA Opens ==
  ASSUME IInv, NEW e \in Ends, Receives(e, "OPEN")
  PROVE  /\ e = "device" /\ Other(e) = "host" /\ st["device"] = "none"
         /\ st["host"] \in {"opening", "closed"} /\ chan["host"] # << >> /\ chan["device"] = << >>
         /\ Head(chan["host"]).cmd = "OPEN"
         /\ \A p \in Range(chan["host"]) : p.cmd = "OPEN"
         /\ \A d \in Ends : d \notin readOn /\ pkts[d] = << >>
<1> DEFINE o == Other(e)
<1>0. o \in Ends /\ o # e /\ o \in {"host", "device"} /\ e \in {"host", "device"}
  BY TwoEnds DEF Ends
<1>1. chan[o] # << >> /\ Head(chan[o]).cmd = "OPEN" /\ Fine(chan[o])
  BY <1>0 DEF Receives, IInv, Types
<1>2. Has(chan[o], "OPEN")
  BY <1>1, FineTail DEF Has
<1>3. o = "host" /\ e = "device"
  BY <1>0, <1>2 DEF IInv, Start
<1>4. st["device"] = "none"
  BY <1>2, <1>3 DEF IInv, Start
<1> QED
  BY <1>1, <1>3, <1>4 DEF IInv, Start

(* An OPEN, accepted or refused, keeps the invariant.                      *)
LEMMA OpenKept ==
  ASSUME IInv, NEW e \in Ends, packet_open(e) \/ packet_open_refused(e)
  PROVE  IInv'
<1>1. /\ e = "device" /\ Other(e) = "host" /\ st["device"] = "none"
      /\ st["host"] \in {"opening", "closed"} /\ chan["host"] # << >> /\ chan["device"] = << >>
      /\ Head(chan["host"]).cmd = "OPEN"
      /\ \A p \in Range(chan["host"]) : p.cmd = "OPEN"
      /\ \A d \in Ends : d \notin readOn /\ pkts[d] = << >>
  BY Opens DEF packet_open, packet_open_refused
<1>2. PICK cmd \in {"OKAY", "CLSE"} : cmd = "OKAY" <=> packet_open(e)
  OBVIOUS
<1>3. PICK c \in Packet : c = Pkt(cmd) /\ c.cmd = cmd /\ c.data = << >>
  BY PktFacts DEF Commands
<1>4. /\ st' = [st EXCEPT !["device"] = IF cmd = "OKAY" THEN "open" ELSE "closed"]
      /\ readOn' = IF cmd = "OKAY" THEN readOn \cup {"device"} ELSE readOn
      /\ Reply(e, << c >>) /\ refused' \in BOOLEAN /\ (cmd = "CLSE" => refused')
      /\ UNCHANGED <<pkts, up, wrote, inbuf, eof, gone, got, status>>
  <2>1. CASE cmd = "OKAY"
    BY <1>1, <1>2, <1>3, <2>1 DEF packet_open, appVars, IInv, Types
  <2>2. CASE cmd = "CLSE"
    BY <1>1, <1>2, <1>3, <2>2 DEF packet_open_refused, appVars
  <2> QED BY <2>1, <2>2
<1>5. Fits(chan[e], << c >>, {c})
  BY <1>1, <1>3, SMT DEF Fits, Has, Range
<1>6. Moves(e, {c}, {p \in Range(chan["host"]) : p.cmd # "OPEN"})
  BY <1>1, <1>4, <1>5, ReplyMoves DEF IInv
<1>7. /\ chan' \in [Ends -> Seq(Packet)] /\ Fine(chan'["host"]) /\ Fine(chan'["device"])
      /\ Range(chan'["host"]) = {} /\ Range(chan'["device"]) = IF up THEN {c} ELSE {}
  <2>1. Range(chan["device"]) = {}
    BY <1>1, EmptySeq
  <2> QED BY <1>1, <1>6, <2>1 DEF Moves
<1>8. Ends = {"host", "device"} /\ Other("host") = "device" /\ Other("device") = "host"
  BY DEF Ends, Other
<1>9. chan'["device"] # << >> => Head(chan'["device"]) = c
  BY <1>7, FineTail
<1>10. up => chan'["device"] # << >>
  <2>1. chan'["device"] = << >> => Range(chan'["device"]) = {}
    BY EmptySeq
  <2> QED BY <1>7, <2>1
<1>11. /\ st' \in [Ends -> {"none", "opening", "open", "closing", "closed"}] /\ st'["host"] = st["host"]
       /\ st'["device"] = IF cmd = "OKAY" THEN "open" ELSE "closed"
  BY <1>4, <1>8 DEF IInv, Types
<1>12. Types'
  BY <1>4, <1>7, <1>8, <1>11 DEF IInv, Types
<1>13. Start'
  <2>1. ~Has(chan'["device"], "OPEN") /\ ~Has(chan'["host"], "OPEN")
    BY <1>3, <1>7 DEF Has
  <2> QED BY <1>1, <1>3, <1>4, <1>8, <1>9, <1>10, <1>11, <2>1 DEF Start
<1>14. Sockets'
  <2>1. ~Has(chan'["host"], "CLSE") /\ (Has(chan'["device"], "CLSE") => cmd = "CLSE")
    BY <1>3, <1>7 DEF Has
  <2>2. /\ "host" \notin readOn' /\ ("device" \in readOn' => cmd = "OKAY")
        /\ pkts'["host"] = << >> /\ pkts'["device"] = << >>
    BY <1>1, <1>4, <1>8
  <2>3. cmd = "CLSE" => ~Found("device")'
    BY <1>11 DEF Found
  <2> QED BY <1>1, <1>8, <1>11, <2>1, <2>2, <2>3 DEF Sockets
<1>15. ASSUME NEW d \in Ends PROVE Bytes(d)' /\ ~Sent(d)' /\ ~Waits(d)' /\ Len(pkts'[Other(d)]) <= 1
  <2>1. \A p \in Range(chan'[d]) : p.cmd # "WRTE" /\ p.data = << >>
    BY <1>3, <1>7, <1>8
  <2> QED BY <1>1, <1>4, <2>1, FreshBytes
<1>16. ~Asked("device")' /\ "host" \notin readOn'
  BY <1>1, <1>4, <1>7, <1>8 DEF Asked, Has
<1>17. ASSUME NEW d \in Ends PROVE Single(d)'
  BY <1>8, <1>15, <1>16 DEF Single
<1>18. ASSUME NEW d \in Ends PROVE Live(d)'
  <2>1. ASSUME Connected' PROVE "device" \in readOn' /\ Asked("host")'
    <3>1. up /\ cmd = "OKAY"
      BY <1>4, <1>8, <1>11, <2>1 DEF Connected, Found
    <3> QED BY <1>3, <1>4, <1>7, <1>8, <3>1 DEF Asked, Has
  <2> QED BY <1>8, <2>1 DEF Live
<1>19. ASSUME NEW d \in Ends PROVE Reasons(d)'
  <2>1. st'[d] # "closing"
    BY <1>1, <1>8, <1>11
  <2>2. Has(chan'[Other(d)], "CLSE") => cmd = "CLSE"
    BY <1>3, <1>7, <1>8 DEF Has
  <2> QED BY <1>4, <2>1, <2>2 DEF Reasons, Excused
<1> QED
  BY <1>12, <1>13, <1>14, <1>15, <1>17, <1>18, <1>19 DEF IInv

---------------------------------------------------------------------------
(* The transport and the applications.                                     *)

(* The loss of the transport keeps the invariant.                          *)
LEMMA LostKept ==
  ASSUME IInv, LinkLost
  PROVE  IInv'
<1>0. Ends = {"host", "device"} /\ \A d \in Ends : Other(d) \in Ends
  BY TwoEnds DEF Ends
<1>1. /\ up' = FALSE
      /\ UNCHANGED <<st, readOn, pkts, status, wrote, inbuf, eof, gone, got, refused>>
  BY DEF LinkLost, endVars, appVars
<1>2. /\ chan' \in [Ends -> Seq(Packet)]
      /\ \A d \in Ends : /\ Fine(chan'[d]) /\ Range(chan'[d]) \subseteq Range(chan[d])
                         /\ chan'[d] # << >> => chan[d] # << >> /\ Head(chan'[d]) = Head(chan[d])
  <2>1. PICK i \in 0 .. Len(chan["host"]), j \in 0 .. Len(chan["device"]) :
          chan' = [d \in Ends |-> SubSeq(chan[d], 1, IF d = "host" THEN i ELSE j)]
    BY DEF LinkLost
  <2>2. ASSUME NEW d \in Ends
        PROVE  /\ Fine(chan'[d]) /\ Range(chan'[d]) \subseteq Range(chan[d])
               /\ chan'[d] # << >> => chan[d] # << >> /\ Head(chan'[d]) = Head(chan[d])
    <3>1. PICK k \in 0 .. Len(chan[d]) : chan'[d] = SubSeq(chan[d], 1, k)
      BY <1>0, <2>1
    <3> QED BY <3>1, FinePrefix DEF IInv, Types
  <2> QED BY <2>1, <2>2 DEF Fine
<1>3. \A d \in Ends : \A cmd : Has(chan'[d], cmd) => Has(chan[d], cmd)
  BY <1>2 DEF Has
<1>4. Types'
  BY <1>1, <1>2 DEF IInv, Types
<1>5. Start'
  <2>1. ~Has(chan'["device"], "OPEN") /\ (st["device"] # "none" => ~Has(chan'["host"], "OPEN"))
    BY <1>0, <1>3 DEF IInv, Start
  <2>2. st["device"] = "none" => chan'["device"] = << >> /\ \A p \in Range(chan'["host"]) : p.cmd = "OPEN" /\ p.data = << >>
    BY <1>0, <1>2 DEF IInv, Start
  <2>3. st["host"] = "opening" => (chan'["device"] # << >> => Head(chan'["device"]).cmd \in {"OKAY", "CLSE"})
    BY <1>0, <1>2 DEF IInv, Start
  <2>4. st["host"] = "none" => st["device"] = "none" /\ chan'["host"] = << >>
    BY <1>0, <1>2 DEF IInv, Start
  <2> QED BY <1>1, <2>1, <2>2, <2>3, <2>4 DEF IInv, Start
<1>6. Sockets'
  BY <1>1, <1>3 DEF IInv, Sockets, Found
<1>7. ASSUME NEW d \in Ends PROVE Single(d)' /\ Bytes(d)'
  <2>1. Single(d) /\ Bytes(d) /\ Types
    BY DEF IInv
  <2> QED BY <1>0, <1>1, <1>2, <2>1, DirKept
<1>8. \A d \in Ends : Live(d)' /\ Reasons(d)'
  BY <1>1 DEF Live, Connected, Reasons, Excused
<1> QED
  BY <1>4, <1>5, <1>6, <1>7, <1>8 DEF IInv

(* close_all_sockets keeps the invariant.                                  *)
LEMMA CloseAllKept ==
  ASSUME IInv, NEW e \in Ends, close_all_sockets(e)
  PROVE  IInv'
<1> DEFINE o == Other(e)
<1>0. o \in Ends /\ o # e /\ Other(o) = e /\ Ends = {e, o} /\ e \in {"host", "device"}
  BY TwoEnds DEF Ends
<1>1. ~up /\ Found(e) /\ Close(e, pkts[e]) /\ chan' = chan /\ UNCHANGED <<up, appVars, got, status, refused>>
  BY DEF close_all_sockets
<1>2. CASE st["device"] # "none"
  <2>1. Moves(e, {}, Range(chan[o]))
    BY <1>0, <1>1 DEF Moves, IInv, Types
  <2>2. Excused(e) /\ status' \in {"", "OKAY", "FAIL"}
    BY <1>1 DEF Excused, IInv, Types
  <2> DEFINE P == {}
  <2>3. P = {} /\ P \subseteq {Pkt("CLSE")}
    OBVIOUS
  <2> HIDE DEF P
  <2>4. UNCHANGED <<up, appVars, got, refused>> /\ Moves(e, P, Range(chan[o]))
    BY <1>1, <2>1, <2>3
  <2> QED BY <1>1, <1>2, <2>2, <2>3, <2>4, ClosedKept
<1>3. CASE st["device"] = "none"
  <2>1. e = "host" /\ o = "device"
    BY <1>0, <1>1, <1>3 DEF Found, Other
  <2>2. \A d \in Ends : pkts[d] = << >> /\ got[d] = << >> /\ d \notin readOn
    BY <1>3 DEF IInv, Start
  <2>3. pkts' = [pkts EXCEPT ![e] = << >>] /\ st' = [st EXCEPT ![e] = "closed"] /\ readOn' = readOn \ {e}
    BY <1>1, <2>2 DEF Close, Closing
  <2>4. pkts' = pkts /\ readOn' = readOn
    BY <2>2, <2>3 DEF IInv, Types
  <2>5. /\ st' \in [Ends -> {"none", "opening", "open", "closing", "closed"}]
        /\ st'["host"] = "closed" /\ st'["device"] = "none"
    BY <1>0, <1>3, <2>1, <2>3 DEF IInv, Types
  <2>6. UNCHANGED <<wrote, inbuf, eof, gone, got, up, status, refused, chan>>
    BY <1>1 DEF appVars
  <2>7. Types'
    BY <2>4, <2>5, <2>6 DEF IInv, Types
  <2>8. Start'
    BY <1>3, <2>4, <2>5, <2>6 DEF IInv, Start
  <2>9. Sockets'
    <3>1. \A d \in Ends : ~Found(d)'
      BY <1>0, <2>1, <2>5 DEF Found
    <3>2. \A d \in Ends : pkts'[d] = << >> /\ d \notin readOn' /\ st'[d] # "closing"
      BY <1>0, <2>1, <2>2, <2>4, <2>5
    <3> QED BY <3>1, <3>2 DEF Sockets
  <2>10. \A d \in Ends : Single(d)' /\ Bytes(d)'
    BY <2>4, <2>6 DEF IInv, Single, Bytes, Sent, Waits, Asked
  <2>11. \A d \in Ends : Live(d)' /\ Reasons(d)'
    BY <1>1 DEF Live, Connected, Reasons, Excused
  <2> QED BY <2>7, <2>8, <2>9, <2>10, <2>11 DEF IInv
<1> QED
  BY <1>2, <1>3

(* One more byte to read behind the others.                                *)
LEMMA FollowsGrows ==
  ASSUME NEW data, NEW n \in Nat, NEW r \in Nat, NEW w \in Nat, Follows(data, n, r, w)
  PROVE  Follows(data, n, r + 1, w + 1)
<1>1. PICK k \in Nat : k = Len(data)
  BY SMT DEF Follows, Data
<1>2. n + k + r = w
  BY <1>1 DEF Follows
<1>3. n + k + (r + 1) = w + 1
  BY <1>2, SMT
<1> QED
  BY <1>1, <1>3 DEF Follows

(* An application that writes keeps the invariant.                         *)
LEMMA AppWriteKept ==
  ASSUME IInv, NEW e \in Ends, AppWrite(e)
  PROVE  IInv'
<1> DEFINE o == Other(e)
<1>0. o \in Ends /\ o # e /\ Other(o) = e /\ Ends = {e, o}
  BY TwoEnds
<1>1. UNCHANGED <<st, readOn, pkts, status, chan, up, eof, gone, got, refused>> /\ e \notin eof
  BY DEF AppWrite, endVars
<1>2. PICK w \in Nat, b \in Data, g \in Data : w = wrote[e] /\ b = inbuf[e] /\ g = got[o]
  BY <1>0 DEF IInv, Types
<1>3. PICK r \in Nat, n \in Nat : r = Len(b) /\ n = Len(g)
  BY SMT DEF Data
<1>4. wrote' = [wrote EXCEPT ![e] = w + 1] /\ inbuf' = [inbuf EXCEPT ![e] = Append(b, w + 1)]
  BY <1>2 DEF AppWrite
<1>5. PICK c \in Data : c = Append(b, w + 1)
  <2>1. w + 1 \in Nat \ {0}
    BY SMT
  <2>2. Append(b, w + 1) \in Data
    BY <2>1, SMT DEF Data
  <2> QED BY <2>2
<1>6. Len(c) = r + 1 /\ c[r + 1] = w + 1 /\ \A i \in 1 .. r : c[i] = b[i]
  BY <1>3, <1>5, SMT DEF Data
<1>7. /\ wrote' \in [Ends -> Nat] /\ wrote'[e] = w + 1 /\ wrote'[o] = wrote[o]
      /\ inbuf' \in [Ends -> Data] /\ inbuf'[e] = c /\ inbuf'[o] = inbuf[o]
  <2>5. w + 1 \in Nat
    BY SMT
  <2>1. wrote \in [Ends -> Nat] /\ inbuf \in [Ends -> Data] /\ w + 1 \in Nat
    BY <2>5 DEF IInv, Types
  <2>2. wrote' \in [Ends -> Nat] /\ wrote'[e] = w + 1 /\ wrote'[o] = wrote[o]
    BY <1>0, <1>4, <2>1
  <2>3. inbuf' = [inbuf EXCEPT ![e] = c]
    BY <1>4, <1>5
  <2>4. inbuf' \in [Ends -> Data] /\ inbuf'[e] = c /\ inbuf'[o] = inbuf[o]
    BY <1>0, <2>1, <2>3
  <2> QED BY <2>2, <2>4
<1>8. Types'
  BY <1>1, <1>7 DEF IInv, Types
<1>9. Start'
  <2>1. st["device"] = "none" => \A d \in Ends : Len(inbuf'[d]) = wrote'[d]
    <3>1. st["device"] = "none" => Len(inbuf[e]) = wrote[e] /\ Len(inbuf[o]) = wrote[o]
      BY <1>0 DEF IInv, Start
    <3>2. st["device"] = "none" => r = w
      BY <1>2, <1>3, <3>1
    <3> QED BY <1>0, <1>6, <1>7, <3>1, <3>2
  <2> QED BY <1>1, <2>1 DEF IInv, Start
<1>10. Sockets'
  BY <1>1 DEF IInv, Sockets, Found
<1>11. \A d \in Ends : Single(d)' /\ Live(d)'
  BY <1>1 DEF IInv, Single, Live, Sent, Waits, Asked, Connected, Found
<1>12. Bytes(o)'
  <2>1. Bytes(o)
    BY <1>0 DEF IInv
  <2> QED BY <1>0, <1>1, <1>7, <2>1 DEF Bytes, Asked
<1>13. Bytes(e)'
  <2>1. /\ \A i \in 1 .. n : g[i] = i
        /\ n + r <= w
        /\ \A i \in 1 .. r : b[i] = w - r + i
        /\ \A p \in Range(chan[e]) : IF p.cmd = "WRTE" THEN Follows(p.data, n, r, w) ELSE p.data = << >>
        /\ \A i \in DOMAIN pkts[o] : Follows(pkts[o][i], n, r, w)
        /\ e \in readOn \/ Asked(e) => n + r = w
    <3>1. Bytes(e)
      BY DEF IInv
    <3> QED BY <1>2, <1>3, <3>1 DEF Bytes
  <2>7. n + r <= w /\ (e \in readOn \/ Asked(e) => n + r = w)
    BY <2>1
  <2>2. n + (r + 1) <= w + 1 /\ (e \in readOn \/ Asked(e) => n + (r + 1) = w + 1)
    BY ONLY <2>7, n \in Nat, r \in Nat, w \in Nat
  <2>3. \A i \in 1 .. r + 1 : c[i] = (w + 1) - (r + 1) + i
    <3>1. ASSUME NEW i \in 1 .. r + 1 PROVE c[i] = (w + 1) - (r + 1) + i
      <4>1. CASE i = r + 1
        BY <1>6, <4>1, SMT
      <4>2. CASE i # r + 1
        <5>1. i \in 1 .. r
          BY <4>2, SMT
        <5>2. c[i] = w - r + i
          BY <1>6, <2>1, <5>1
        <5> QED BY <5>1, <5>2, SMT
      <4> QED BY <4>1, <4>2
    <3> QED BY <3>1
  <2>4. \A p \in Range(chan[e]) : IF p.cmd = "WRTE" THEN Follows(p.data, n, r + 1, w + 1) ELSE p.data = << >>
    BY <2>1, FollowsGrows
  <2>5. \A i \in DOMAIN pkts[o] : Follows(pkts[o][i], n, r + 1, w + 1)
    BY <2>1, FollowsGrows
  <2>6. /\ Len(inbuf'[e]) = r + 1 /\ inbuf'[e] = c /\ wrote'[e] = w + 1 /\ got'[o] = g /\ Len(g) = n
        /\ chan' = chan /\ pkts' = pkts /\ readOn' = readOn /\ (Asked(e)' <=> Asked(e))
    BY <1>1, <1>2, <1>3, <1>6, <1>7 DEF Asked
  <2> HIDE DEF o
  <2> QED BY <2>1, <2>2, <2>3, <2>4, <2>5, <2>6 DEF Bytes, o
<1>14. Reasons(e)'
  <2>1. (AllRead(e)' <=> AllRead(e)) /\ (Excused(e)' <=> Excused(e)) /\ (Found(e)' <=> Found(e))
    BY <1>1, <1>7 DEF AllRead, Excused, Found
  <2>2. (Sent(o)' <=> Sent(o)) /\ (Waits(o)' <=> Waits(o)) /\ got' = got /\ wrote'[o] = wrote[o] /\ st' = st /\ chan' = chan
    BY <1>1, <1>7 DEF Sent, Waits
  <2> QED BY <2>1, <2>2 DEF IInv, Reasons
<1>15. Reasons(o)'
  <2>1. ~AllRead(o) /\ (Excused(o)' <=> Excused(o)) /\ (Found(o)' <=> Found(o))
    BY <1>0, <1>1 DEF AllRead, Excused, Found
  <2>2. Reasons(o) /\ st' = st /\ chan' = chan
    BY <1>0, <1>1 DEF IInv
  <2> QED BY <2>1, <2>2 DEF Reasons
<1> QED
  BY <1>0, <1>8, <1>9, <1>10, <1>11, <1>12, <1>13, <1>14, <1>15, Assemble

(* An application that finishes keeps the invariant.                       *)
LEMMA AppFinishKept ==
  ASSUME IInv, NEW e \in Ends, NEW closes \in BOOLEAN, AppFinish(e, closes)
  PROVE  IInv'
<1>0. \A d \in Ends : Other(d) \in Ends
  BY TwoEnds
<1>1. /\ UNCHANGED <<st, readOn, pkts, status, chan, up, wrote, inbuf, got, refused>>
      /\ eof \subseteq eof' /\ gone \subseteq gone' /\ gone' \subseteq eof' /\ eof' \subseteq Ends
  BY DEF AppFinish, endVars, IInv, Types
<1>2. Types'
  BY <1>1 DEF IInv, Types
<1>3. Start'
  BY <1>1 DEF IInv, Start
<1>4. Sockets'
  BY <1>1 DEF IInv, Sockets, Found
<1>5. \A d \in Ends : Single(d)' /\ Live(d)'
  BY <1>1 DEF IInv, Single, Live, Sent, Waits, Asked, Connected, Found
<1>6. \A d \in Ends : Bytes(d)'
  BY <1>1 DEF IInv, Bytes, Asked
<1>7. ASSUME NEW d \in Ends PROVE Reasons(d)'
  <2>1. (AllRead(d) => AllRead(d)') /\ (Excused(d) => Excused(d)') /\ (Found(d)' <=> Found(d))
    BY <1>1 DEF AllRead, Excused, Found
  <2>2. /\ (Sent(Other(d))' <=> Sent(Other(d))) /\ (Waits(Other(d))' <=> Waits(Other(d)))
        /\ UNCHANGED <<got, wrote, st, chan>>
    BY <1>1 DEF Sent, Waits
  <2>3. Reasons(d)
    BY DEF IInv
  <2> QED BY <2>1, <2>2, <2>3 DEF Reasons
<1> QED
  BY <1>2, <1>3, <1>4, <1>5, <1>6, <1>7 DEF IInv

(* The invariant holds at the start.                                       *)
LEMMA InitKept ==
  ASSUME Init
  PROVE  IInv
<1>0. Ends = {"host", "device"} /\ Other("host") = "device" /\ Other("device") = "host"
  BY DEF Ends, Other
<1>1. /\ st["host"] = "none" /\ st["device"] = "none" /\ readOn = {} /\ up = TRUE /\ eof = {} /\ gone = {}
      /\ status = "" /\ refused = FALSE
      /\ \A e \in Ends : chan[e] = << >> /\ pkts[e] = << >> /\ wrote[e] = 0 /\ inbuf[e] = << >> /\ got[e] = << >>
  BY <1>0 DEF Init
<1>2. \A d \in Ends : Range(chan[d]) = {} /\ Fine(chan[d]) /\ \A cmd : ~Has(chan[d], cmd)
  <2>1. Fine(<< >>)
    BY EmptySeq DEF Fine
  <2> QED BY <1>1, <2>1, EmptySeq DEF Has
<1>3. Types
  <2>1. << >> \in Data /\ << >> \in Seq(Data) /\ << >> \in Seq(Packet)
    BY EmptySeq DEF Data
  <2> QED BY <1>0, <1>1, <1>2, <2>1 DEF Init, Types
<1>4. Start
  <2>1. \A d \in Ends : Len(inbuf[d]) = wrote[d]
    BY <1>1, EmptySeq
  <2> QED BY <1>0, <1>1, <1>2, <2>1 DEF Start
<1>5. Sockets
  BY <1>0, <1>1, <1>2 DEF Sockets
<1>6. ASSUME NEW d \in Ends PROVE Single(d) /\ Bytes(d) /\ Live(d) /\ Reasons(d)
  <2>0. Other(d) \in Ends
    BY TwoEnds
  <2>1. ~Sent(d) /\ ~Waits(d) /\ ~Asked(d) /\ d \notin readOn /\ ~Has(chan[Other(d)], "CLSE") /\ st[d] # "closing"
    BY <1>0, <1>1, <1>2, <2>0 DEF Sent, Waits, Asked
  <2>2. /\ Len(pkts[Other(d)]) = 0 /\ Len(got[Other(d)]) = 0 /\ Len(inbuf[d]) = 0 /\ wrote[d] = 0
        /\ DOMAIN pkts[Other(d)] = {} /\ Range(chan[d]) = {}
    BY <1>1, <1>2, <2>0, EmptySeq
  <2>3. Single(d) /\ Bytes(d)
    BY <2>1, <2>2, SMT DEF Single, Bytes
  <2>4. ~Connected
    BY <1>0, <1>1 DEF Connected, Found
  <2> QED BY <2>1, <2>3, <2>4 DEF Live, Reasons
<1> QED
  BY <1>3, <1>4, <1>5, <1>6 DEF IInv

(* The client's request keeps the invariant: nothing but its OPEN is in    *)
(* the channels.                                                           *)
LEMMA RequestKept ==
  ASSUME IInv, smart_socket_enqueue \/ smart_socket_offline
  PROVE  IInv'
<1>0. Ends = {"host", "device"} /\ Other("host") = "device" /\ Other("device") = "host"
  BY DEF Ends, Other
<1>1. /\ st["host"] = "none" /\ st["device"] = "none" /\ chan["host"] = << >> /\ chan["device"] = << >>
      /\ \A d \in Ends : pkts[d] = << >> /\ d \notin readOn
  BY DEF smart_socket_enqueue, smart_socket_offline, IInv, Start
<1>2. /\ UNCHANGED <<readOn, pkts, up, wrote, inbuf, eof, gone, got, refused>>
      /\ status' \in {"", "OKAY", "FAIL"}
  BY DEF smart_socket_enqueue, smart_socket_offline, appVars, IInv, Types
<1>3. /\ st' \in [Ends -> {"none", "opening", "open", "closing", "closed"}]
      /\ st'["host"] \in {"opening", "closed"} /\ st'["device"] = "none"
  <2>1. PICK x \in {"opening", "closed"} : st' = [st EXCEPT !["host"] = x]
    BY DEF smart_socket_enqueue, smart_socket_offline
  <2> QED BY <1>0, <1>1, <2>1 DEF IInv, Types
<1>4. PICK c \in Packet : c = Pkt("OPEN") /\ c.cmd = "OPEN" /\ c.data = << >>
  BY PktFacts DEF Commands
<1>5. /\ chan' \in [Ends -> Seq(Packet)] /\ Fine(chan'["host"]) /\ chan'["device"] = << >>
      /\ Range(chan'["host"]) \subseteq {c}
  <2>1. CASE smart_socket_enqueue
    <3>1. Fits(chan["host"], << c >>, {c})
      BY <1>1, <1>4, EmptySeq DEF Fits, Has
    <3>2. Send("host", << c >>)
      BY <1>4, <2>1 DEF smart_socket_enqueue
    <3>3. Moves("host", {c}, Range(chan["device"])) /\ chan'["device"] = chan["device"]
      BY <1>0, <3>1, <3>2, SendMoves DEF IInv
    <3> QED BY <1>1, <3>3, EmptySeq DEF Moves
  <2>2. CASE ~smart_socket_enqueue
    <3>1. chan' = chan
      BY <2>2 DEF smart_socket_offline
    <3> QED BY <1>0, <1>1, <3>1, EmptySeq DEF IInv, Types
  <2> QED BY <2>1, <2>2
<1>6. /\ Range(chan'["device"]) = {} /\ Fine(chan'["device"])
      /\ \A d \in Ends : \A cmd : Has(chan'[d], cmd) => cmd = "OPEN" /\ d = "host"
  <2>1. Fine(<< >>)
    BY EmptySeq DEF Fine
  <2> QED BY <1>0, <1>4, <1>5, <2>1, EmptySeq DEF Has
<1>7. Types'
  BY <1>0, <1>2, <1>3, <1>5, <1>6 DEF IInv, Types
<1>8. Start'
  <2>1. \A d \in Ends : pkts'[d] = << >> /\ got'[d] = << >> /\ d \notin readOn' /\ Len(inbuf'[d]) = wrote'[d]
    BY <1>1, <1>2 DEF IInv, Start
  <2>2. \A p \in Range(chan'["host"]) : p.cmd = "OPEN" /\ p.data = << >>
    BY <1>4, <1>5
  <2> QED BY <1>0, <1>3, <1>5, <1>6, <2>1, <2>2 DEF Start
<1>9. Sockets'
  <2>1. \A d \in Ends : ~Has(chan'[d], "CLSE")
    BY <1>6, SMT
  <2>2. \A d \in Ends : d \notin readOn' /\ pkts'[d] = << >>
    BY <1>1, <1>2
  <2>3. \A d \in Ends : st'[d] # "closing"
    BY <1>0, <1>3
  <2> QED BY <2>1, <2>2, <2>3 DEF Sockets
<1>10. ASSUME NEW d \in Ends PROVE Single(d)' /\ Bytes(d)' /\ Live(d)' /\ Reasons(d)'
  <2>1. \A p \in Range(chan'[d]) : p.cmd # "WRTE" /\ p.data = << >>
    BY <1>0, <1>4, <1>5, <1>6
  <2>2. Bytes(d)' /\ ~Sent(d)' /\ ~Waits(d)' /\ Len(pkts'[Other(d)]) <= 1
    BY <1>1, <1>2, <2>1, FreshBytes
  <2>3. Other(d) \in Ends
    BY TwoEnds
  <2>4. ~Asked(d)' /\ d \notin readOn' /\ ~Has(chan'[Other(d)], "CLSE") /\ st'[d] # "closing"
    <3>1. ~Has(chan'[Other(d)], "OKAY") /\ ~Has(chan'[Other(d)], "CLSE")
      BY <1>6, <2>3, SMT
    <3>2. d \notin readOn'
      BY <1>1, <1>2
    <3>3. st'[d] # "closing"
      BY <1>0, <1>3
    <3> QED BY <3>1, <3>2, <3>3 DEF Asked
  <2>5. ~Connected'
    BY <1>0, <1>3 DEF Connected, Found
  <2> QED BY <2>2, <2>4, <2>5 DEF Single, Live, Reasons
<1> QED
  BY <1>7, <1>8, <1>9, <1>10 DEF IInv

(* A step elsewhere keeps the invariant.                                   *)
LEMMA StutterKept ==
  ASSUME IInv, UNCHANGED vars
  PROVE  IInv'
<1>1. UNCHANGED <<st, readOn, pkts, status, chan, up, wrote, inbuf, eof, gone, got, refused>>
  BY DEF vars, endVars, appVars
<1>2. Types' /\ Start' /\ Sockets'
  BY <1>1 DEF IInv, Types, Start, Sockets, Found
<1>3. \A d \in Ends : Single(d)' /\ Live(d)'
  BY <1>1 DEF IInv, Single, Live, Sent, Waits, Asked, Connected, Found
<1>4. \A d \in Ends : Bytes(d)'
  BY <1>1 DEF IInv, Bytes, Asked
<1>5. \A d \in Ends : Reasons(d)'
  BY <1>1 DEF IInv, Reasons, Excused, AllRead, Found, Sent, Waits
<1> QED
  BY <1>2, <1>3, <1>4, <1>5 DEF IInv

---------------------------------------------------------------------------
(* Theorems.                                                               *)

(* Every step of the two servers, the transport and the applications keeps *)
(* the account of the bytes and of the credits of a stream.                *)
THEOREM Invariance == Spec => []IInv
<1>1. Init => IInv
  BY InitKept
<1>2. IInv /\ [Next]_vars => IInv'
  <2> SUFFICES ASSUME IInv, [Next]_vars PROVE IInv'
    OBVIOUS
  <2>1. ASSUME NEW e \in Ends, local_socket_event_func(e) PROVE IInv'
    BY <2>1, ReadKept, WriteKept, WriteFailedKept DEF local_socket_event_func
  <2>2. ASSUME NEW e \in Ends, handle_packet(e) PROVE IInv'
    BY <2>2, OpenKept, OkayKept, ClseKept, WrteKept, WrteFailedKept, WrteDroppedKept DEF handle_packet
  <2>3. ASSUME NEW e \in Ends, App(e) PROVE IInv'
    BY <2>3, AppWriteKept, AppFinishKept DEF App
  <2>4. ASSUME NEW e \in Ends, close_all_sockets(e) PROVE IInv'
    BY <2>4, CloseAllKept
  <2>5. CASE LinkLost
    BY <2>5, LostKept
  <2>6. CASE UNCHANGED vars
    BY <2>6, StutterKept
  <2>7. CASE smart_socket_enqueue \/ smart_socket_offline
    BY <2>7, RequestKept
  <2> QED BY <2>1, <2>2, <2>3, <2>4, <2>5, <2>6, <2>7 DEF Next
<1> QED
  BY <1>1, <1>2, PTL DEF Spec

(* The flow control: a direction has one credit, which is in one place,    *)
(* and has it as long as the stream is open at both ends.                  *)
THEOREM CreditIsKept == Spec => []OneCredit
<1>1. IInv => OneCredit
  <2> SUFFICES ASSUME IInv PROVE OneCredit
    OBVIOUS
  <2>1. TypeOK
    <3>1. chan \in [Ends -> Seq(Packet)]
      BY DEF IInv, Types, Fine
    <3>2. ASSUME NEW e \in Ends, NEW i \in DOMAIN chan[e] PROVE Len(chan[e][i].data) <= MaxPayload
      <4>1. chan[e][i] \in Range(chan[e]) /\ Bytes(e)
        BY DEF Range, IInv
      <4>2. CASE chan[e][i].cmd = "WRTE"
        <5>1. Len(chan[e][i].data) \in 1 .. MaxPayload
          BY <4>1, <4>2 DEF Bytes, Follows
        <5> QED BY <5>1, StreamAssumption, SMT
      <4>3. CASE chan[e][i].cmd # "WRTE"
        <5>1. chan[e][i].data = << >>
          BY <4>1, <4>3 DEF Bytes
        <5> QED BY <5>1, StreamAssumption, SMT
      <4> QED BY <4>2, <4>3
    <3> QED BY <3>1, <3>2 DEF IInv, Types, TypeOK, Data
  <2>2. ASSUME up, \A e \in Ends : st[e] = "open", NEW e \in Ends PROVE Credits(e) # {}
    <3>1. e \in readOn \/ Sent(e) \/ Waits(e) \/ Asked(e)
      BY <2>2 DEF IInv, Live, Connected, Found
    <3>2. Sent(e) => \E i : i \in Places(chan[e], "WRTE")
      BY DEF Sent, Has, Range, Places
    <3>3. Asked(e) => \E i : i \in Places(chan[Other(e)], "OKAY")
      BY DEF Asked, Has, Range, Places
    <3>4. Waits(e) => \E i : i \in DOMAIN pkts[Other(e)]
      <4>1. ASSUME NEW S, NEW s \in Seq(S), s # << >> PROVE 1 \in DOMAIN s
        BY <4>1, SMT
      <4> QED BY <4>1, TwoEnds DEF Waits, IInv, Types
    <3>5. e \in readOn => <<"reads", e>> \in Credits(e)
      BY DEF Credits
    <3>6. \A i \in Places(chan[e], "WRTE") : <<"sent", i>> \in Credits(e)
      BY DEF Credits
    <3>7. \A i \in DOMAIN pkts[Other(e)] : <<"waits", i>> \in Credits(e)
      BY DEF Credits
    <3>8. \A i \in Places(chan[Other(e)], "OKAY") : <<"asked", i>> \in Credits(e)
      BY DEF Credits
    <3> QED BY <3>1, <3>2, <3>3, <3>4, <3>5, <3>6, <3>7, <3>8
  <2>3. ASSUME NEW e \in Ends, NEW x \in Credits(e), NEW y \in Credits(e) PROVE x = y
    <3> DEFINE o == Other(e)
    <3>0. o \in Ends
      BY TwoEnds
    <3>1. \A i, j \in Places(chan[e], "WRTE") : i = j /\ Sent(e)
      BY DEF Places, IInv, Types, Fine, Sent, Has, Range
    <3>2. \A i, j \in Places(chan[o], "OKAY") : i = j /\ Asked(e)
      BY <3>0 DEF Places, IInv, Types, Fine, Asked, Has, Range
    <3>3. \A i, j \in DOMAIN pkts[o] : i = j /\ Waits(e)
      <4>1. ASSUME NEW S, NEW s \in Seq(S), Len(s) <= 1, NEW i \in DOMAIN s, NEW j \in DOMAIN s
            PROVE  i = j /\ s # << >>
        BY <4>1, SMT
      <4> QED BY <3>0, <4>1 DEF IInv, Types, Single, Waits
    <3>4. Single(e)
      BY DEF IInv
    <3> HIDE DEF o
    <3>5. \A z \in Credits(e) :
            \/ z = <<"reads", e>> /\ e \in readOn
            \/ \E i \in Places(chan[e], "WRTE") : z = <<"sent", i>>
            \/ \E i \in DOMAIN pkts[o] : z = <<"waits", i>>
            \/ \E i \in Places(chan[o], "OKAY") : z = <<"asked", i>>
      BY SMT DEF Credits, o
    <3> QED BY <3>1, <3>2, <3>3, <3>4, <3>5 DEF Single
  <2> QED BY <2>1, <2>2, <2>3 DEF OneCredit
<1> QED
  BY <1>1, Invariance, PTL

---------------------------------------------------------------------------
(* The stream implements Pipe, one step at a time.                         *)

(* adb serves k bytes and perhaps closes a descriptor.                     *)
LEMMA Served ==
  ASSUME IInv, NEW e \in Ends, NEW k \in Nat, Len(got[e]) + k <= wrote[Other(e)],
         k > 0 => st[e] # "closed",
         got' = [got EXCEPT ![e] = got[e] \o [i \in 1 .. k |-> Len(got[e]) + i]],
         refused' \in {refused, got = [d \in Ends |-> << >>]},
         \A d \in Ends : st[d] = "closed" => st'[d] = "closed",
         \A d \in Ends : st'[d] = "closed" /\ st[d] # "closed" =>
            ~up \/ refused' \/ d \in eof \/ Other(d) \in gone \/ (Other(d) \in eof /\ Len(got'[d]) = wrote[Other(d)]),
         UNCHANGED <<wrote, eof, gone, up>>
  PROVE  Abstract!Next
<1>1. k \in 0 .. wrote[Other(e)] - Len(got[e])
  <2>1. got[e] \in Data /\ wrote[Other(e)] \in Nat
    BY TwoEnds DEF IInv, Types
  <2>2. Len(got[e]) \in Nat
    BY <2>1, DataFacts
  <2>3. PICK m \in Nat, w \in Nat : m = Len(got[e]) /\ w = wrote[Other(e)]
    BY <2>1, <2>2
  <2>4. m + k <= w
    BY <2>3
  <2>5. k \in 0 .. w - m
    BY <2>4, SMT
  <2> QED BY <2>3, <2>5
<1>2. \A d \in {x \in Ends : st[x] = "closed"}' \ {x \in Ends : st[x] = "closed"} : Abstract!MayClose(d)
  BY DEF Abstract!MayClose, Abstract!Complete
<1>3. /\ {x \in Ends : st[x] = "closed"} \subseteq {x \in Ends : st[x] = "closed"}'
      /\ {x \in Ends : st[x] = "closed"}' \subseteq Ends
  OBVIOUS
<1>4. Abstract!Serve
  BY <1>1, <1>2, <1>3 DEF Abstract!Serve
<1> QED
  BY <1>4 DEF Abstract!Next

(* A step that delivers nothing, and closes for a reason, is one of Pipe.  *)
LEMMA QuietlyServed ==
  ASSUME IInv, got' = got, refused' \in {refused, got = [d \in Ends |-> << >>]},
         \A d \in Ends : st[d] = "closed" => st'[d] = "closed",
         \A d \in Ends : st'[d] = "closed" /\ st[d] # "closed" =>
            ~up \/ refused' \/ d \in eof \/ Other(d) \in gone \/ (Other(d) \in eof /\ Len(got'[d]) = wrote[Other(d)]),
         UNCHANGED <<wrote, eof, gone, up>>
  PROVE  Abstract!Next
<1>1. PICK e \in Ends : TRUE
  BY TwoEnds
<1>2. got \in [Ends -> Data] /\ got[e] \in Data /\ wrote[Other(e)] \in Nat
  BY TwoEnds DEF IInv, Types
<1>3. got[e] \o [i \in 1 .. 0 |-> Len(got[e]) + i] = got[e]
  <2>1. [i \in 1 .. 0 |-> Len(got[e]) + i] = << >>
    BY SMT
  <2>2. got[e] \o << >> = got[e]
    BY <1>2, SMT DEF Data
  <2> QED BY <2>1, <2>2
<1>4. got' = [got EXCEPT ![e] = got[e] \o [i \in 1 .. 0 |-> Len(got[e]) + i]]
  BY <1>2, <1>3
<1>5. Len(got[e]) + 0 <= wrote[Other(e)]
  <2>1. PICK o \in Ends : o = Other(e) /\ Other(o) = e
    BY TwoEnds
  <2>2. inbuf[o] \in Data /\ Len(got[e]) + Len(inbuf[o]) <= wrote[o]
    BY <2>1 DEF IInv, Bytes, Types
  <2>3. Len(got[e]) \in Nat /\ Len(inbuf[o]) \in Nat
    BY <1>2, <2>2, DataFacts
  <2>4. PICK m \in Nat, r \in Nat, w \in Nat : m = Len(got[e]) /\ w = wrote[o] /\ r = Len(inbuf[o])
    BY <1>2, <2>1, <2>3
  <2>5. m + r <= w
    BY <2>2, <2>4
  <2>6. m + 0 <= w
    BY <2>5, SMT
  <2> QED BY <2>1, <2>4, <2>6
<1>6. PICK k \in Nat : k = 0
  OBVIOUS
<1>7. ~(k > 0)
  BY <1>6, SMT
<1>8. Len(got[e]) + k <= wrote[Other(e)]
  BY <1>5, <1>6
<1>9. got' = [got EXCEPT ![e] = got[e] \o [i \in 1 .. k |-> Len(got[e]) + i]]
  BY <1>4, <1>6
<1> QED
  BY <1>7, <1>8, <1>9, Served

(* The bytes that event_write and packet_wrte hand over.                   *)
LEMMA DeliversServes ==
  ASSUME IInv, NEW e \in Ends, NEW p \in Data, NEW k \in 0 .. Len(p), NEW left,
         Follows(p, Len(got[e]), Len(inbuf[Other(e)]), wrote[Other(e)]),
         st[e] \in {"open", "closing"},
         left = IF k < Len(p) THEN << Rest(p, k) >> ELSE << >>,
         Delivers(e, p, k, left)
  PROVE  Abstract!Next
<1> DEFINE o == Other(e)
<1>0. o \in Ends /\ Other(o) = e
  BY TwoEnds
<1>1. PICK g \in Data, r \in Nat, w \in Nat : g = got[e] /\ r = Len(inbuf[o]) /\ w = wrote[o]
  <2>1. got[e] \in Data /\ inbuf[o] \in Data /\ wrote[o] \in Nat
    BY <1>0 DEF IInv, Types
  <2>2. Len(inbuf[o]) \in Nat
    BY <2>1, DataFacts
  <2> QED BY <2>1, <2>2
<1>2. Continues(g, p, k, r, w)
  <2>1. \A i \in 1 .. Len(g) : g[i] = i
    BY <1>0, <1>1 DEF IInv, Bytes
  <2>2. Follows(p, Len(g), r, w)
    BY <1>1
  <2> QED BY <2>1, <2>2, WriteSome
<1>3. /\ got' = [got EXCEPT ![e] = got[e] \o SubSeq(p, 1, k)]
      /\ st' = IF left = << >> /\ st[e] = "closing" THEN [st EXCEPT ![e] = "closed"] ELSE st
      /\ UNCHANGED <<up, wrote, eof, gone, refused>>
  BY DEF Delivers
<1>4. got' = [got EXCEPT ![e] = got[e] \o [i \in 1 .. k |-> Len(got[e]) + i]]
  BY <1>1, <1>2, <1>3 DEF Continues
<1>5. PICK m \in Nat : m = Len(g) /\ k \in Nat
  <2>1. Len(g) \in Nat /\ Len(p) \in Nat
    BY DataFacts
  <2> QED BY <2>1, SMT
<1>6. m + k + r <= w /\ (~(k < Len(p)) => m + k + r = w) /\ Len(g \o SubSeq(p, 1, k)) = m + k
  BY <1>2, <1>5 DEF Continues
<1>7. m + k <= w
  BY <1>5, <1>6, SMT
<1>8. ASSUME left = << >>, AllRead(e) PROVE Len(got'[e]) = w
  <2>1. ~(k < Len(p))
    BY <1>8, SMT
  <2>2. r = 0
    BY <1>1, <1>8 DEF AllRead
  <2>3. m + k = w
    BY <1>5, <1>6, <2>1, <2>2, SMT
  <2>4. got'[e] = g \o SubSeq(p, 1, k)
    BY <1>1, <1>3 DEF IInv, Types
  <2> QED BY <1>6, <2>3, <2>4
<1>9. ASSUME NEW d \in Ends, st'[d] = "closed", st[d] # "closed"
      PROVE  ~up \/ refused' \/ d \in eof \/ Other(d) \in gone \/ (Other(d) \in eof /\ Len(got'[d]) = wrote[Other(d)])
  <2>1. d = e /\ left = << >> /\ st[e] = "closing"
    BY <1>3, <1>9 DEF IInv, Types
  <2>2. Excused(e) \/ AllRead(e)
    BY <2>1 DEF IInv, Reasons
  <2>3. CASE Excused(e)
    BY <1>3, <2>1, <2>3 DEF Excused
  <2>4. CASE AllRead(e)
    <3>1. Len(got'[e]) = wrote[o]
      BY <1>1, <1>8, <2>1, <2>4
    <3> QED BY <2>1, <2>4, <3>1 DEF AllRead
  <2> QED BY <2>2, <2>3, <2>4
<1>10. \A d \in Ends : st[d] = "closed" => st'[d] = "closed"
  BY <1>3 DEF IInv, Types
<1>11. k \in Nat /\ Len(got[e]) + k <= wrote[Other(e)]
  BY <1>1, <1>5, <1>7
<1> QED
  BY <1>3, <1>4, <1>9, <1>10, <1>11, Served

(* Close, at an end with a reason for it.                                  *)
LEMMA ClosingServes ==
  ASSUME IInv, NEW e \in Ends, NEW left, Close(e, left), Found(e) \/ st[e] = "closing",
         Excused(e) \/ (left = << >> => Other(e) \in eof /\ Len(got[e]) = wrote[Other(e)] /\ Found(e)),
         st[e] = "closing" => Excused(e),
         UNCHANGED <<got, refused, wrote, eof, gone, up>>
  PROVE  Abstract!Next
<1>1. PICK b \in BOOLEAN : b = Closing(e, left)
  BY DEF Closing
<1>2. st' = [st EXCEPT ![e] = IF b THEN "closing" ELSE "closed"]
  BY <1>1 DEF Close
<1>3. ~b => left = << >> \/ st[e] = "closing"
  BY <1>1 DEF Closing
<1>4. \A d \in Ends : d # e => st'[d] = st[d]
  BY <1>2 DEF IInv, Types
<1>5. st[e] # "closed" /\ (st'[e] = "closed" => ~b)
  BY <1>2 DEF IInv, Types, Found
<1>6. \A d \in Ends : st[d] = "closed" => st'[d] = "closed"
  BY <1>4, <1>5
<1>7. ASSUME NEW d \in Ends, st'[d] = "closed", st[d] # "closed"
      PROVE  ~up \/ refused' \/ d \in eof \/ Other(d) \in gone \/ (Other(d) \in eof /\ Len(got'[d]) = wrote[Other(d)])
  <2>1. d = e
    BY <1>4, <1>7
  <2> QED BY <1>3, <1>5, <1>7, <2>1 DEF Excused
<1> QED
  BY <1>6, <1>7, QuietlyServed

(* A socket event is a step of Pipe.                                       *)
LEMMA EventServes ==
  ASSUME IInv, NEW e \in Ends, local_socket_event_func(e)
  PROVE  Abstract!Next
<1>1. CASE event_read(e)
  <2>1. st[e] = "open" /\ UNCHANGED <<got, refused, wrote, eof, gone, up>>
    BY <1>1 DEF event_read
  <2>2. CASE e \in eof /\ ReadSize(e) < MaxPayload
    <3>1. Close(e, pkts[e]) /\ Excused(e) /\ Found(e)
      BY <1>1, <2>1, <2>2 DEF event_read, Excused, Found
    <3> QED BY <2>1, <3>1, ClosingServes
  <2>3. CASE ~(e \in eof /\ ReadSize(e) < MaxPayload)
    <3>1. st' = st
      BY <1>1, <2>3 DEF event_read
    <3> QED BY <2>1, <3>1, QuietlyServed
  <2> QED BY <2>2, <2>3
<1>2. ASSUME NEW k \in 1 .. MaxPayload, event_write(e, k) PROVE Abstract!Next
  <2>1. PICK p \in Data : p = Head(pkts[e]) /\ Follows(p, Len(got[e]), Len(inbuf[Other(e)]), wrote[Other(e)])
    BY <1>2, Queued DEF event_write
  <2>2. st[e] \in {"open", "closing"} /\ Tail(pkts[e]) = << >>
    BY <1>2, Queued DEF event_write
  <2> DEFINE left == IF k < Len(p) THEN << Rest(p, k) >> ELSE << >>
  <2>3. << Rest(p, k) >> \o << >> = << Rest(p, k) >>
    BY SMT
  <2>4. left = IF k < Len(p) THEN << Rest(p, k) >> \o Tail(pkts[e]) ELSE Tail(pkts[e])
    BY <2>2, <2>3
  <2>5. Delivers(e, p, k, left)
    BY <1>2, <2>1, <2>4 DEF event_write, Written, appVars, Delivers
  <2>6. k \in 0 .. Len(p)
    BY <1>2, <2>1, SMT DEF event_write
  <2> QED BY <2>1, <2>2, <2>5, <2>6, DeliversServes
<1>3. CASE event_write_failed(e)
  <2>1. /\ Close(e, pkts[e]) /\ e \in gone /\ pkts[e] # << >>
        /\ UNCHANGED <<got, refused, wrote, eof, gone, up>>
    BY <1>3 DEF event_write_failed, appVars
  <2>2. Excused(e)
    BY <2>1 DEF Excused, IInv, Types
  <2>3. Found(e) \/ st[e] = "closing"
    BY <2>1, Queued DEF Found
  <2> QED BY <2>1, <2>2, <2>3, ClosingServes
<1> QED
  BY <1>1, <1>2, <1>3 DEF local_socket_event_func

(* A packet that is handled is a step of Pipe.                             *)
LEMMA PacketServes ==
  ASSUME IInv, NEW e \in Ends, handle_packet(e)
  PROVE  Abstract!Next
<1> DEFINE o == Other(e)
<1>0. o \in Ends /\ Other(o) = e
  BY TwoEnds
<1>1. CASE packet_open(e) \/ packet_open_refused(e)
  <2>1. e = "device" /\ st["device"] = "none"
    BY <1>1, Opens DEF packet_open, packet_open_refused
  <2>2. got = [d \in Ends |-> << >>]
    BY <2>1 DEF IInv, Start, Types
  <2>3. UNCHANGED <<got, wrote, eof, gone, up>>
    BY <1>1 DEF packet_open, packet_open_refused, appVars
  <2>4. refused' = refused \/ (refused' = TRUE)
    BY <1>1 DEF packet_open, packet_open_refused
  <2>5. refused' \in {refused, got = [d \in Ends |-> << >>]}
    BY <2>2, <2>4
  <2>6. CASE packet_open(e)
    <3>1. \A d \in Ends : (st[d] = "closed" => st'[d] = "closed") /\ (st'[d] = "closed" => st[d] = "closed")
      BY <2>1, <2>6 DEF packet_open, IInv, Types
    <3> QED BY <2>3, <2>5, <3>1, QuietlyServed
  <2>7. CASE packet_open_refused(e)
    <3>1. (\A d \in Ends : st[d] = "closed" => st'[d] = "closed") /\ refused'
      BY <2>1, <2>7 DEF packet_open_refused, IInv, Types
    <3> QED BY <2>3, <2>5, <3>1, QuietlyServed
  <2> QED BY <1>1, <2>6, <2>7
<1>2. CASE packet_okay(e)
  <2>1. UNCHANGED <<got, refused, wrote, eof, gone, up>>
    BY <1>2 DEF packet_okay, appVars
  <2>2. \A d \in Ends : (st[d] = "closed" => st'[d] = "closed") /\ (st'[d] = "closed" => st[d] = "closed")
    BY <1>2 DEF packet_okay, Found, IInv, Types
  <2> QED BY <2>1, <2>2, QuietlyServed
<1>3. CASE packet_clse(e)
  <2>1. UNCHANGED <<got, refused, wrote, eof, gone, up>> /\ Receives(e, "CLSE")
    BY <1>3 DEF packet_clse, appVars
  <2>2. CASE ~Found(e)
    <3>1. st' = st
      BY <1>3, <2>2 DEF packet_clse
    <3> QED BY <2>1, <3>1, QuietlyServed
  <2>3. CASE Found(e)
    <3>1. Close(e, pkts[e])
      BY <1>3, <2>3 DEF packet_clse
    <3>2. Has(chan[o], "CLSE") /\ chan[o] # << >> /\ Head(chan[o]).cmd = "CLSE"
      BY <2>1, Received
    <3>3. Range(chan[o]) = {Head(chan[o])}
      BY <1>0, <3>2, FineTail DEF IInv, Types
    <3>4. ~Sent(o) /\ (pkts[e] = << >> => ~Waits(o))
      BY <1>0, <3>2, <3>3 DEF Sent, Has, Waits
    <3>5. Excused(e) \/ (AllRead(e) /\ (Sent(o) \/ Waits(o) \/ Len(got[e]) = wrote[o]))
      BY <2>3, <3>2 DEF IInv, Reasons
    <3>6. Excused(e) \/ (pkts[e] = << >> => o \in eof /\ Len(got[e]) = wrote[o] /\ Found(e))
      BY <2>3, <3>4, <3>5 DEF AllRead
    <3>7. st[e] # "closing"
      BY <2>3 DEF Found
    <3> QED BY <2>1, <2>3, <3>1, <3>6, <3>7, ClosingServes
  <2> QED BY <2>2, <2>3
<1>4. ASSUME NEW k \in 0 .. MaxPayload, packet_wrte(e, k) PROVE Abstract!Next
  <2>1. Receives(e, "WRTE") /\ Found(e)
    BY <1>4 DEF packet_wrte
  <2>2. PICK p \in Data, left \in Seq(Data) :
          /\ Follows(p, Len(got[e]), Len(inbuf[o]), wrote[o]) /\ k \in 0 .. Len(p)
          /\ left = IF k < Len(p) THEN << Rest(p, k) >> ELSE << >>
          /\ Delivers(e, p, k, left) /\ st[e] = "open"
    BY <1>4, WrteDelivers
  <2>3. st[e] \in {"open", "closing"}
    BY <2>2
  <2> QED BY <2>2, <2>3, DeliversServes
<1>5. CASE packet_wrte_failed(e)
  <2>1. Close(e, << >>) /\ e \in gone /\ Found(e) /\ UNCHANGED <<got, refused, wrote, eof, gone, up>>
    BY <1>5 DEF packet_wrte_failed, appVars
  <2>2. Excused(e)
    BY <2>1 DEF Excused, IInv, Types
  <2> QED BY <2>1, <2>2, ClosingServes
<1>6. CASE packet_wrte_dropped(e)
  <2>1. UNCHANGED <<st, got, refused, wrote, eof, gone, up>>
    BY <1>6 DEF packet_wrte_dropped, endVars, appVars
  <2> QED BY <2>1, QuietlyServed
<1> QED
  BY <1>1, <1>2, <1>3, <1>4, <1>5, <1>6 DEF handle_packet

(* A stream keeps the promise of Pipe, whatever its two ends, their        *)
(* applications and the transport do: no byte is lost, doubled or out of   *)
(* order on the way from one descriptor to the other, and a descriptor is  *)
(* only closed for one of Pipe's reasons.                                  *)
THEOREM Simulation == Spec => ImplementsPipe
<1>1. Init => Abstract!Init
  BY DEF Init, Abstract!Init
<1>2. IInv /\ [Next]_vars => [Abstract!Next]_(Abstract!vars)
  <2> SUFFICES ASSUME IInv, [Next]_vars PROVE [Abstract!Next]_(Abstract!vars)
    OBVIOUS
  <2>1. ASSUME NEW e \in Ends, local_socket_event_func(e) \/ handle_packet(e) PROVE Abstract!Next
    BY <2>1, EventServes, PacketServes
  <2>2. ASSUME NEW e \in Ends, close_all_sockets(e) PROVE Abstract!Next
    <3>1. ~up /\ Close(e, pkts[e]) /\ Found(e) /\ UNCHANGED <<got, refused, wrote, eof, gone, up>>
      BY <2>2 DEF close_all_sockets, appVars
    <3>2. Excused(e)
      BY <3>1 DEF Excused
    <3> QED BY <3>1, <3>2, ClosingServes
  <2>3. ASSUME NEW e \in Ends, App(e) PROVE Abstract!Next
    <3>1. CASE AppWrite(e)
      <4>1. Abstract!Write(e)
        BY <3>1 DEF AppWrite, Abstract!Write, endVars
      <4> QED BY <4>1 DEF Abstract!Next
    <3>2. ASSUME NEW closes \in BOOLEAN, AppFinish(e, closes) PROVE Abstract!Next
      <4>1. Abstract!Finish(e)
        BY <3>2 DEF AppFinish, Abstract!Finish, endVars
      <4> QED BY <4>1 DEF Abstract!Next
    <3> QED BY <2>3, <3>1, <3>2 DEF App
  <2>4. CASE LinkLost
    <3>1. Abstract!Lose
      BY <2>4 DEF LinkLost, Abstract!Lose, endVars, appVars
    <3> QED BY <3>1 DEF Abstract!Next
  <2>5. CASE UNCHANGED vars
    BY <2>5 DEF vars, endVars, appVars, Abstract!vars
  <2>6. CASE smart_socket_enqueue \/ smart_socket_offline
    <3>1. /\ UNCHANGED <<got, refused, wrote, eof, gone, up>> /\ st["host"] = "none"
          /\ \E x \in {"opening", "closed"} : st' = [st EXCEPT !["host"] = x] /\ (x = "closed" => ~up \/ "host" \in eof)
      BY <2>6 DEF smart_socket_enqueue, smart_socket_offline, appVars
    <3>2. \A d \in Ends : /\ st[d] = "closed" => st'[d] = "closed"
                          /\ st'[d] = "closed" /\ st[d] # "closed" => ~up \/ d \in eof
      BY <3>1 DEF IInv, Types
    <3> QED BY <3>1, <3>2, QuietlyServed
  <2> QED BY <2>1, <2>2, <2>3, <2>4, <2>5, <2>6 DEF Next
<1>3. Spec => []IInv
  BY Invariance
<1> QED
  BY <1>1, <1>2, <1>3, PTL DEF Spec, ImplementsPipe, Abstract!Spec
=============================================================================
