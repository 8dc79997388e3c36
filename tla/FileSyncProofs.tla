--------------------------- MODULE FileSyncProofs ---------------------------
(* The safety of the file sync client, for any tree of files, any contents *)
(* and any number of commands.                                             *)
EXTENDS FileSync, TLAPS

(* A leaf that names no prover is Zenon's.                                 *)
USE Zenon

IsSeq(s) == s \in Seq(Range(s))
Prefix(s, t) == Len(s) <= Len(t) /\ \A i \in 1 .. Len(s) : s[i] = t[i]
Suffix(s, t) == Len(s) <= Len(t) /\ \A i \in 1 .. Len(s) : s[i] = t[Len(t) - Len(s) + i]
Nodes == DOMAIN Parent

StatStages == {"stat_write", "stat_read"}
ListStages == {"list_write", "list_read"}
SendStages == {"send_req", "send_data", "send_done", "send_status"}
RecvStages == {"recv_req", "recv_first", "recv_data"}
Copying == {"next", "quit"} \cup SendStages \cup RecvStages

(* A copy: what has the source's time is the source's as far as it goes.   *)
File(d, t) == [data |-> d, time |-> t]
IsCopy(f, c) ==
  /\ c = File(c.data, c.time) /\ IsSeq(c.data) /\ c.time \in {0, 1}
  /\ c.time = 1 => Prefix(c.data, Content[f])

(* What the client asks for, and what the service is asked to do.          *)
IsRequest(m) ==
  /\ m = Msg(m.id, m.file, m.x)
  /\ m.id \in {"SEND", "RECV"} => m.file \in Files
  /\ m.id = "LIST" => m.file \in Dirs
  /\ m.id = "STAT" => m.file \in Nodes /\ (cmd \notin Pulls => m.file \in Files)
Doing(d) == dmn = [does |-> d, file |-> dmn.file, rest |-> dmn.rest]

ClientTypes ==
  /\ cmd \in Commands /\ pc \in Stages /\ result \in {"none", "success", "error"}
  /\ runs \in 1 .. MaxRuns
  /\ IsSeq(todo) /\ IsSeq(left) /\ IsSeq(dirs)
  /\ Range(todo) \subseteq Files /\ Range(dirs) \subseteq Dirs
  /\ flag \subseteq Files /\ unread \subseteq Files
ConnTypes ==
  /\ IsSeq(toD) /\ IsSeq(fromD) /\ Len(toD) <= Cap /\ Len(fromD) <= Cap /\ link \in BOOLEAN
  /\ \A i \in 1 .. Len(toD) : IsRequest(toD[i])
DmnTypes ==
  /\ refused \subseteq Files
  /\ dmn.does \in {"idle", "LIST", "RECV", "SEND", "skip"}
  /\ Doing(dmn.does) /\ IsSeq(dmn.rest)
  /\ dmn.does = "idle" => dmn = Idle
  /\ dmn.does \in {"RECV", "SEND", "skip"} => dmn.file \in Files
DstTypes ==
  dst = [f \in Files |-> dst[f]] /\ \A f \in Files : dst[f] = None \/ IsCopy(f, dst[f])
Types == ClientTypes /\ ConnTypes /\ DmnTypes /\ DstTypes

(* Which command may be where, with what.                                  *)
Control ==
  /\ pc = "start" => todo = << >> /\ dirs = << >> /\ unread = {}
  /\ pc # "end" => result = "none"
  /\ IsInjective(todo)
  /\ pc = "send_req" => left = Content[Head(todo)]
  /\ pc \in StatStages => cmd \notin {"ls", "pushdir"} /\ left # << >>
  /\ pc \in ListStages => cmd \in {"pulldir", "ls"}
  /\ pc = "list_write" => dirs # << >>
  /\ pc \in SendStages => cmd \notin Pulls \cup {"list"} /\ todo # << >> /\ Head(todo) \notin flag
  /\ pc \in RecvStages => cmd \in {"pull", "pulldir"} /\ todo # << >>
  /\ cmd \notin {"pulldir", "ls"} => dirs = << >>
  /\ cmd = "ls" => todo = << >>
  /\ cmd \in Pulls => flag = {}
  /\ cmd \in Pulls /\ pc \notin Copying \cup {"end"} => refused = {}

---------------------------------------------------------------------------
(* What is on the wire.                                                    *)

Quiet == toD = << >> /\ fromD = << >> /\ dmn = Idle

(* The ID_STAT requests of the list, in order: first the replies, then the *)
(* requests that wait.                                                     *)
Asked == IF pc = "stat_read" THEN left ELSE todo \o dirs
Asking ==
  /\ dmn = Idle
  /\ \A i \in 1 .. Len(left) : left[i] \in Nodes /\ (cmd \notin Pulls => left[i] \in Files)
  /\ pc = "stat_write" => Suffix(left, Asked)
  /\ Len(fromD) + Len(toD) = Len(Asked) - (IF pc = "stat_write" THEN Len(left) ELSE 0)
  /\ \A i \in 1 .. Len(fromD) : /\ fromD[i] = Msg("STAT", Asked[i], fromD[i].x)
                                /\ cmd \notin Pulls => fromD[i].x = Stat(Asked[i])
  /\ \A i \in 1 .. Len(toD) : toD[i] = Msg("STAT", Asked[Len(fromD) + i], None)

(* ID_SEND: n chunks of f have been sent, the last k + 1 to n of them are  *)
(* on their way behind the first h messages, and then ID_DONE.             *)
OnTheWay(f, h, k, n, done) ==
  /\ k <= n /\ Len(toD) = h + (n - k) + done
  /\ \A i \in 1 .. n - k : toD[h + i] = Msg("DATA", f, Content[f][k + i])
  /\ done = 1 => toD[Len(toD)] = Msg("DONE", f, 1)
Offered(f, n, done) ==
  /\ dmn = Idle /\ fromD = << >>
  /\ OnTheWay(f, 1, 0, n, done) /\ toD[1] = Msg("SEND", f, None)
Storing(f, n, done) ==
  /\ Doing("SEND") /\ dmn.file = f /\ fromD = << >>
  /\ dst[f] = File(dst[f].data, 0) /\ IsSeq(dst[f].data) /\ Prefix(dst[f].data, Content[f])
  /\ OnTheWay(f, 0, Len(dst[f].data), n, done)
Skipping(f, done) ==
  /\ Doing("skip") /\ fromD = << Msg("FAIL", f, None) >>
  /\ Len(toD) >= done
  /\ \A i \in 1 .. Len(toD) : toD[i].id = IF done = 1 /\ i = Len(toD) THEN "DONE" ELSE "DATA"
Answered(f, n, done) ==
  /\ done = 1 /\ dmn = Idle /\ toD = << >>
  /\ \/ fromD = << Msg("FAIL", f, None) >>
     \/ /\ fromD = << Msg("OKAY", f, None) >>
        /\ dst[f] = File(dst[f].data, 1) /\ IsSeq(dst[f].data) /\ Prefix(dst[f].data, Content[f])
        /\ Len(dst[f].data) = n

Sending ==
  LET f == Head(todo)
      n == Len(Content[f]) - Len(left)
      done == IF pc = "send_status" THEN 1 ELSE 0
  IN  /\ Suffix(left, Content[f])
      /\ pc # "send_data" => left = << >> \/ f \in unread
      /\ Offered(f, n, done) \/ Storing(f, n, done) \/ Skipping(f, done) \/ Answered(f, n, done)

(* ID_RECV: g chunks of f have arrived, the next k are on their way.       *)
Arriving(f, g, k) == \A i \in 1 .. k : fromD[i] = Msg("DATA", f, Content[f][g + i])
Called(f) == pc = "recv_first" /\ dmn = Idle /\ toD = << Msg("RECV", f, None) >> /\ fromD = << >> /\ f \notin refused
Served(f, g) ==
  /\ Doing("RECV") /\ dmn.file = f /\ toD = << >> /\ f \notin refused
  /\ Suffix(dmn.rest, Content[f]) /\ g + Len(fromD) + Len(dmn.rest) = Len(Content[f])
  /\ Arriving(f, g, Len(fromD))
Ended(f, g) ==
  /\ dmn = Idle /\ toD = << >> /\ fromD # << >> /\ Arriving(f, g, Len(fromD) - 1)
  /\ g + (Len(fromD) - 1) <= Len(Content[f])
  /\ \/ /\ fromD[Len(fromD)] = Msg("DONE", f, None) /\ f \notin refused
        /\ g + (Len(fromD) - 1) = Len(Content[f])
     \/ fromD[Len(fromD)] = Msg("FAIL", f, None) /\ f \in refused

Receiving ==
  LET f == Head(todo)
      g == IF pc = "recv_first" THEN 0 ELSE Len(dst[f].data)
  IN  /\ pc = "recv_data" => /\ dst[f] = File(dst[f].data, 0) /\ IsSeq(dst[f].data)
                             /\ Prefix(dst[f].data, Content[f])
      /\ Called(f) \/ Served(f, g) \/ Ended(f, g)

(* ID_LIST: the entries on their way, and those still to be sent.          *)
Dents(k) == \A i \in 1 .. k : fromD[i] = Msg("DENT", fromD[i].file, None) /\ fromD[i].file \in Nodes
Listing ==
  \/ dmn = Idle /\ fromD = << >> /\ \E d \in Dirs : toD = << Msg("LIST", d, None) >>
  \/ /\ Doing("LIST") /\ toD = << >> /\ Range(dmn.rest) \subseteq Nodes
     /\ Dents(Len(fromD))
  \/ /\ dmn = Idle /\ toD = << >> /\ fromD # << >> /\ Dents(Len(fromD) - 1)
     /\ fromD[Len(fromD)].id = "DONE"

Wire ==
  IF ~link THEN Quiet
  ELSE /\ pc \in {"start", "next", "send_req", "recv_req", "list_write", "quit"} => Quiet
       /\ pc \in StatStages => Asking
       /\ pc \in {"send_data", "send_done", "send_status"} => Sending
       /\ pc \in {"recv_first", "recv_data"} => Receiving
       /\ pc = "list_read" => Listing
       /\ pc = "end" => dmn.does # "SEND" /\ \A i \in 1 .. Len(toD) : toD[i].id # "SEND"

---------------------------------------------------------------------------
(* What is found, and what is copied.                                      *)

Dent == {i \in 1 .. Len(fromD) : fromD[i].id = "DENT"}
Rest == IF dmn.does = "LIST" THEN dmn.rest ELSE << >>
Coming == {fromD[i].file : i \in Dent} \cup Range(Rest)
ToList == {toD[i].file : i \in {i \in 1 .. Len(toD) : toD[i].id = "LIST"}}
Pending == Range(todo) \cup Range(dirs) \cup Coming \cup ToList

Below(d) == {x \in Nodes : \A S \in SUBSET Nodes : Entries(d) \subseteq S /\ Closed(S) => x \in S}

(* A pull of a directory finds every file, and finds it once.              *)
Finding ==
  /\ \A S \in SUBSET Nodes : Pending \subseteq S /\ Closed(S) => Files \subseteq S
  /\ IsInjective(dirs) /\ IsInjective(Rest)
  /\ \A i, j \in Dent : fromD[i].file = fromD[j].file => i = j
  /\ \A i \in Dent : fromD[i].file \notin Range(Rest)
  /\ Coming \cap (Range(todo) \cup Range(dirs)) = {}
  /\ ToList \cap Range(dirs) = {}
  /\ \A d \in Pending \cap Dirs : Below(d) \cap Pending = {}
Discovery == link /\ cmd = "pulldir" /\ pc \in StatStages \cup ListStages => Finding

Target == IF cmd \in OneFile THEN {First} ELSE Files
Copied(f) ==
  IF cmd \in Pulls
  THEN IF f \in refused THEN dst[f] = None ELSE dst[f] # None /\ dst[f].data = Content[f]
  ELSE f \in unread \/ dst[f] = New(f)

(* Every file is on the list or copied; a refused one was the last.        *)
Progress ==
  /\ cmd \notin {"ls", "list"} /\ (pc \in Copying \/ (pc \in StatStages /\ cmd # "pulldir")) =>
       \A f \in Target : f \in Range(todo) \/ Copied(f)
  /\ cmd \in {"pull", "pulldir"} /\ pc \in Copying =>
       \A f \in refused \cap Range(todo) : pc \in {"recv_first", "recv_data"} /\ f = Head(todo)
  /\ pc = "quit" => todo = << >>
Success ==
  result = "success" =>
    /\ cmd \notin {"ls", "list"} => \A f \in Target : Copied(f)
    /\ dmn = Idle /\ \A i \in 1 .. Len(toD) : toD[i].id = "QUIT"

IInv ==
  /\ Types /\ Control /\ Wire /\ Discovery /\ Progress /\ Success
  /\ SkippedIsCurrent

---------------------------------------------------------------------------
(* Sequences.                                                              *)

(* The positions and the elements of a sequence.                           *)
LEMMA SeqFacts ==
  ASSUME NEW s, IsSeq(s)
  PROVE  /\ Len(s) \in Nat /\ DOMAIN s = 1 .. Len(s)
         /\ \A i \in 1 .. Len(s) : s[i] \in Range(s)
         /\ Len(s) = 0 <=> s = << >>
         /\ s # << >> <=> 1 <= Len(s)
<1>1. Len(s) \in Nat /\ DOMAIN s = 1 .. Len(s)
  BY SMT DEF IsSeq
<1>2. ASSUME NEW S, NEW r \in Seq(S) PROVE (Len(r) = 0 <=> r = << >>) /\ (r # << >> <=> 1 <= Len(r))
  BY SMT
<1> QED
  BY <1>1, <1>2 DEF IsSeq, Range

(* A sequence of members of some set is one.                               *)
LEMMA SeqIsSeq ==
  ASSUME NEW S, NEW s \in Seq(S)
  PROVE  IsSeq(s) /\ Range(s) \subseteq S
<1>1. s \in [1 .. Len(s) -> S] /\ Len(s) \in Nat
  BY SMT
<1>2. s \in [1 .. Len(s) -> Range(s)]
  BY <1>1 DEF Range
<1>3. ASSUME NEW R, NEW n \in Nat, NEW r \in [1 .. n -> R] PROVE r \in Seq(R)
  BY SMT
<1> QED
  BY <1>1, <1>2, <1>3 DEF IsSeq, Range

(* No element.                                                             *)
LEMMA EmptyFacts ==
  IsSeq(<< >>) /\ Len(<< >>) = 0 /\ Range(<< >>) = {} /\ DOMAIN << >> = {} /\ IsInjective(<< >>)
<1>1. << >> \in Seq({}) /\ Len(<< >>) = 0 /\ DOMAIN << >> = {}
  BY SMT
<1> QED
  BY <1>1, SeqIsSeq DEF Range, IsInjective

(* Append: what is sent goes last.                                         *)
LEMMA Appended ==
  ASSUME NEW s, IsSeq(s), NEW m
  PROVE  /\ IsSeq(Append(s, m)) /\ Len(Append(s, m)) = Len(s) + 1
         /\ \A i \in 1 .. Len(s) : Append(s, m)[i] = s[i]
         /\ Append(s, m)[Len(s) + 1] = m
         /\ DOMAIN Append(s, m) = 1 .. Len(s) + 1
         /\ Range(Append(s, m)) = Range(s) \cup {m}
<1> DEFINE a == Append(s, m)
           S == Range(s) \cup {m}
<1>1. ASSUME NEW T, NEW r \in Seq(T), NEW x \in T
      PROVE  /\ Append(r, x) \in Seq(T) /\ Len(Append(r, x)) = Len(r) + 1
             /\ \A i \in 1 .. Len(r) : Append(r, x)[i] = r[i]
             /\ Append(r, x)[Len(r) + 1] = x
             /\ DOMAIN Append(r, x) = 1 .. Len(r) + 1
  BY SMT
<1>2. s \in Seq(S)
  <2>1. ASSUME NEW A, NEW B, A \subseteq B, NEW r \in Seq(A) PROVE r \in Seq(B)
    BY <2>1, SMT
  <2> QED BY <2>1 DEF IsSeq
<1>3. /\ a \in Seq(S) /\ Len(a) = Len(s) + 1
      /\ \A i \in 1 .. Len(s) : a[i] = s[i]
      /\ a[Len(s) + 1] = m /\ DOMAIN a = 1 .. Len(s) + 1
  <2>1. m \in S
    OBVIOUS
  <2> QED BY <1>1, <1>2, <2>1
<1>4. Len(s) \in Nat /\ Len(s) + 1 \in 1 .. Len(s) + 1 /\ 1 .. Len(s) \subseteq 1 .. Len(s) + 1
      /\ \A i \in 1 .. Len(s) + 1 : i \in 1 .. Len(s) \/ i = Len(s) + 1
  <2>1. Len(s) \in Nat
    BY SeqFacts
  <2> QED BY <2>1, SMT
<1> HIDE DEF a
<1>5. Range(a) \subseteq S
  BY <1>3, <1>4, SeqFacts DEF Range
<1>6. S \subseteq Range(a)
  <2>1. m \in Range(a)
    BY <1>3, <1>4 DEF Range
  <2>2. ASSUME NEW x \in Range(s) PROVE x \in Range(a)
    <3>1. PICK i \in 1 .. Len(s) : x = s[i]
      BY SeqFacts DEF Range
    <3> QED BY <1>3, <1>4, <3>1 DEF Range
  <2> QED BY <2>1, <2>2
<1>7. IsSeq(a)
  BY <1>3, SeqIsSeq
<1> QED
  BY <1>3, <1>5, <1>6, <1>7 DEF a

(* Head and Tail: what is read comes first.                                *)
LEMMA Tailed ==
  ASSUME NEW s, IsSeq(s), s # << >>
  PROVE  /\ IsSeq(Tail(s)) /\ Len(s) \in Nat \ {0} /\ Len(Tail(s)) = Len(s) - 1
         /\ 1 \in DOMAIN s /\ Head(s) = s[1] /\ Head(s) \in Range(s)
         /\ DOMAIN Tail(s) = 1 .. Len(s) - 1
         /\ \A i \in 1 .. Len(s) - 1 : Tail(s)[i] = s[i + 1] /\ i + 1 \in 1 .. Len(s)
         /\ Range(s) = {Head(s)} \cup Range(Tail(s))
<1> DEFINE t == Tail(s)
<1>1. ASSUME NEW S, NEW r \in Seq(S), r # << >>
      PROVE  /\ Tail(r) \in Seq(S) /\ Len(r) \in Nat \ {0} /\ Len(Tail(r)) = Len(r) - 1
             /\ 1 \in DOMAIN r /\ Head(r) = r[1]
             /\ DOMAIN Tail(r) = 1 .. Len(r) - 1
             /\ \A i \in 1 .. Len(r) - 1 : Tail(r)[i] = r[i + 1] /\ i + 1 \in 1 .. Len(r)
  BY <1>1, SMT
<1>2. /\ t \in Seq(Range(s)) /\ Len(s) \in Nat \ {0} /\ Len(t) = Len(s) - 1
      /\ 1 \in DOMAIN s /\ Head(s) = s[1]
      /\ DOMAIN t = 1 .. Len(s) - 1
      /\ \A i \in 1 .. Len(s) - 1 : t[i] = s[i + 1] /\ i + 1 \in 1 .. Len(s)
  BY <1>1 DEF IsSeq
<1>3. IsSeq(t) /\ Range(t) \subseteq Range(s)
  BY <1>2, SeqIsSeq
<1> HIDE DEF t
<1>4. ASSUME NEW i \in 1 .. Len(s) PROVE s[i] \in {Head(s)} \cup Range(t)
  <2>1. CASE i = 1
    BY <1>2, <2>1
  <2>2. CASE i # 1
    <3>1. i - 1 \in 1 .. Len(s) - 1 /\ (i - 1) + 1 = i
      BY <1>2, <2>2, SMT
    <3>2. t[i - 1] = s[i]
      BY <1>2, <3>1
    <3> QED BY <1>2, <3>1, <3>2 DEF Range
  <2> QED BY <2>1, <2>2
<1>5. Head(s) \in Range(s)
  BY <1>2 DEF Range
<1>6. Range(s) = {Head(s)} \cup Range(t)
  <2>1. Range(s) \subseteq {Head(s)} \cup Range(t)
    BY <1>4, SeqFacts DEF Range
  <2> QED BY <1>3, <1>5, <2>1
<1> QED
  BY <1>2, <1>3, <1>5, <1>6 DEF t

(* One element.                                                            *)
LEMMA OneFacts ==
  ASSUME NEW m
  PROVE  /\ IsSeq(<<m>>) /\ Len(<<m>>) = 1 /\ <<m>>[1] = m /\ <<m>> # << >> /\ DOMAIN <<m>> = {1}
         /\ Head(<<m>>) = m /\ Tail(<<m>>) = << >> /\ Range(<<m>>) = {m} /\ IsInjective(<<m>>)
         /\ Append(<< >>, m) = <<m>>
<1>1. /\ <<m>> \in Seq({m}) /\ Len(<<m>>) = 1 /\ <<m>>[1] = m /\ DOMAIN <<m>> = {1} /\ Head(<<m>>) = m
      /\ Tail(<<m>>) = << >> /\ Append(<< >>, m) = <<m>>
  BY SMT
<1>2. <<m>> # << >>
  BY SMT
<1>3. Range(<<m>>) = {m}
  BY <1>1 DEF Range
<1>4. IsSeq(<<m>>)
  BY <1>1, SeqIsSeq
<1>5. IsInjective(<<m>>)
  BY <1>1 DEF IsInjective
<1> QED
  BY <1>1, <1>2, <1>3, <1>4, <1>5

(* Two lists, one after the other.                                         *)
LEMMA Joined ==
  ASSUME NEW s, NEW t, IsSeq(s), IsSeq(t)
  PROVE  /\ IsSeq(s \o t) /\ Len(s \o t) = Len(s) + Len(t) /\ DOMAIN (s \o t) = 1 .. Len(s) + Len(t)
         /\ \A i \in 1 .. Len(s) : (s \o t)[i] = s[i]
         /\ \A i \in 1 .. Len(t) : (s \o t)[Len(s) + i] = t[i]
         /\ Range(s \o t) = Range(s) \cup Range(t)
<1> DEFINE c == s \o t
           S == Range(s) \cup Range(t)
<1>1. ASSUME NEW A, NEW B, A \subseteq B, NEW r \in Seq(A) PROVE r \in Seq(B)
  BY <1>1, SMT
<1>2. s \in Seq(S) /\ t \in Seq(S)
  BY <1>1 DEF IsSeq
<1>4. /\ c \in Seq(S) /\ Len(c) = Len(s) + Len(t) /\ DOMAIN c = 1 .. Len(s) + Len(t)
      /\ \A i \in 1 .. Len(s) : c[i] = s[i]
      /\ \A i \in 1 .. Len(t) : c[Len(s) + i] = t[i]
  <2> HIDE DEF S
  <2> QED BY <1>2, SMT
<1>5. /\ Len(s) \in Nat /\ Len(t) \in Nat
      /\ DOMAIN s = 1 .. Len(s) /\ DOMAIN t = 1 .. Len(t)
  BY SeqFacts
<1>6. /\ \A i \in 1 .. Len(s) : i \in 1 .. Len(s) + Len(t)
      /\ \A i \in 1 .. Len(t) : Len(s) + i \in 1 .. Len(s) + Len(t)
  BY <1>5, SMT
<1> HIDE DEF c
<1>7. IsSeq(c) /\ Range(c) \subseteq S
  BY <1>4, SeqIsSeq
<1>8. ASSUME NEW x \in Range(s) PROVE x \in Range(c)
  <2>1. PICK i \in 1 .. Len(s) : x = s[i]
    BY <1>5 DEF Range
  <2> QED BY <1>4, <1>6, <2>1 DEF Range
<1>9. ASSUME NEW x \in Range(t) PROVE x \in Range(c)
  <2>1. PICK i \in 1 .. Len(t) : x = t[i]
    BY <1>5 DEF Range
  <2>2. c[Len(s) + i] = t[i] /\ Len(s) + i \in DOMAIN c
    BY <1>4, <1>6
  <2> QED BY <2>1, <2>2 DEF Range
<1>10. Range(c) = S
  BY <1>7, <1>8, <1>9
<1> QED
  BY <1>4, <1>7, <1>10 DEF c

(* An empty second list.                                                   *)
LEMMA JoinedEmpty ==
  ASSUME NEW s, IsSeq(s)
  PROVE  s \o << >> = s /\ << >> \o s = s
<1>1. ASSUME NEW S, NEW r \in Seq(S) PROVE r \o << >> = r /\ << >> \o r = r
  BY SMT
<1> QED
  BY <1>1 DEF IsSeq

(* sync_ls_build_list_cb puts a name first: the names stay distinct.       *)
LEMMA Pushed ==
  ASSUME NEW s, IsSeq(s), NEW m
  PROVE  /\ IsSeq(<<m>> \o s) /\ Range(<<m>> \o s) = {m} \cup Range(s)
         /\ IsInjective(s) /\ m \notin Range(s) => IsInjective(<<m>> \o s)
<1> DEFINE c == <<m>> \o s
<1>1. IsSeq(<<m>>) /\ Len(<<m>>) = 1 /\ <<m>>[1] = m /\ Range(<<m>>) = {m}
  BY OneFacts
<1>2. /\ IsSeq(c) /\ Range(c) = {m} \cup Range(s) /\ DOMAIN c = 1 .. 1 + Len(s)
      /\ \A i \in 1 .. 1 : c[i] = <<m>>[i]
      /\ \A i \in 1 .. Len(s) : c[1 + i] = s[i]
  <2>1. /\ IsSeq(<<m>> \o s) /\ Range(<<m>> \o s) = Range(<<m>>) \cup Range(s)
        /\ DOMAIN (<<m>> \o s) = 1 .. Len(<<m>>) + Len(s)
        /\ \A i \in 1 .. Len(<<m>>) : (<<m>> \o s)[i] = <<m>>[i]
        /\ \A i \in 1 .. Len(s) : (<<m>> \o s)[Len(<<m>>) + i] = s[i]
    BY ONLY <1>1, IsSeq(s), Joined
  <2> QED BY ONLY <1>1, <2>1
<1>3. Len(s) \in Nat /\ DOMAIN s = 1 .. Len(s) /\ \A i \in 1 .. Len(s) : s[i] \in Range(s)
  BY SeqFacts
<1>4. \A i \in 1 .. 1 + Len(s) : i = 1 \/ \E j \in 1 .. Len(s) : i = 1 + j
  <2>1. ASSUME NEW i \in 1 .. 1 + Len(s), i # 1 PROVE i - 1 \in 1 .. Len(s) /\ i = 1 + (i - 1)
    BY <1>3, <2>1, SMT
  <2> QED BY <2>1
<1>5. c[1] = m
  <2>1. 1 \in 1 .. 1
    BY SMT
  <2> QED BY <1>1, <1>2, <2>1
<1> HIDE DEF c
<1>6. ASSUME IsInjective(s), m \notin Range(s) PROVE IsInjective(c)
  <2> SUFFICES ASSUME NEW i \in 1 .. 1 + Len(s), NEW j \in 1 .. 1 + Len(s), c[i] = c[j]
               PROVE  i = j
    BY <1>2 DEF IsInjective
  <2>1. CASE i = 1 /\ j = 1
    BY <2>1
  <2>0. \A a \in 1 .. Len(s) : c[1 + a] # m
    BY <1>2, <1>3, <1>6
  <2>2. CASE i = 1 /\ j # 1
    BY <1>4, <1>5, <2>0, <2>2
  <2>3. CASE i # 1 /\ j = 1
    BY <1>4, <1>5, <2>0, <2>3
  <2>4. CASE i # 1 /\ j # 1
    <3>1. PICK a \in 1 .. Len(s) : i = 1 + a
      BY <1>4, <2>4
    <3>2. PICK b \in 1 .. Len(s) : j = 1 + b
      BY <1>4, <2>4
    <3>3. c[i] = s[a] /\ c[j] = s[b]
      BY <1>2, <3>1, <3>2
    <3> QED BY <1>3, <1>6, <3>1, <3>2, <3>3 DEF IsInjective
  <2> QED BY <2>1, <2>2, <2>3, <2>4
<1> QED
  BY <1>2, <1>6 DEF c

(* The rest of a list without repetitions.                                 *)
LEMMA TailDistinct ==
  ASSUME NEW s, IsSeq(s), s # << >>, IsInjective(s)
  PROVE  IsInjective(Tail(s)) /\ Head(s) \notin Range(Tail(s))
<1>1. /\ Len(s) \in Nat \ {0} /\ Head(s) = s[1] /\ DOMAIN Tail(s) = 1 .. Len(s) - 1
      /\ \A i \in 1 .. Len(s) - 1 : Tail(s)[i] = s[i + 1] /\ i + 1 \in 1 .. Len(s)
      /\ 1 \in DOMAIN s /\ DOMAIN s = 1 .. Len(s)
  BY Tailed, SeqFacts
<1>2. ASSUME NEW i \in 1 .. Len(s) - 1, NEW j \in 1 .. Len(s) - 1
      PROVE  i + 1 # 1 /\ (i + 1 = j + 1 => i = j)
  BY <1>1, SMT
<1>3. IsInjective(Tail(s))
  <2> SUFFICES ASSUME NEW i \in 1 .. Len(s) - 1, NEW j \in 1 .. Len(s) - 1, Tail(s)[i] = Tail(s)[j]
               PROVE  i = j
    BY <1>1 DEF IsInjective
  <2>1. s[i + 1] = s[j + 1] /\ i + 1 \in DOMAIN s /\ j + 1 \in DOMAIN s
    BY <1>1
  <2>2. i + 1 = j + 1
    BY <2>1 DEF IsInjective
  <2> QED BY <1>2, <2>2
<1>4. ASSUME NEW i \in 1 .. Len(s) - 1, Tail(s)[i] = Head(s) PROVE FALSE
  <2>1. s[i + 1] = s[1] /\ i + 1 \in DOMAIN s
    BY <1>1, <1>4
  <2>2. i + 1 = 1
    BY <1>1, <2>1 DEF IsInjective
  <2> QED BY <1>2, <2>2
<1> QED
  BY <1>1, <1>3, <1>4 DEF Range

(* A prefix that is as long.                                               *)
LEMMA PrefixEqual ==
  ASSUME NEW s, NEW t, IsSeq(s), IsSeq(t), Prefix(s, t), Len(s) = Len(t)
  PROVE  s = t
<1>1. ASSUME NEW A, NEW B, NEW u \in Seq(A), NEW v \in Seq(B), Len(u) = Len(v), \A i \in 1 .. Len(u) : u[i] = v[i]
      PROVE  u = v
  BY <1>1, SMT
<1> QED
  BY <1>1 DEF IsSeq, Prefix

(* Data that arrives in order.                                             *)
LEMMA PrefixNext ==
  ASSUME NEW s, NEW t, IsSeq(s), IsSeq(t), Prefix(s, t), Len(s) < Len(t)
  PROVE  Prefix(Append(s, t[Len(s) + 1]), t)
<1>1. PICK x : x = t[Len(s) + 1]
  OBVIOUS
<1>2. /\ Len(Append(s, x)) = Len(s) + 1 /\ Append(s, x)[Len(s) + 1] = x
      /\ \A i \in 1 .. Len(s) : Append(s, x)[i] = s[i]
  BY ONLY IsSeq(s), Appended
<1>3. Len(s) \in Nat /\ Len(t) \in Nat
  BY SeqFacts
<1>4. Len(s) + 1 <= Len(t) /\ \A i \in 1 .. Len(s) + 1 : i \in 1 .. Len(s) \/ i = Len(s) + 1
  BY <1>3, SMT
<1> QED
  BY <1>1, <1>2, <1>4 DEF Prefix

(* The rest of a file after one more chunk.                                *)
LEMMA SuffixNext ==
  ASSUME NEW s, NEW t, IsSeq(s), IsSeq(t), Suffix(s, t), s # << >>
  PROVE  Suffix(Tail(s), t) /\ Head(s) = t[Len(t) - Len(s) + 1] /\ Len(t) - Len(s) + 1 \in 1 .. Len(t)
<1>1. /\ Len(s) \in Nat \ {0} /\ Len(Tail(s)) = Len(s) - 1 /\ Head(s) = s[1]
      /\ \A i \in 1 .. Len(s) - 1 : Tail(s)[i] = s[i + 1] /\ i + 1 \in 1 .. Len(s)
  BY Tailed
<1>2. Len(t) \in Nat /\ Len(s) <= Len(t)
  BY SeqFacts DEF Suffix
<1>3. /\ 1 \in 1 .. Len(s) /\ Len(t) - Len(s) + 1 \in 1 .. Len(t) /\ Len(s) - 1 <= Len(t)
      /\ \A i \in 1 .. Len(s) - 1 : Len(t) - Len(s) + (i + 1) = Len(t) - (Len(s) - 1) + i
  BY <1>1, <1>2, SMT
<1>4. ASSUME NEW i \in 1 .. Len(s) - 1 PROVE Tail(s)[i] = t[Len(t) - (Len(s) - 1) + i]
  <2>1. Tail(s)[i] = s[i + 1] /\ i + 1 \in 1 .. Len(s) /\ Len(t) - Len(s) + (i + 1) = Len(t) - (Len(s) - 1) + i
    BY <1>1, <1>3
  <2>2. s[i + 1] = t[Len(t) - Len(s) + (i + 1)]
    BY <2>1 DEF Suffix
  <2> QED BY <2>1, <2>2
<1>5. Suffix(Tail(s), t)
  BY <1>1, <1>3, <1>4 DEF Suffix
<1> QED
  BY <1>1, <1>3, <1>5 DEF Suffix

(* Nothing done yet, and all done.                                         *)
LEMMA SuffixEnds ==
  ASSUME NEW t, IsSeq(t)
  PROVE  Suffix(t, t) /\ Suffix(<< >>, t) /\ Prefix(<< >>, t)
<1>1. Len(t) \in Nat /\ Len(<< >>) = 0
  BY SeqFacts, EmptyFacts
<1>2. Len(t) <= Len(t) /\ 0 <= Len(t) /\ 1 .. 0 = {} /\ \A i \in 1 .. Len(t) : Len(t) - Len(t) + i = i
  BY <1>1, SMT
<1> QED
  BY <1>1, <1>2 DEF Suffix, Prefix

(* The order a directory is read in: every entry, once.                    *)
LEMMA OrderFacts ==
  ASSUME NEW S, NEW s \in Orders(S)
  PROVE  IsSeq(s) /\ Range(s) = S /\ IsInjective(s)
<1>1. PICK n \in 0 .. Cardinality(S) : s \in Bijection(1 .. n, S)
  BY DEF Orders
<1>2. n \in Nat
  BY SMT
<1>3. s \in [1 .. n -> S] /\ Range(s) = S /\ IsInjective(s)
  <2>1. s \in [1 .. n -> S] /\ \A t \in S : \E x \in 1 .. n : s[x] = t
    BY <1>1 DEF Bijection, Surjection, Injection
  <2>2. IsInjective(s)
    BY <1>1 DEF Bijection, Injection
  <2> QED BY <2>1, <2>2 DEF Range
<1>4. ASSUME NEW m \in Nat, NEW R, NEW r \in [1 .. m -> R] PROVE r \in Seq(R)
  BY SMT
<1> QED
  BY <1>2, <1>3, <1>4 DEF IsSeq

(* Every file's content is a sequence.                                     *)
LEMMA ContentIsSeq ==
  ASSUME NEW f \in Files
  PROVE  IsSeq(Content[f])
BY SourceTree DEF IsSeq

---------------------------------------------------------------------------
(* The tree.                                                               *)

(* A directory's entries are below it, and so is what is below them.       *)
LEMMA BelowFacts ==
  ASSUME NEW d
  PROVE  /\ Entries(d) \subseteq Below(d) /\ Closed(Below(d))
         /\ \A S \in SUBSET Nodes : Entries(d) \subseteq S /\ Closed(S) => Below(d) \subseteq S
         /\ \A u \in Entries(d) : Below(u) \subseteq Below(d)
<1>1. Entries(d) \subseteq Below(d)
  BY DEF Below, Entries, Nodes
<1>2. Closed(Below(d))
  BY DEF Below, Closed, Nodes
<1>3. \A S \in SUBSET Nodes : Entries(d) \subseteq S /\ Closed(S) => Below(d) \subseteq S
  BY DEF Below
<1>4. ASSUME NEW u \in Entries(d) PROVE Below(u) \subseteq Below(d)
  <2>1. Entries(u) \subseteq Below(d)
    BY <1>1, <1>2 DEF Entries, Closed
  <2> QED BY <1>2, <2>1 DEF Below
<1> QED
  BY <1>1, <1>2, <1>3, <1>4

(* What is below a directory is in it, or in something below it.           *)
LEMMA BelowStep ==
  ASSUME NEW d, NEW x \in Below(d)
  PROVE  Parent[x] = d \/ Parent[x] \in Below(d)
<1> DEFINE S == Entries(d) \cup {y \in Nodes : Parent[y] \in Below(d)}
<1>1. S \subseteq Below(d) /\ S \in SUBSET Nodes
  BY BelowFacts DEF Closed, Entries, Nodes
<1>2. Closed(S)
  BY <1>1 DEF Closed, Nodes
<1>3. x \in S
  BY <1>1, <1>2, BelowFacts
<1> QED
  BY <1>3 DEF Entries

(* No directory is below itself, and nothing is below a file.              *)
LEMMA NotBelowItself ==
  /\ \A d \in Dirs : d \notin Below(d) /\ d \notin Entries(d)
  /\ \A f \in Files : \A x \in Nodes : Parent[x] # f
<1>1. ASSUME NEW d \in Dirs PROVE d \notin Below(d) /\ d \notin Entries(d)
  <2>1. PICK S \in SUBSET Nodes : Entries(d) \subseteq S /\ Closed(S) /\ d \notin S
    BY SourceTree DEF Nodes
  <2> QED BY <2>1, BelowFacts
<1>2. ASSUME NEW f \in Files, NEW x \in Nodes PROVE Parent[x] # f
  BY SourceTree DEF Entries, Nodes
<1> QED
  BY <1>1, <1>2

---------------------------------------------------------------------------
(* The connection.                                                         *)

(* writex of a packet.                                                     *)
LEMMA Sent ==
  ASSUME ConnTypes, cmd' = cmd, NEW m, IsRequest(m), Write(m)
  PROVE  /\ ConnTypes' /\ link /\ link' /\ fromD' = fromD /\ toD' = Append(toD, m)
         /\ Len(toD') = Len(toD) + 1 /\ toD'[Len(toD) + 1] = m
         /\ \A i \in 1 .. Len(toD) : toD'[i] = toD[i]
         /\ \A i \in 1 .. Len(toD') : i \in 1 .. Len(toD) \/ i = Len(toD) + 1
<1>1. /\ link /\ link' = link /\ Len(toD) < Cap /\ toD' = Append(toD, m) /\ fromD' = fromD
      /\ IsSeq(toD) /\ IsSeq(fromD) /\ Len(fromD) <= Cap
      /\ link \in BOOLEAN /\ \A i \in 1 .. Len(toD) : IsRequest(toD[i])
  BY DEF Write, ConnTypes
<1>2. /\ IsSeq(toD') /\ Len(toD') = Len(toD) + 1 /\ toD'[Len(toD) + 1] = m
      /\ \A i \in 1 .. Len(toD) : toD'[i] = toD[i]
  BY ONLY <1>1, Appended
<1>3. Len(toD) \in Nat
  BY ONLY <1>1, SeqFacts
<1>4. Len(toD') <= Cap /\ \A i \in 1 .. Len(toD') : i \in 1 .. Len(toD) \/ i = Len(toD) + 1
  <2>1. Len(toD) + 1 <= Cap /\ \A i \in 1 .. Len(toD) + 1 : i \in 1 .. Len(toD) \/ i = Len(toD) + 1
    <3>1. Cap \in Nat
      BY CapAssumption
    <3> QED BY ONLY <1>1, <1>3, <3>1, SMT
  <2> QED BY <1>2, <2>1
<1>5. ASSUME NEW i \in 1 .. Len(toD') PROVE IsRequest(toD[i])'
  <2>1. IsRequest(toD'[i])
    BY <1>1, <1>2, <1>4
  <2> QED BY <2>1 DEF IsRequest
<1>6. ConnTypes'
  BY <1>1, <1>2, <1>4, <1>5 DEF ConnTypes
<1> QED
  BY <1>1, <1>2, <1>4, <1>6

(* readx of a packet.                                                      *)
LEMMA Taken ==
  ASSUME ConnTypes, cmd' = cmd, Read
  PROVE  /\ ConnTypes' /\ link /\ link' /\ toD' = toD /\ fromD' = Tail(fromD)
         /\ fromD # << >> /\ Reply = fromD[1] /\ 1 \in 1 .. Len(fromD)
         /\ Len(fromD) \in Nat \ {0} /\ Len(fromD') = Len(fromD) - 1
         /\ \A i \in 1 .. Len(fromD') : fromD'[i] = fromD[i + 1] /\ i + 1 \in 1 .. Len(fromD)
<1>1. /\ link /\ link' = link /\ fromD # << >> /\ fromD' = Tail(fromD) /\ toD' = toD
      /\ IsSeq(toD) /\ IsSeq(fromD) /\ Len(toD) <= Cap /\ Len(fromD) <= Cap
      /\ link \in BOOLEAN /\ \A i \in 1 .. Len(toD) : IsRequest(toD[i])
  BY DEF Read, ConnTypes
<1>2. /\ IsSeq(fromD') /\ Len(fromD) \in Nat \ {0} /\ Len(fromD') = Len(fromD) - 1
      /\ Head(fromD) = fromD[1]
      /\ \A i \in 1 .. Len(fromD') : fromD'[i] = fromD[i + 1] /\ i + 1 \in 1 .. Len(fromD)
  BY ONLY <1>1, Tailed
<1>3. Len(fromD') <= Cap /\ 1 \in 1 .. Len(fromD)
  <2>1. Cap \in Nat
    BY CapAssumption
  <2>2. Len(fromD) - 1 <= Cap /\ 1 \in 1 .. Len(fromD)
    BY ONLY <1>1, <1>2, <2>1, SMT
  <2> QED BY <1>2, <2>2
<1>4. ASSUME NEW i \in 1 .. Len(toD') PROVE IsRequest(toD[i])'
  <2>1. IsRequest(toD[i])
    BY <1>1
  <2> QED BY <1>1, <2>1 DEF IsRequest
<1>5. ConnTypes'
  BY <1>1, <1>2, <1>3, <1>4 DEF ConnTypes
<1> QED
  BY <1>1, <1>2, <1>3, <1>5 DEF Reply

(* The service takes a request.                                            *)
LEMMA Consumed ==
  ASSUME ConnTypes, cmd' = cmd, Consume
  PROVE  /\ link /\ toD # << >> /\ Request = toD[1] /\ 1 \in 1 .. Len(toD) /\ IsRequest(Request)
         /\ IsSeq(toD') /\ Len(toD) \in Nat \ {0} /\ Len(toD') = Len(toD) - 1 /\ Len(toD') <= Cap
         /\ toD' = Tail(toD)
         /\ \A i \in 1 .. Len(toD') : toD'[i] = toD[i + 1] /\ i + 1 \in 1 .. Len(toD)
         /\ \A i \in 1 .. Len(toD') : IsRequest(toD[i])'
<1>1. /\ link /\ toD # << >> /\ toD' = Tail(toD) /\ IsSeq(toD) /\ Len(toD) <= Cap
      /\ \A i \in 1 .. Len(toD) : IsRequest(toD[i])
  BY DEF Consume, ConnTypes
<1>2. /\ IsSeq(toD') /\ Len(toD) \in Nat \ {0} /\ Len(toD') = Len(toD) - 1
      /\ Head(toD) = toD[1]
      /\ \A i \in 1 .. Len(toD') : toD'[i] = toD[i + 1] /\ i + 1 \in 1 .. Len(toD)
  BY ONLY <1>1, Tailed
<1>3. Len(toD') <= Cap /\ 1 \in 1 .. Len(toD)
  <2>1. Cap \in Nat
    BY CapAssumption
  <2>2. Len(toD) - 1 <= Cap /\ 1 \in 1 .. Len(toD)
    BY ONLY <1>1, <1>2, <2>1, SMT
  <2> QED BY <1>2, <2>2
<1>4. ASSUME NEW i \in 1 .. Len(toD') PROVE IsRequest(toD[i])'
  <2>1. IsRequest(toD[i + 1]) /\ toD'[i] = toD[i + 1]
    BY <1>1, <1>2
  <2> QED BY <2>1 DEF IsRequest
<1>5. IsRequest(toD[1])
  BY <1>1, <1>3
<1> QED
  BY <1>1, <1>2, <1>3, <1>4, <1>5 DEF Request

(* The service sends a reply.                                              *)
LEMMA Replied ==
  ASSUME ConnTypes, NEW m, Answer(m)
  PROVE  /\ IsSeq(fromD') /\ Len(fromD') <= Cap /\ fromD' = Append(fromD, m) /\ Len(fromD) \in Nat
         /\ Len(fromD') = Len(fromD) + 1 /\ fromD'[Len(fromD) + 1] = m
         /\ \A i \in 1 .. Len(fromD) : fromD'[i] = fromD[i]
         /\ \A i \in 1 .. Len(fromD') : i \in 1 .. Len(fromD) \/ i = Len(fromD) + 1
<1>1. Len(fromD) < Cap /\ fromD' = Append(fromD, m) /\ IsSeq(fromD)
  BY DEF Answer, ConnTypes
<1>2. /\ IsSeq(fromD') /\ Len(fromD') = Len(fromD) + 1 /\ fromD'[Len(fromD) + 1] = m
      /\ \A i \in 1 .. Len(fromD) : fromD'[i] = fromD[i]
  BY ONLY <1>1, Appended
<1>3. Len(fromD) \in Nat
  BY ONLY <1>1, SeqFacts
<1>4. Len(fromD') <= Cap /\ \A i \in 1 .. Len(fromD') : i \in 1 .. Len(fromD) \/ i = Len(fromD) + 1
  <2>1. Len(fromD) + 1 <= Cap /\ \A i \in 1 .. Len(fromD) + 1 : i \in 1 .. Len(fromD) \/ i = Len(fromD) + 1
    <3>1. Cap \in Nat
      BY CapAssumption
    <3> QED BY ONLY <1>1, <1>3, <3>1, SMT
  <2> QED BY <1>2, <2>1
<1> QED
  BY <1>1, <1>2, <1>3, <1>4

(* Flags are 0 and 1.                                                      *)
LEMMA ZeroOne ==
  0 # 1 /\ 0 \in Nat /\ 1 \in Nat /\ 1 .. 0 = {} /\ 1 \in 1 .. 1 /\ \A i \in 1 .. 1 : i = 1
BY SMT

(* The fields of a packet.                                                 *)
LEMMA MsgFields ==
  ASSUME NEW a, NEW b, NEW c
  PROVE  /\ Msg(a, b, c).id = a /\ Msg(a, b, c).file = b /\ Msg(a, b, c).x = c
BY SMT DEF Msg

(* The service at rest.                                                    *)
LEMMA IdleFields ==
  Idle.does = "idle" /\ Idle.rest = << >> /\ Idle.file = None
BY SMT DEF Idle

---------------------------------------------------------------------------
(* What a step of the client leaves alone.                                 *)

(* The types of what does not change.                                      *)
LEMMA TypesKept ==
  ASSUME Types
  PROVE  /\ UNCHANGED device => DmnTypes'
         /\ UNCHANGED dst => DstTypes'
         /\ UNCHANGED conn /\ cmd' = cmd => ConnTypes'
         /\ UNCHANGED <<cmd, pc, todo, left, flag, dirs, unread, result, runs>> => ClientTypes'
<1>1. UNCHANGED device => DmnTypes'
  BY DEF Types, DmnTypes, device, Doing
<1>2. UNCHANGED dst => DstTypes'
  BY DEF Types, DstTypes
<1>3. UNCHANGED conn /\ cmd' = cmd => ConnTypes'
  BY DEF Types, ConnTypes, conn, IsRequest
<1>4. UNCHANGED <<cmd, pc, todo, left, flag, dirs, unread, result, runs>> => ClientTypes'
  BY DEF Types, ClientTypes
<1> QED
  BY <1>1, <1>2, <1>3, <1>4

(* Commands that are run.                                                  *)
LEMMA CommandFacts ==
  ASSUME NEW c \in Commands
  PROVE  c \in {"push", "install", "pull", "pulldir", "ls", "pushdir", "sync", "list"}
BY KnownCommands DEF Pulls, OneFile, Trees

(* Files that no step of the client touches stay what they are.            *)
LEMMA SkippedKept ==
  ASSUME SkippedIsCurrent, UNCHANGED <<flag, dst>>
  PROVE  SkippedIsCurrent'
BY DEF SkippedIsCurrent

(* Nothing that is listed is on the wire.                                  *)
NoList == Dent = {} /\ Rest = << >> /\ ToList = {}

(* A wire without ID_DENT and ID_LIST, and a service that lists nothing.   *)
LEMMA NoListFacts ==
  ASSUME \A i \in 1 .. Len(fromD) : fromD[i].id # "DENT", \A i \in 1 .. Len(toD) : toD[i].id # "LIST",
         dmn.does # "LIST"
  PROVE  NoList /\ Coming = {} /\ Pending = Range(todo) \cup Range(dirs)
BY EmptyFacts DEF NoList, Dent, Rest, ToList, Coming, Pending

(* The same after a step.                                                  *)
LEMMA NoListNext ==
  ASSUME \A i \in 1 .. Len(fromD') : fromD'[i].id # "DENT", \A i \in 1 .. Len(toD') : toD'[i].id # "LIST",
         dmn'.does # "LIST"
  PROVE  NoList'
BY DEF NoList, Dent, Rest, ToList

(* A quiet wire.                                                           *)
LEMMA QuietFacts ==
  ASSUME Quiet
  PROVE  /\ Len(fromD) = 0 /\ Len(toD) = 0 /\ 1 .. Len(fromD) = {} /\ 1 .. Len(toD) = {}
         /\ dmn.does = "idle"
         /\ NoList /\ Coming = {} /\ Pending = Range(todo) \cup Range(dirs)
<1>1. Len(fromD) = 0 /\ Len(toD) = 0 /\ dmn.does = "idle"
  BY EmptyFacts, IdleFields DEF Quiet
<1>2. 1 .. 0 = {}
  BY SMT
<1>3. NoList /\ Coming = {} /\ Pending = Range(todo) \cup Range(dirs)
  BY <1>1, <1>2, NoListFacts
<1> QED
  BY <1>1, <1>2, <1>3

(* The lists stay what they are, and so does what is found.                *)
LEMMA FindingKept ==
  ASSUME Finding, NoList, NoList', UNCHANGED <<todo, dirs>>
  PROVE  Finding'
<1>1. Pending' = Pending /\ Coming' = Coming /\ Rest' = Rest
  BY EmptyFacts DEF NoList, Coming, Pending
<1> QED
  BY <1>1 DEF Finding, NoList

(* When no directory is left, all files are on the list.                   *)
LEMMA AllFound ==
  ASSUME Types, Finding, NoList, dirs = << >>
  PROVE  Files \subseteq Range(todo)
<1>1. Pending = Range(todo)
  BY EmptyFacts DEF NoList, Coming, Pending
<1>2. Range(todo) \in SUBSET Nodes /\ Range(todo) \subseteq Files
  BY SourceTree DEF Types, ClientTypes, Nodes
<1>3. Closed(Range(todo))
  BY <1>2, NotBelowItself DEF Closed, Nodes
<1> QED
  BY <1>1, <1>2, <1>3 DEF Finding

---------------------------------------------------------------------------
(* The invariant: initially, and one step at a time.                       *)

(* The first command starts on a quiet wire.                               *)
LEMMA InitIInv ==
  ASSUME Init
  PROVE  IInv
<1>1. ClientTypes
  <2>1. 1 \in 1 .. MaxRuns
    BY KnownCommands, SMT
  <2> QED BY <2>1, EmptyFacts DEF Init, ClientTypes, Stages
<1>2. Quiet /\ link
  BY DEF Init, Quiet
<1>3. ConnTypes
  <2>1. 0 <= Cap
    BY CapAssumption, SMT
  <2> QED BY <1>2, <2>1, EmptyFacts, QuietFacts DEF Init, ConnTypes
<1>4. DmnTypes
  <2>1. Doing(dmn.does)
    BY SMT DEF Init, Doing, Idle
  <2> QED BY <2>1, IdleFields, EmptyFacts DEF Init, DmnTypes
<1>5. DstTypes
  <2>1. dst = [f \in Files |-> dst[f]]
    BY DEF Init
  <2>2. ASSUME NEW f \in Files PROVE dst[f] = None \/ IsCopy(f, dst[f])
    <3>1. CASE dst[f] = Old
      <4>1. Old = File(Old.data, Old.time) /\ Old.data = <<0>> /\ Old.time = 0
        BY SMT DEF Old, File
      <4>2. IsSeq(Old.data) /\ Old.time \in {0, 1} /\ Old.time # 1
        BY <4>1, OneFacts, SMT
      <4> QED BY <3>1, <4>1, <4>2 DEF IsCopy
    <3>2. CASE dst[f] = New(f)
      <4>1. New(f) = File(New(f).data, New(f).time) /\ New(f).data = Content[f] /\ New(f).time = 1
        BY SMT DEF New, File
      <4>2. IsSeq(Content[f]) /\ Len(Content[f]) <= Len(Content[f])
        <5>1. IsSeq(Content[f])
          BY ContentIsSeq
        <5>2. Len(Content[f]) \in Nat
          BY <5>1, SeqFacts
        <5> QED BY <5>1, <5>2, SMT
      <4> QED BY <3>2, <4>1, <4>2 DEF IsCopy, Prefix
    <3> QED BY <3>1, <3>2 DEF Init
  <2> QED BY <2>1, <2>2 DEF DstTypes
<1>6. Control
  BY <1>1, EmptyFacts DEF Init, Control, StatStages, ListStages, SendStages, RecvStages
<1>7. Wire
  BY <1>2 DEF Init, Wire, StatStages
<1>8. Discovery /\ Progress /\ Success /\ SkippedIsCurrent
  BY DEF Init, Discovery, Progress, Success, SkippedIsCurrent, StatStages, ListStages, Copying, SendStages, RecvStages
<1> QED
  BY <1>1, <1>3, <1>4, <1>5, <1>6, <1>7, <1>8 DEF IInv, Types

(* A command that ends with an error.                                      *)
LEMMA EndsInError ==
  ASSUME Types', Wire', SkippedIsCurrent', Control, cmd' = cmd, UNCHANGED <<todo, dirs>>,
         cmd \in Pulls => flag' = {}, Return("error")
  PROVE  IInv'
<1>1. pc' = "end" /\ result' = "error"
  BY DEF Return
<1>2. Control'
  BY <1>1 DEF Control, StatStages, ListStages, SendStages, RecvStages
<1>3. Discovery' /\ Progress' /\ Success'
  BY <1>1 DEF Discovery, Progress, Success, StatStages, ListStages, Copying, SendStages, RecvStages
<1> QED
  BY <1>2, <1>3 DEF IInv

(* A client that stops leaves nothing that the service would store.        *)
LEMMA QuietAtTheEnd ==
  ASSUME Quiet', pc' = "end"
  PROVE  Wire'
<1>1. 1 .. Len(toD') = {} /\ dmn'.does = "idle"
  <2>1. Len(toD') = 0 /\ dmn'.does = "idle"
    BY EmptyFacts, IdleFields DEF Quiet
  <2> QED BY <2>1, SMT
<1> QED
  BY <1>1 DEF Wire, StatStages

(* The end of the types of a step of the client that uses no connection.   *)
LEMMA ClientStepTypes ==
  ASSUME Types, UNCHANGED <<cmd, runs, dmn, refused, dst, toD, fromD, link>>,
         IsSeq(todo'), IsSeq(left'), IsSeq(dirs'), Range(todo') \subseteq Files, Range(dirs') \subseteq Dirs,
         flag' \subseteq Files, unread' \subseteq Files, pc' \in Stages, result' \in {"none", "success", "error"}
  PROVE  Types'
<1>1. ClientTypes'
  BY DEF Types, ClientTypes
<1>2. ConnTypes' /\ DmnTypes' /\ DstTypes'
  BY TypesKept DEF conn, device
<1> QED
  BY <1>1, <1>2 DEF Types

(* io_fails keeps the invariant: what was copied before counts.            *)
LEMMA IoFailsStep ==
  ASSUME IInv, io_fails
  PROVE  IInv'
<1>1. /\ ~link /\ pc \notin {"start", "next", "end"} /\ Types /\ Control /\ Wire /\ Progress
      /\ UNCHANGED <<cmd, runs, dmn, refused, todo, left, flag, dirs, unread, toD, fromD, link, dst>>
      /\ SkippedIsCurrent'
  BY SkippedKept DEF io_fails, IInv, Same, device, conn
<1>2. Quiet /\ Quiet' /\ Wire'
  BY <1>1 DEF Wire, Quiet
<1>3. result = "none"
  BY <1>1 DEF Control
<1>4. ASSUME pc' \in Stages, result' \in {"none", "success", "error"} PROVE Types'
  BY <1>1, <1>4, ClientStepTypes DEF Types, ClientTypes
<1>5. CASE pc = "send_data"
  <2>1. pc' = "send_done" /\ result' = "none"
    BY <1>3, <1>5 DEF io_fails, Goto
  <2>2. Types'
    BY <1>4, <2>1 DEF Stages
  <2>3. Control'
    BY <1>1, <1>3, <1>5, <2>1 DEF Control, StatStages, ListStages, SendStages, RecvStages, Copying
  <2>4. Discovery' /\ Success'
    BY <1>1, <2>1 DEF Discovery, Success
  <2>5. Progress'
    BY <1>1, <1>5, <2>1 DEF Progress, Copying, SendStages, RecvStages, StatStages, Target, Copied
  <2> QED BY <1>1, <1>2, <2>2, <2>3, <2>4, <2>5 DEF IInv
<1>6. CASE pc = "quit"
  <2>1. pc' = "end" /\ result' = "success"
    BY <1>6 DEF io_fails, Return
  <2>2. Types'
    BY <1>4, <2>1 DEF Stages
  <2>3. Control'
    BY <1>1, <2>1 DEF Control, StatStages, ListStages, SendStages, RecvStages, Copying
  <2>4. Discovery' /\ Progress'
    BY <1>1, <2>1 DEF Discovery, Progress, Copying, SendStages, RecvStages, StatStages
  <2>5. cmd \notin {"ls", "list"} => \A f \in Target : Copied(f)
    BY <1>1, <1>6, EmptyFacts DEF Progress, Copying
  <2>6. Success'
    BY <1>1, <1>2, <2>5, QuietFacts DEF Success, Target, Copied, Quiet
  <2> QED BY <1>1, <1>2, <2>2, <2>3, <2>4, <2>6 DEF IInv
<1>7. CASE pc \notin {"send_data", "quit"}
  <2>1. Return("error") /\ pc' = "end" /\ result' = "error"
    BY <1>7 DEF io_fails, Return
  <2>2. Types'
    BY <1>4, <2>1 DEF Stages
  <2> QED BY <1>1, <1>2, <2>1, <2>2, EndsInError DEF Control
<1> QED
  BY <1>5, <1>6, <1>7

(* The stages of a step that starts the ID_STAT requests of a list.        *)
LEMMA AskingStarts ==
  ASSUME Quiet', pc' = "stat_write", IsSeq(todo'), IsSeq(dirs'), left' = todo' \o dirs', cmd' = cmd,
         Range(todo') \subseteq Files, Range(dirs') \subseteq Dirs, cmd \notin Pulls => dirs' = << >>
  PROVE  Wire'
<1>1. IsSeq(left') /\ Range(left') = Range(todo') \cup Range(dirs')
  BY Joined
<1>2. ASSUME NEW i \in 1 .. Len(left') PROVE left'[i] \in Nodes /\ (cmd' \notin Pulls => left'[i] \in Files)
  <2>1. left'[i] \in Range(left')
    BY <1>1, SeqFacts
  <2> QED BY <1>1, <2>1, SourceTree, EmptyFacts DEF Dirs, Nodes
<1>3. Asked' = left' /\ Suffix(left', left')
  BY <1>1, SuffixEnds DEF Asked
<1>4. Len(fromD') = 0 /\ Len(toD') = 0
  BY EmptyFacts DEF Quiet
<1>5. 0 + 0 = Len(left') - Len(left') /\ 1 .. 0 = {}
  <2>1. Len(left') \in Nat
    BY <1>1, SeqFacts
  <2> QED BY <2>1, SMT
<1>6. Asking'
  BY <1>2, <1>3, <1>4, <1>5 DEF Asking, Quiet
<1> QED
  BY <1>6 DEF Wire, StatStages

(* do_sync_push, do_sync_pull and do_sync_ls keep the invariant.           *)
LEMMA BeginStep ==
  ASSUME IInv, do_sync_push \/ do_sync_pull \/ do_sync_ls
  PROVE  IInv'
<1>0. pc = "start" /\ cmd \notin Trees /\ Begin
  BY DEF do_sync_push, do_sync_pull, do_sync_ls, Trees
<1>1. /\ pc = "start" /\ cmd \notin Trees /\ Types /\ Control /\ Wire
      /\ UNCHANGED <<cmd, runs, dmn, refused, flag, unread, toD, fromD, link, dst, result>>
      /\ SkippedIsCurrent' /\ result = "none" /\ unread = {} /\ (cmd \in Pulls => flag = {} /\ refused = {})
      /\ left' = todo' \o dirs' /\ pc' = IF cmd = "ls" THEN "list_write" ELSE "stat_write"
  BY <1>0, SkippedKept DEF Begin, IInv, Same, device, conn, Goto, Control, Copying, SendStages, RecvStages
<1>2. Quiet /\ Quiet'
  BY <1>1 DEF Wire, Quiet
<1>3. cmd \in {"push", "install", "pull", "pulldir", "ls"}
  BY <1>1, CommandFacts DEF Types, ClientTypes, Trees
<1>4. First \in Files /\ Root \in Dirs
  BY SourceTree
<1>5. CASE cmd \in OneFile
  <2>1. todo' = <<First>> /\ dirs' = << >> /\ left' = <<First>> /\ pc' = "stat_write" /\ cmd \in {"push", "install", "pull"}
    BY <1>0, <1>1, <1>5, OneFacts, JoinedEmpty DEF Begin, OneFile
  <2>2. /\ IsSeq(todo') /\ IsSeq(left') /\ IsSeq(dirs') /\ Range(todo') = {First} /\ Range(dirs') = {}
        /\ IsInjective(todo') /\ left' # << >>
    BY <2>1, OneFacts, EmptyFacts
  <2>3. Types'
    BY <1>1, <1>4, <2>1, <2>2, ClientStepTypes DEF Types, ClientTypes, Stages
  <2>4. Control'
    BY <1>1, <2>1, <2>2 DEF Control, StatStages, ListStages, SendStages, RecvStages, Copying
  <2>5. Wire'
    BY <1>1, <1>2, <1>4, <2>1, <2>2, AskingStarts
  <2>6. Discovery' /\ Success'
    BY <1>1, <2>1 DEF Discovery, Success
  <2>7. Progress'
    BY <1>1, <1>5, <2>1, <2>2 DEF Progress, Target, Copying, SendStages, RecvStages
  <2> QED BY <1>1, <2>3, <2>4, <2>5, <2>6, <2>7 DEF IInv
<1>6. CASE cmd \notin OneFile
  <2>1. todo' = << >> /\ dirs' = <<Root>> /\ left' = <<Root>> /\ cmd \in {"pulldir", "ls"}
    BY <1>0, <1>1, <1>3, <1>6, OneFacts, JoinedEmpty DEF Begin, OneFile
  <2>2. /\ IsSeq(todo') /\ IsSeq(left') /\ IsSeq(dirs') /\ Range(todo') = {} /\ Range(dirs') = {Root}
        /\ IsInjective(todo') /\ IsInjective(dirs') /\ left' # << >> /\ dirs' # << >>
    BY <2>1, OneFacts, EmptyFacts
  <2>3. pc' \in {"list_write", "stat_write"} /\ (pc' = "stat_write" => cmd # "ls")
    BY <1>1
  <2>4. Types'
    BY <1>1, <1>4, <2>2, <2>3, ClientStepTypes DEF Types, ClientTypes, Stages
  <2>5. Control'
    BY <1>1, <2>1, <2>2, <2>3 DEF Control, StatStages, ListStages, SendStages, RecvStages, Copying
  <2>6. Wire'
    <3>1. CASE pc' = "stat_write"
      BY <1>1, <1>2, <1>4, <2>1, <2>2, <3>1, AskingStarts DEF Pulls
    <3>2. CASE pc' = "list_write"
      BY <1>2, <3>2 DEF Wire, StatStages
    <3> QED BY <2>3, <3>1, <3>2
  <2>7. Finding'
    <3>1. NoList' /\ Coming' = {} /\ Pending' = {Root}
      <4>1. Len(fromD') = 0 /\ Len(toD') = 0 /\ dmn'.does = "idle"
        BY <1>2, EmptyFacts, IdleFields DEF Quiet
      <4>2. 1 .. 0 = {}
        BY SMT
      <4>3. Dent' = {} /\ Rest' = << >> /\ ToList' = {}
        BY <4>1, <4>2 DEF Dent, Rest, ToList
      <4> QED BY <2>2, <4>3, EmptyFacts DEF NoList, Coming, Pending
    <3>2. \A S \in SUBSET Nodes : Pending' \subseteq S /\ Closed(S) => Files \subseteq S
      BY <3>1, SourceTree DEF Nodes
    <3>3. \A d \in Pending' \cap Dirs : Below(d) \cap Pending' = {}
      BY <3>1, NotBelowItself
    <3> QED BY <2>2, <3>1, <3>2, <3>3, EmptyFacts DEF Finding, NoList
  <2>8. Discovery' /\ Success'
    BY <1>1, <2>7 DEF Discovery, Success
  <2>9. Progress'
    BY <1>1, <2>1, <2>3 DEF Progress, Copying, SendStages, RecvStages, StatStages
  <2> QED BY <1>1, <2>4, <2>5, <2>6, <2>8, <2>9 DEF IInv
<1> QED
  BY <1>5, <1>6

(* push_nothing keeps the invariant.                                       *)
LEMMA PushNothingStep ==
  ASSUME IInv, push_nothing
  PROVE  IInv'
<1>1. PICK m : m = Msg("QUIT", None, None)
  OBVIOUS
<1>2. /\ Types /\ Control /\ Wire /\ Write(m) /\ Return("error") /\ pc = "start"
      /\ UNCHANGED <<cmd, runs, dmn, refused, todo, left, flag, dirs, unread, dst>> /\ SkippedIsCurrent'
  BY <1>1, SkippedKept DEF push_nothing, IInv, Same, device
<1>3. m.id = "QUIT" /\ IsRequest(m)
  BY <1>1, SMT DEF IsRequest, Msg
<1>4. ConnTypes' /\ link /\ toD' = Append(toD, m) /\ fromD' = fromD
  BY <1>2, <1>3, Sent DEF Types
<1>5. Types'
  BY <1>2, <1>4, TypesKept DEF Types, ClientTypes, Return, Stages, device
<1>6. Quiet
  BY <1>2, <1>4 DEF Wire
<1>7. toD' = <<m>> /\ dmn'.does = "idle" /\ Len(toD') = 1
  BY <1>2, <1>4, <1>6, OneFacts, IdleFields DEF Quiet
<1>8. \A i \in 1 .. 1 : i = 1
  BY SMT
<1>9. Wire'
  <2>1. \A i \in 1 .. Len(toD') : toD'[i].id = "QUIT"
    BY <1>3, <1>7, <1>8, OneFacts
  <2>2. link' /\ pc' = "end"
    BY <1>2 DEF Write, Return
  <2> QED BY <1>7, <2>1, <2>2 DEF Wire, StatStages
<1> QED
  BY <1>2, <1>5, <1>9, EndsInError DEF Control

(* local_build_list keeps the invariant.                                   *)
LEMMA LocalBuildListStep ==
  ASSUME IInv, local_build_list
  PROVE  IInv'
<1>1. /\ pc = "start" /\ cmd \in Trees /\ Types /\ Control /\ Wire
      /\ UNCHANGED <<cmd, runs, dmn, refused, flag, dirs, toD, fromD, link, dst>>
      /\ SkippedIsCurrent' /\ result = "none" /\ todo = << >> /\ dirs = << >> /\ unread = {}
  BY SkippedKept DEF local_build_list, IInv, Same, device, conn, Control
<1>2. Quiet /\ Quiet'
  BY <1>1 DEF Wire, Quiet
<1>3. cmd \in {"pushdir", "sync", "list"} /\ cmd \notin Pulls /\ cmd \notin OneFile
  BY <1>1 DEF Trees, Pulls, OneFile
<1>4. CASE Return("error") /\ UNCHANGED <<todo, left, unread>>
  <2>1. pc' = "end" /\ result' = "error"
    BY <1>4 DEF Return
  <2>2. Types'
    BY <1>1, <1>4, <2>1, ClientStepTypes DEF Types, ClientTypes, Stages
  <2>3. Wire'
    BY <1>2, <2>1, QuietAtTheEnd
  <2> QED BY <1>1, <1>3, <1>4, <2>2, <2>3, EndsInError
<1>5. ASSUME NEW lost \in SUBSET {f \in Files : Parent[f] # Root}, todo' \in Orders(Files \ lost), unread' = lost,
             left' = todo', Goto(IF cmd = "pushdir" \/ todo' = << >> THEN "next" ELSE "stat_write")
      PROVE  IInv'
  <2>1. /\ result' = "none" /\ pc' \in {"next", "stat_write"}
        /\ pc' = "stat_write" => cmd # "pushdir" /\ todo' # << >>
    BY <1>1, <1>5 DEF Goto
  <2>2. IsSeq(todo') /\ Range(todo') = Files \ lost /\ IsInjective(todo')
    BY <1>5, OrderFacts
  <2>3. Types'
    BY <1>1, <1>5, <2>1, <2>2, ClientStepTypes DEF Types, ClientTypes, Stages
  <2>4. Control'
    BY <1>1, <1>3, <1>5, <2>1, <2>2 DEF Control, StatStages, ListStages, SendStages, RecvStages, Copying
  <2>5. Wire'
    <3>1. CASE pc' = "next"
      BY <1>2, <3>1 DEF Wire, StatStages
    <3>2. CASE pc' = "stat_write"
      <4>1. left' = todo' \o dirs'
        BY <1>1, <1>5, <2>2, JoinedEmpty
      <4> QED BY <1>1, <1>2, <2>2, <3>2, <4>1, AskingStarts, EmptyFacts
    <3> QED BY <2>1, <3>1, <3>2
  <2>6. Discovery' /\ Success'
    BY <1>1, <1>3, <2>1 DEF Discovery, Success
  <2>7. Progress'
    <3>1. \A f \in Files : f \in Range(todo') \/ f \in unread'
      BY <1>5, <2>2
    <3> QED BY <1>1, <1>3, <2>1, <3>1 DEF Progress, Target, Copied, Copying, SendStages, RecvStages
  <2> QED BY <1>1, <2>3, <2>4, <2>5, <2>6, <2>7 DEF IInv
<1> QED
  BY <1>4, <1>5 DEF local_build_list

(* While the requests are on the wire, nothing is listed.                  *)
LEMMA AskingFacts ==
  ASSUME Types, Asking
  PROVE  /\ NoList /\ dmn.does = "idle"
         /\ \A i \in 1 .. Len(fromD) : fromD[i].id = "STAT" /\ fromD[i].file = Asked[i]
         /\ \A i \in 1 .. Len(toD) : toD[i].id = "STAT" /\ toD[i].file = Asked[Len(fromD) + i]
<1>1. dmn.does = "idle"
  BY IdleFields DEF Asking
<1>2. ASSUME NEW i \in 1 .. Len(fromD) PROVE fromD[i].id = "STAT" /\ fromD[i].file = Asked[i]
  <2>1. fromD[i] = Msg("STAT", Asked[i], fromD[i].x)
    BY DEF Asking
  <2> QED BY ONLY <2>1, MsgFields
<1>3. ASSUME NEW i \in 1 .. Len(toD) PROVE toD[i].id = "STAT" /\ toD[i].file = Asked[Len(fromD) + i]
  <2>1. toD[i] = Msg("STAT", Asked[Len(fromD) + i], None)
    BY DEF Asking
  <2> QED BY ONLY <2>1, MsgFields
<1> QED
  BY <1>1, <1>2, <1>3, NoListFacts

(* The same after a step.                                                  *)
LEMMA AskingNext ==
  ASSUME Asking'
  PROVE  NoList'
<1>1. dmn'.does = "idle"
  BY IdleFields DEF Asking
<1>2. ASSUME NEW i \in 1 .. Len(fromD') PROVE fromD'[i].id = "STAT"
  <2>1. fromD'[i] = Msg("STAT", Asked'[i], fromD'[i].x)
    BY DEF Asking
  <2> QED BY ONLY <2>1, MsgFields
<1>3. ASSUME NEW i \in 1 .. Len(toD') PROVE toD'[i].id = "STAT"
  <2>1. toD'[i] = Msg("STAT", Asked'[Len(fromD') + i], None)
    BY DEF Asking
  <2> QED BY ONLY <2>1, MsgFields
<1> QED
  BY <1>1, <1>2, <1>3, NoListNext

(* stat_write keeps the invariant: one more request for the next name.     *)
LEMMA StatWriteStep ==
  ASSUME IInv, stat_write
  PROVE  IInv'
<1>1. PICK m : m = Msg("STAT", Head(left), None)
  OBVIOUS
<1>2. /\ Types /\ Control /\ Wire /\ Discovery /\ Progress /\ Write(m) /\ pc = "stat_write"
      /\ left' = IF Len(left) > 1 THEN Tail(left) ELSE todo \o dirs
      /\ pc' = IF Len(left) > 1 THEN "stat_write" ELSE "stat_read"
      /\ UNCHANGED <<cmd, runs, dmn, refused, todo, flag, dirs, unread, dst, result>> /\ SkippedIsCurrent'
      /\ link
  BY <1>1, SkippedKept DEF stat_write, IInv, Same, device, Goto, Write
<1>3. Asking /\ left # << >> /\ IsSeq(left) /\ IsSeq(todo) /\ IsSeq(dirs)
  BY <1>2 DEF Wire, Control, StatStages, Types, ClientTypes
<1>0. PICK A : A = todo \o dirs
  OBVIOUS
<1>4. /\ Len(left) \in Nat \ {0} /\ Head(left) = left[1] /\ IsSeq(Tail(left)) /\ Len(Tail(left)) = Len(left) - 1
      /\ \A i \in 1 .. Len(left) - 1 : Tail(left)[i] = left[i + 1] /\ i + 1 \in 1 .. Len(left)
      /\ IsSeq(A) /\ Range(A) = Range(todo) \cup Range(dirs) /\ Len(A) \in Nat
  BY <1>0, <1>3, Tailed, Joined, SeqFacts
<1>5. 1 \in 1 .. Len(left)
  BY <1>4, SMT
<1>6. IsRequest(m)
  <2>1. Head(left) \in Nodes /\ (cmd \notin Pulls => Head(left) \in Files)
    BY <1>3, <1>4, <1>5 DEF Asking
  <2> QED BY <1>1, <2>1, SMT DEF IsRequest, Msg
<1>7. /\ ConnTypes' /\ link' /\ fromD' = fromD /\ Len(toD') = Len(toD) + 1 /\ toD'[Len(toD) + 1] = m
      /\ \A i \in 1 .. Len(toD) : toD'[i] = toD[i]
      /\ \A i \in 1 .. Len(toD') : i \in 1 .. Len(toD) \/ i = Len(toD) + 1
  BY <1>2, <1>6, Sent DEF Types
<1>8. IsSeq(left') /\ pc' \in StatStages /\ result' \in {"none", "success", "error"}
  BY <1>0, <1>2, <1>4 DEF StatStages, Types, ClientTypes
<1>9. Types'
  BY <1>2, <1>7, <1>8, TypesKept DEF Types, ClientTypes, StatStages, Stages, device
<1>10. /\ Suffix(left, A) /\ Len(fromD) + Len(toD) = Len(A) - Len(left) /\ Asked = A
       /\ Len(fromD) \in Nat /\ Len(toD) \in Nat
  BY <1>0, <1>2, <1>3, SeqFacts DEF Asking, Asked, Types, ConnTypes
<1>11. Asked' = A
  BY <1>0, <1>2 DEF Asked
<1>12. Suffix(Tail(left), A) /\ Head(left) = A[Len(A) - Len(left) + 1] /\ 1 <= Len(A)
  <2>1. Suffix(Tail(left), A) /\ Head(left) = A[Len(A) - Len(left) + 1]
    BY <1>3, <1>4, <1>10, SuffixNext
  <2>2. Len(left) <= Len(A)
    BY <1>10 DEF Suffix
  <2> QED BY <1>4, <2>1, <2>2, SMT
<1>13. \A i \in 1 .. Len(toD') : toD'[i] = Msg("STAT", A[Len(fromD) + i], None)
  <2>1. ASSUME NEW i \in 1 .. Len(toD) PROVE toD'[i] = Msg("STAT", A[Len(fromD) + i], None)
    BY <1>3, <1>7, <1>10 DEF Asking
  <2>2. Len(fromD) + (Len(toD) + 1) = Len(A) - Len(left) + 1
    BY <1>4, <1>10, SMT
  <2> QED BY <1>1, <1>7, <1>12, <2>1, <2>2
<1>14. left' # << >> /\ Asking'
  <2>1. \A i \in 1 .. Len(fromD) : /\ fromD[i] = Msg("STAT", A[i], fromD[i].x)
                                   /\ cmd \notin Pulls => fromD[i].x = Stat(A[i])
    BY <1>3, <1>10 DEF Asking
  <2>2. \A i \in 1 .. Len(fromD') : /\ fromD'[i] = Msg("STAT", A[i], fromD'[i].x)
                                    /\ cmd' \notin Pulls => fromD'[i].x = Stat(A[i])'
    BY <1>2, <1>7, <2>1 DEF Stat
  <2>3. CASE Len(left) > 1
    <3>1. pc' = "stat_write" /\ left' = Tail(left)
      BY <1>2, <2>3
    <3>2. Len(fromD) + (Len(toD) + 1) = Len(A) - (Len(left) - 1) /\ 1 <= Len(left) - 1
      BY <1>4, <1>10, <2>3, SMT
    <3>3. left' # << >>
      BY <1>4, <3>1, <3>2, SeqFacts
    <3>4. \A i \in 1 .. Len(left') : left'[i] \in Nodes /\ (cmd' \notin Pulls => left'[i] \in Files)
      BY <1>2, <1>3, <1>4, <3>1 DEF Asking
    <3>5. dmn' = Idle
      BY <1>2, <1>3 DEF Asking
    <3>6. Len(fromD') + Len(toD') = Len(A) - Len(left')
      BY <1>4, <1>7, <3>1, <3>2
    <3> QED BY <1>7, <1>11, <1>12, <1>13, <2>2, <3>1, <3>3, <3>4, <3>5, <3>6 DEF Asking
  <2>4. CASE ~(Len(left) > 1)
    <3>1. pc' = "stat_read" /\ left' = A
      BY <1>0, <1>2, <2>4
    <3>2. Len(fromD) + (Len(toD) + 1) = Len(A) - 0
      BY <1>4, <1>10, <2>4, SMT
    <3>3. left' # << >>
      BY <1>4, <1>12, <3>1, SeqFacts
    <3>4. \A i \in 1 .. Len(left') : left'[i] \in Nodes /\ (cmd' \notin Pulls => left'[i] \in Files)
      <4>1. Range(todo) \subseteq Files /\ Range(dirs) \subseteq Dirs /\ (cmd \notin Pulls => dirs = << >>)
        BY <1>2 DEF Types, ClientTypes, Control, Pulls
      <4>2. \A i \in 1 .. Len(A) : A[i] \in Range(todo) \cup Range(dirs)
        BY <1>4, SeqFacts
      <4>3. \A x \in Range(todo) \cup Range(dirs) : x \in Nodes /\ (cmd \notin Pulls => x \in Files)
        BY <4>1, SourceTree, EmptyFacts DEF Dirs, Nodes
      <4> QED BY <1>2, <3>1, <4>2, <4>3
    <3>5. dmn' = Idle
      BY <1>2, <1>3 DEF Asking
    <3>6. Len(fromD') + Len(toD') = Len(A) - 0
      BY <1>7, <3>2
    <3> QED BY <1>7, <1>11, <1>13, <2>2, <3>1, <3>3, <3>4, <3>5, <3>6 DEF Asking
  <2> QED BY <2>3, <2>4
<1>15. Control'
  BY <1>2, <1>8, <1>14 DEF Control, StatStages, ListStages, SendStages, RecvStages, Copying
<1>16. Wire'
  BY <1>7, <1>8, <1>14 DEF Wire, StatStages
<1>17. Discovery'
  <2>1. NoList /\ NoList'
    BY <1>2, <1>3, <1>14, AskingFacts, AskingNext
  <2> QED BY <1>2, <1>8, <2>1, FindingKept DEF Discovery, StatStages
<1>18. Progress' /\ Success'
  <2>1. Progress'
    BY <1>2, <1>8 DEF Progress, Target, Copied, StatStages, Copying, SendStages, RecvStages
  <2>2. Success'
    BY <1>2 DEF Success, Control
  <2> QED BY <2>1, <2>2
<1> QED
  BY <1>2, <1>9, <1>15, <1>16, <1>17, <1>18 DEF IInv

(* A copy that has the source's size and time is the source's.             *)
LEMMA UpToDateIsNew ==
  ASSUME DstTypes, NEW f \in Files, UpToDate(f, Stat(f))
  PROVE  dst[f] = New(f)
<1>1. dst[f] # None /\ Stat(f) = [size |-> Len(dst[f].data), time |-> dst[f].time]
  BY DEF UpToDate, Stat
<1>2. Len(dst[f].data) = Len(Content[f]) /\ dst[f].time = 1
  BY <1>1, SMT DEF UpToDate, New
<1>3. IsCopy(f, dst[f])
  BY <1>1 DEF DstTypes
<1>4. dst[f].data = Content[f]
  BY <1>2, <1>3, PrefixEqual, ContentIsSeq DEF IsCopy
<1>5. dst[f] = File(Content[f], 1)
  BY <1>2, <1>3, <1>4 DEF IsCopy
<1> QED
  BY <1>5 DEF File, New

(* stat_read keeps the invariant: the reply is the next name's.            *)
LEMMA StatReadStep ==
  ASSUME IInv, stat_read
  PROVE  IInv'
<1>1. /\ Types /\ Control /\ Wire /\ Discovery /\ Progress /\ SkippedIsCurrent /\ Read /\ pc = "stat_read"
      /\ flag' = IF cmd \in {"sync", "list"} /\ UpToDate(Head(left), Reply.x)
                 THEN flag \cup {Head(left)} ELSE flag
      /\ left' = Tail(left) /\ result = "none"
      /\ UNCHANGED <<cmd, runs, dmn, refused, todo, dirs, unread, dst>>
  BY DEF stat_read, IInv, Same, device, Control
<1>2. /\ ConnTypes' /\ link /\ link' /\ toD' = toD
      /\ Reply = fromD[1] /\ 1 \in 1 .. Len(fromD)
      /\ Len(fromD) \in Nat \ {0} /\ Len(fromD') = Len(fromD) - 1
      /\ \A i \in 1 .. Len(fromD') : fromD'[i] = fromD[i + 1] /\ i + 1 \in 1 .. Len(fromD)
  BY <1>1, Taken DEF Types
<1>3. Asking /\ left # << >> /\ IsSeq(left) /\ Asked = left /\ IsSeq(toD)
  BY <1>1, <1>2 DEF Wire, Control, StatStages, Types, ClientTypes, ConnTypes, Asked
<1>4. /\ Len(left) \in Nat \ {0} /\ Head(left) = left[1] /\ IsSeq(Tail(left)) /\ Len(Tail(left)) = Len(left) - 1
      /\ \A i \in 1 .. Len(left) - 1 : Tail(left)[i] = left[i + 1] /\ i + 1 \in 1 .. Len(left)
      /\ Len(toD) \in Nat
  BY <1>3, Tailed, SeqFacts
<1>5. 1 \in 1 .. Len(left)
  BY <1>4, SMT
<1>6. /\ Head(left) \in Nodes /\ (cmd \notin Pulls => Head(left) \in Files)
      /\ Reply.id = "STAT" /\ (cmd \notin Pulls => Reply.x = Stat(Head(left)))
  <2>1. Head(left) \in Nodes /\ (cmd \notin Pulls => Head(left) \in Files)
    BY <1>3, <1>4, <1>5 DEF Asking
  <2>2. Reply.id = "STAT" /\ (cmd \notin Pulls => Reply.x = Stat(Head(left)))
    BY <1>1, <1>2, <1>3, <1>4, AskingFacts DEF Asking
  <2> QED BY <2>1, <2>2
<1>a. /\ Len(fromD) \in Nat \ {0} /\ Len(toD) \in Nat /\ Len(left) \in Nat \ {0}
      /\ Len(fromD) + Len(toD) = Len(left) - 0
  BY <1>1, <1>2, <1>3, <1>4 DEF Asking
<1>7. /\ flag' \subseteq Files /\ SkippedIsCurrent' /\ (cmd \in Pulls => flag' = {})
  <2>1. CASE cmd \in {"sync", "list"} /\ UpToDate(Head(left), Reply.x)
    <3>1. flag' = flag \cup {Head(left)} /\ cmd \notin Pulls
      BY <1>1, <2>1 DEF Pulls
    <3>2. dst[Head(left)] = New(Head(left)) /\ Head(left) \in Files
      BY <1>1, <1>6, <2>1, <3>1, UpToDateIsNew DEF Types
    <3> QED BY <1>1, <3>1, <3>2 DEF SkippedIsCurrent, Types, ClientTypes
  <2>2. CASE ~(cmd \in {"sync", "list"} /\ UpToDate(Head(left), Reply.x))
    <3>1. flag' = flag
      BY <1>1, <2>2
    <3> QED BY <1>1, <3>1, SkippedKept DEF Types, ClientTypes, Control
  <2> QED BY <2>1, <2>2
<1>8. ASSUME pc' \in Stages, result' \in {"none", "success", "error"} PROVE Types'
  BY <1>1, <1>2, <1>4, <1>7, <1>8, TypesKept DEF Types, ClientTypes, device
<1>9. dmn = Idle /\ dmn' = Idle /\ NoList /\ \A i \in 1 .. Len(toD) : toD[i].id = "STAT"
  BY <1>1, <1>3, AskingFacts DEF Asking
<1>10. CASE cmd \in Pulls /\ Reply.x = None
  <2>1. Return("error") /\ pc' = "end" /\ result' = "error"
    BY <1>10 DEF stat_read, Return
  <2>2. Types'
    BY <1>8, <2>1 DEF Stages
  <2>3. Wire'
    BY <1>2, <1>9, <2>1, IdleFields DEF Wire, StatStages
  <2> QED BY <1>1, <1>7, <2>1, <2>2, <2>3, EndsInError
<1>11. CASE ~(cmd \in Pulls /\ Reply.x = None) /\ left' # << >>
  <2>1. pc' = "stat_read" /\ result' = "none"
    BY <1>1, <1>6, <1>11 DEF stat_read, Goto
  <2>2. Types'
    BY <1>8, <2>1 DEF Stages
  <2>3. Control'
    BY <1>1, <1>7, <1>11, <2>1 DEF Control, StatStages, ListStages, SendStages, RecvStages, Copying
  <2>4. Asking'
    <3>1. Asked' = left'
      BY <2>1 DEF Asked
    <3>2. \A i \in 1 .. Len(left') : left'[i] = left[i + 1] /\ i + 1 \in 1 .. Len(left)
      BY <1>1, <1>4
    <3>3. \A i \in 1 .. Len(left') : left'[i] \in Nodes /\ (cmd' \notin Pulls => left'[i] \in Files)
      BY <1>1, <1>3, <3>2 DEF Asking
    <3>4. Len(fromD') + Len(toD') = Len(left') - 0
      <4>1. (Len(fromD) - 1) + Len(toD) = (Len(left) - 1) - 0
        BY ONLY <1>a, SMT
      <4> QED BY <1>1, <1>2, <1>4, <4>1
    <3>5. \A i \in 1 .. Len(fromD') : i \in 1 .. Len(left')
      <4>1. \A i \in 1 .. Len(fromD) - 1 : i \in 1 .. Len(left) - 1
        BY ONLY <1>a, SMT
      <4> QED BY <1>1, <1>2, <1>4, <4>1
    <3>6. ASSUME NEW i \in 1 .. Len(fromD')
          PROVE  /\ fromD'[i] = Msg("STAT", left'[i], fromD'[i].x)
                 /\ cmd' \notin Pulls => fromD'[i].x = Stat(left[i])'
      <4>1. fromD'[i] = fromD[i + 1] /\ i + 1 \in 1 .. Len(fromD) /\ left'[i] = left[i + 1]
        BY <1>2, <3>2, <3>5
      <4>2. /\ fromD[i + 1] = Msg("STAT", left[i + 1], fromD[i + 1].x)
            /\ cmd \notin Pulls => fromD[i + 1].x = Stat(left[i + 1])
        BY <1>3, <4>1 DEF Asking
      <4> QED BY <1>1, <4>1, <4>2 DEF Stat
    <3>7. ASSUME NEW i \in 1 .. Len(toD') PROVE toD'[i] = Msg("STAT", left'[Len(fromD') + i], None)
      <4>1. toD'[i] = Msg("STAT", left[Len(fromD) + i], None)
        BY <1>2, <1>3 DEF Asking
      <4>2. (Len(fromD) - 1) + i \in 1 .. Len(left) - 1 /\ (Len(fromD) - 1) + i + 1 = Len(fromD) + i
        <5>1. i \in 1 .. Len(toD)
          BY <1>2
        <5> QED BY ONLY <1>a, <5>1, SMT
      <4>3. left'[(Len(fromD) - 1) + i] = left[Len(fromD) + i]
        BY <1>1, <1>4, <4>2
      <4> QED BY <1>2, <4>1, <4>3
    <3> QED BY <1>9, <2>1, <3>1, <3>3, <3>4, <3>6, <3>7 DEF Asking, Stat
  <2>5. Wire'
    BY <1>2, <2>1, <2>4 DEF Wire, StatStages
  <2>6. Discovery'
    BY <1>1, <1>2, <1>9, <2>1, <2>4, AskingNext, FindingKept DEF Discovery, StatStages
  <2>7. Progress' /\ Success'
    BY <1>1, <2>1 DEF Progress, Success, Target, Copied, StatStages, Copying, SendStages, RecvStages
  <2> QED BY <1>7, <2>2, <2>3, <2>5, <2>6, <2>7 DEF IInv
<1>12. CASE ~(cmd \in Pulls /\ Reply.x = None) /\ left' = << >>
  <2>1. pc' = (IF dirs # << >> THEN "list_write" ELSE "next") /\ result' = "none"
    BY <1>1, <1>6, <1>12 DEF stat_read, Goto
  <2>2. Types' /\ pc' \in {"list_write", "next"}
    BY <1>8, <2>1 DEF Stages
  <2>3. Control'
    BY <1>1, <1>7, <2>1, <2>2 DEF Control, StatStages, ListStages, SendStages, RecvStages, Copying
  <2>4. Quiet'
    <3>1. Len(left) - 1 = 0
      BY <1>1, <1>4, <1>12, EmptyFacts
    <3>2. Len(fromD) - 1 = 0 /\ Len(toD) = 0
      <4>1. \A a \in Nat \ {0}, b \in Nat, c \in Nat \ {0} : a + b = c - 0 /\ c - 1 = 0 => a - 1 = 0 /\ b = 0
        BY SMT
      <4> QED BY <1>a, <3>1, <4>1
    <3>3. IsSeq(fromD') /\ IsSeq(toD')
      BY <1>2 DEF ConnTypes
    <3> QED BY <1>2, <1>9, <3>2, <3>3, SeqFacts DEF Quiet
  <2>5. Wire'
    BY <2>2, <2>4 DEF Wire, StatStages
  <2>6. Discovery'
    <3>1. NoList'
      <4>1. Len(fromD') = 0 /\ Len(toD') = 0 /\ dmn'.does = "idle"
        BY <2>4, EmptyFacts, IdleFields DEF Quiet
      <4>2. 1 .. 0 = {}
        BY SMT
      <4> QED BY <4>1, <4>2, NoListNext
    <3> QED BY <1>1, <1>2, <1>9, <2>2, <3>1, FindingKept DEF Discovery, StatStages
  <2>7. Success'
    BY <2>1 DEF Success
  <2>8. Progress'
    <3>1. cmd = "pulldir" /\ pc' = "next" => Files \subseteq Range(todo)
      BY <1>1, <1>2, <1>9, <2>1, AllFound DEF Discovery, StatStages
    <3>2. cmd \in Pulls => refused = {}
      BY <1>1 DEF Control, Copying, SendStages, RecvStages
    <3>3. cmd \in {"pull", "pulldir"} => refused' = {}
      BY <1>1, <3>2 DEF Pulls
    <3>4. ASSUME cmd \notin {"ls", "list"}, pc' = "next" PROVE \A f \in Target : f \in Range(todo) \/ Copied(f)
      BY <1>1, <3>1, <3>4 DEF Progress, Target, StatStages, OneFile
    <3> QED BY <1>1, <2>2, <3>3, <3>4 DEF Progress, Target, Copied, StatStages, Copying, SendStages, RecvStages
  <2> QED BY <1>7, <2>2, <2>3, <2>5, <2>6, <2>7, <2>8 DEF IInv
<1> QED
  BY <1>10, <1>11, <1>12

(* next keeps the invariant: a file that is skipped is a copy already.     *)
LEMMA NextStep ==
  ASSUME IInv, next
  PROVE  IInv'
<1>1. /\ Types /\ Control /\ Wire /\ Progress /\ SkippedIsCurrent /\ pc = "next" /\ result = "none"
      /\ UNCHANGED <<cmd, runs, dmn, refused, flag, dirs, unread, toD, fromD, link, dst, result>>
      /\ left' = IF todo # << >> THEN Content[Head(todo)] ELSE << >>
      /\ SkippedIsCurrent'
  BY SkippedKept DEF next, IInv, Same, device, conn, Goto, Control
<1>2. Quiet /\ Quiet'
  BY <1>1 DEF Wire, Quiet
<1>3. IsSeq(todo) /\ IsInjective(todo) /\ Range(todo) \subseteq Files /\ IsSeq(left')
  <2>1. IsSeq(todo) /\ IsInjective(todo) /\ Range(todo) \subseteq Files
    BY <1>1 DEF Types, ClientTypes, Control
  <2>2. CASE todo = << >>
    BY <1>1, <2>1, <2>2, EmptyFacts
  <2>3. CASE todo # << >>
    BY <1>1, <2>1, <2>3, Tailed, ContentIsSeq
  <2> QED BY <2>1, <2>2, <2>3
<1>4. ASSUME pc' \in {"quit", "next", "send_req", "recv_req"}, IsSeq(todo'), Range(todo') \subseteq Range(todo),
             Control', Progress'
      PROVE  IInv'
  <2>1. Types'
    BY <1>1, <1>3, <1>4, ClientStepTypes DEF Types, ClientTypes, Stages
  <2>2. Wire'
    BY <1>2, <1>4 DEF Wire, StatStages
  <2>3. Discovery' /\ Success'
    BY <1>1, <1>4 DEF Discovery, Success, StatStages, ListStages
  <2> QED BY <1>1, <1>4, <2>1, <2>2, <2>3 DEF IInv
<1>5. CASE todo = << >>
  <2>1. pc' = "quit" /\ todo' = todo
    BY <1>5 DEF next, Goto
  <2>2. Control'
    BY <1>1, <2>1 DEF Control, StatStages, ListStages, SendStages, RecvStages, Copying
  <2>3. Progress'
    BY <1>1, <1>5, <2>1 DEF Progress, Target, Copied, Copying, SendStages, RecvStages
  <2> QED BY <1>3, <1>4, <2>1, <2>2, <2>3
<1>6. CASE todo # << >> /\ (Head(todo) \in flag \/ cmd = "list")
  <2>1. pc' = "next" /\ todo' = Tail(todo)
    BY <1>6 DEF next, Goto
  <2>2. /\ IsSeq(todo') /\ Range(todo) = {Head(todo)} \cup Range(todo') /\ IsInjective(todo')
        /\ Range(todo') \subseteq Range(todo)
    BY <1>3, <1>6, <2>1, Tailed, TailDistinct
  <2>3. Control'
    <3>1. cmd # "ls"
      BY <1>1, <1>6 DEF Control
    <3> QED BY <1>1, <2>1, <2>2, <3>1 DEF Control, StatStages, ListStages, SendStages, RecvStages, Copying
  <2>4. Progress'
    <3>1. Head(todo) \in flag => dst[Head(todo)] = New(Head(todo)) /\ cmd \notin Pulls
      BY <1>1 DEF SkippedIsCurrent, Control
    <3>2. ASSUME cmd \notin {"ls", "list"}, NEW f \in Target PROVE f \in Range(todo') \/ Copied(f)
      BY <1>1, <1>6, <2>2, <3>1, <3>2 DEF Progress, Copying, Copied
    <3>3. cmd \in {"pull", "pulldir"} => refused \cap Range(todo) = {}
      BY <1>1 DEF Progress, Copying
    <3> QED BY <1>1, <2>1, <2>2, <3>2, <3>3 DEF Progress, Target, Copied, Copying, SendStages, RecvStages, StatStages
  <2> QED BY <1>4, <2>1, <2>2, <2>3, <2>4
<1>7. CASE todo # << >> /\ ~(Head(todo) \in flag \/ cmd = "list")
  <2>1. pc' = (IF cmd \in Pulls THEN "recv_req" ELSE "send_req") /\ todo' = todo /\ left' = Content[Head(todo)]
    BY <1>1, <1>7 DEF next, Goto
  <2>2. cmd \in Pulls => cmd \in {"pull", "pulldir"}
    BY <1>1, <1>7 DEF Control, Pulls
  <2>3. pc' \in {"recv_req", "send_req"}
    BY <2>1
  <2>4. Control'
    <3>1. CASE cmd \in Pulls
      BY <1>1, <1>7, <2>1, <2>2, <3>1 DEF Control, StatStages, ListStages, SendStages, RecvStages, Copying
    <3>2. CASE cmd \notin Pulls
      BY <1>1, <1>7, <2>1, <3>2 DEF Control, StatStages, ListStages, SendStages, RecvStages, Copying
    <3> QED BY <3>1, <3>2
  <2>5. Progress'
    BY <1>1, <2>1, <2>3 DEF Progress, Target, Copied, Copying, SendStages, RecvStages
  <2> QED BY <1>3, <1>4, <2>1, <2>3, <2>4, <2>5
<1> QED
  BY <1>5, <1>6, <1>7

(* apk_invalid keeps the invariant: nothing has been sent.                 *)
LEMMA ApkInvalidStep ==
  ASSUME IInv, apk_invalid
  PROVE  IInv'
<1>1. /\ Types /\ Control /\ Wire /\ pc = "send_req" /\ Return("error") /\ pc' = "end" /\ result' = "error"
      /\ UNCHANGED <<cmd, runs, dmn, refused, todo, left, flag, dirs, unread, toD, fromD, link, dst>>
      /\ SkippedIsCurrent'
  BY SkippedKept DEF apk_invalid, IInv, Same, device, conn, Return
<1>2. Quiet'
  BY <1>1 DEF Wire, Quiet
<1>3. Types'
  BY <1>1, ClientStepTypes DEF Types, ClientTypes, Stages
<1> QED
  BY <1>1, <1>2, <1>3, QuietAtTheEnd, EndsInError DEF Control

---------------------------------------------------------------------------
(* sync_send.                                                              *)

(* One more chunk is sent.                                                 *)
LEMMA MoreOnTheWay ==
  ASSUME NEW f, NEW h \in Nat, NEW k \in Nat, NEW n \in Nat, IsSeq(toD), OnTheWay(f, h, k, n, 0),
         toD' = Append(toD, Msg("DATA", f, Content[f][n + 1]))
  PROVE  OnTheWay(f, h, k, n + 1, 0)'
<1>1. PICK m : m = Msg("DATA", f, Content[f][n + 1]) /\ toD' = Append(toD, m)
  OBVIOUS
<1>2. /\ Len(toD') = Len(toD) + 1 /\ toD'[Len(toD) + 1] = m
      /\ \A i \in 1 .. Len(toD) : toD'[i] = toD[i]
  BY ONLY <1>1, IsSeq(toD), Appended
<1>3. /\ k <= n /\ Len(toD) = h + (n - k) + 0
      /\ \A i \in 1 .. n - k : toD[h + i] = Msg("DATA", f, Content[f][k + i])
  BY DEF OnTheWay
<1>4. /\ k <= n + 1 /\ Len(toD) + 1 = h + ((n + 1) - k) + 0 /\ 0 # 1
      /\ \A i \in 1 .. (n + 1) - k : \/ i \in 1 .. n - k /\ h + i \in 1 .. Len(toD)
                                     \/ h + i = Len(toD) + 1 /\ k + i = n + 1
  BY ONLY <1>3, h \in Nat, k \in Nat, n \in Nat, SMT
<1>5. ASSUME NEW i \in 1 .. (n + 1) - k PROVE toD'[h + i] = Msg("DATA", f, Content[f][k + i])
  BY <1>1, <1>2, <1>3, <1>4
<1> QED
  BY <1>2, <1>4, <1>5 DEF OnTheWay

(* ID_DONE follows the data.                                               *)
LEMMA DoneOnTheWay ==
  ASSUME NEW f, NEW h \in Nat, NEW k \in Nat, NEW n \in Nat, IsSeq(toD), OnTheWay(f, h, k, n, 0),
         toD' = Append(toD, Msg("DONE", f, 1))
  PROVE  OnTheWay(f, h, k, n, 1)'
<1>1. PICK m : m = Msg("DONE", f, 1) /\ toD' = Append(toD, m)
  OBVIOUS
<1>2. /\ Len(toD') = Len(toD) + 1 /\ toD'[Len(toD) + 1] = m
      /\ \A i \in 1 .. Len(toD) : toD'[i] = toD[i]
  BY ONLY <1>1, IsSeq(toD), Appended
<1>3. /\ k <= n /\ Len(toD) = h + (n - k) + 0
      /\ \A i \in 1 .. n - k : toD[h + i] = Msg("DATA", f, Content[f][k + i])
  BY DEF OnTheWay
<1>4. /\ Len(toD) + 1 = h + (n - k) + 1
      /\ \A i \in 1 .. n - k : h + i \in 1 .. Len(toD)
  BY ONLY <1>3, h \in Nat, k \in Nat, n \in Nat, SMT
<1> QED
  BY <1>1, <1>2, <1>3, <1>4 DEF OnTheWay

(* What the steps of sync_send know of the file they send.                 *)
LEMMA SendingFacts ==
  ASSUME Types, Control, Wire, link, pc \in {"send_data", "send_done", "send_status"}
  PROVE  /\ Sending /\ todo # << >> /\ IsSeq(todo) /\ Head(todo) \in Files /\ Head(todo) \in Range(todo)
         /\ Head(todo) \notin flag /\ cmd \notin Pulls /\ cmd # "list"
         /\ IsSeq(Content[Head(todo)]) /\ IsSeq(left) /\ IsSeq(toD) /\ IsSeq(fromD)
         /\ Len(Content[Head(todo)]) - Len(left) \in Nat
<1>1. /\ Sending /\ todo # << >> /\ IsSeq(todo) /\ Range(todo) \subseteq Files /\ Head(todo) \notin flag
      /\ cmd \notin Pulls /\ cmd # "list" /\ IsSeq(left) /\ IsSeq(toD) /\ IsSeq(fromD)
  BY DEF Wire, Control, SendStages, Types, ClientTypes, ConnTypes
<1>2. Head(todo) \in Range(todo)
  BY <1>1, Tailed
<1>3. Head(todo) \in Files /\ IsSeq(Content[Head(todo)])
  BY <1>1, <1>2, ContentIsSeq
<1>4. Len(left) \in Nat /\ Len(Content[Head(todo)]) \in Nat /\ Len(left) <= Len(Content[Head(todo)])
  BY <1>1, <1>3, SeqFacts DEF Sending, Suffix
<1>5. Len(Content[Head(todo)]) - Len(left) \in Nat
  BY ONLY <1>4, SMT
<1> QED
  BY <1>1, <1>2, <1>3, <1>5

(* The types after a step that writes a packet.                            *)
LEMMA WriteTypes ==
  ASSUME Types, ConnTypes', UNCHANGED <<cmd, runs, dmn, refused, dst>>,
         IsSeq(todo'), IsSeq(left'), IsSeq(dirs'), Range(todo') \subseteq Files, Range(dirs') \subseteq Dirs,
         flag' \subseteq Files, unread' \subseteq Files, pc' \in Stages, result' \in {"none", "success", "error"}
  PROVE  Types'
<1>1. ClientTypes'
  BY DEF Types, ClientTypes
<1>2. DmnTypes' /\ DstTypes'
  BY TypesKept DEF device
<1> QED
  BY <1>1, <1>2 DEF Types

(* A step within sync_send or sync_recv changes no list.                   *)
LEMMA CopyStepKept ==
  ASSUME Types, Control, Wire', Types', SkippedIsCurrent', Progress, pc \in Copying,
         UNCHANGED <<cmd, todo, flag, dirs, unread, refused, result, dst>>,
         \/ /\ pc \in SendStages /\ pc' \in SendStages \ {"send_req"}
         \/ /\ pc \in RecvStages /\ pc' \in RecvStages \ {"recv_req"}
  PROVE  IInv'
<1>1. Control'
  BY DEF Control, StatStages, ListStages, SendStages, RecvStages, Copying
<1>2. Discovery' /\ Success'
  BY DEF Discovery, Success, Control, StatStages, ListStages, SendStages, RecvStages
<1>3. Progress'
  BY DEF Progress, Target, Copied, Copying, SendStages, RecvStages, StatStages
<1> QED
  BY <1>1, <1>2, <1>3 DEF IInv

(* send_req keeps the invariant.                                           *)
LEMMA SendReqStep ==
  ASSUME IInv, send_req
  PROVE  IInv'
<1>1. PICK f, m : f = Head(todo) /\ m = Msg("SEND", f, None)
  OBVIOUS
<1>2. /\ Types /\ Control /\ Wire /\ Progress /\ Write(m) /\ pc = "send_req" /\ pc' = "send_data"
      /\ UNCHANGED <<cmd, runs, dmn, refused, todo, left, flag, dirs, unread, dst, result>> /\ SkippedIsCurrent'
  BY <1>1, SkippedKept DEF send_req, IInv, Same, device, Goto
<1>3. /\ todo # << >> /\ IsSeq(todo) /\ Range(todo) \subseteq Files /\ left = Content[f] /\ cmd \notin Pulls
  BY <1>1, <1>2 DEF Control, SendStages, Types, ClientTypes
<1>4. f \in Files /\ IsSeq(Content[f])
  BY <1>1, <1>3, Tailed, ContentIsSeq
<1>5. IsRequest(m)
  BY <1>1, <1>4, SMT DEF IsRequest, Msg
<1>6. ConnTypes' /\ link /\ link' /\ fromD' = fromD /\ toD' = Append(toD, m)
  BY <1>2, <1>5, Sent DEF Types
<1>7. Types'
  BY <1>2, <1>6, WriteTypes DEF Types, ClientTypes, Stages
<1>8. toD' = <<m>> /\ Len(toD') = 1 /\ toD'[1] = m /\ fromD' = << >> /\ dmn' = Idle
  BY <1>2, <1>6, OneFacts DEF Wire, Quiet
<1>9. Offered(f, 0, 0)'
  <2>1. 0 <= 0 /\ 1 = 1 + (0 - 0) + 0 /\ 1 .. 0 - 0 = {} /\ 0 # 1
    BY SMT
  <2> QED BY <1>1, <1>8, <2>1 DEF Offered, OnTheWay
<1>10. Len(Content[f]) - Len(Content[f]) = 0
  <2>1. Len(Content[f]) \in Nat
    BY <1>4, SeqFacts
  <2> QED BY ONLY <2>1, SMT
<1>11. Sending'
  <2>1. Head(todo') = f /\ left' = Content[f] /\ Suffix(left', Content[f])
    BY <1>1, <1>2, <1>3, <1>4, SuffixEnds
  <2>2. Len(Content[f]) - Len(left') = 0
    BY <1>10, <2>1
  <2> QED BY <1>2, <1>9, <2>1, <2>2 DEF Sending
<1>12. Wire'
  BY <1>2, <1>6, <1>11 DEF Wire, StatStages
<1> QED
  BY <1>2, <1>7, <1>12, CopyStepKept DEF SendStages, Copying

(* send_data keeps the invariant.                                          *)
LEMMA SendDataStep ==
  ASSUME IInv, send_data
  PROVE  IInv'
<1>1. PICK f, m : f = Head(todo) /\ m = Msg("DATA", f, Head(left))
  OBVIOUS
<1>2. /\ Types /\ Control /\ Wire /\ Progress /\ Write(m) /\ pc = "send_data" /\ pc' = "send_data"
      /\ left # << >> /\ left' = Tail(left) /\ link
      /\ UNCHANGED <<cmd, runs, dmn, refused, todo, flag, dirs, unread, dst, result>> /\ SkippedIsCurrent'
  BY <1>1, SkippedKept DEF send_data, IInv, Same, device, Goto, Write
<1>3. /\ Sending /\ f \in Files /\ IsSeq(Content[f]) /\ IsSeq(left) /\ IsSeq(toD) /\ IsSeq(fromD)
      /\ Len(Content[f]) - Len(left) \in Nat
  BY <1>1, <1>2, SendingFacts
<1>4. IsRequest(m)
  BY <1>1, SMT DEF IsRequest, Msg
<1>5. /\ ConnTypes' /\ link' /\ fromD' = fromD /\ toD' = Append(toD, m)
      /\ Len(toD') = Len(toD) + 1 /\ toD'[Len(toD) + 1] = m
      /\ \A i \in 1 .. Len(toD) : toD'[i] = toD[i]
      /\ \A i \in 1 .. Len(toD') : i \in 1 .. Len(toD) \/ i = Len(toD) + 1
  BY <1>2, <1>4, Sent DEF Types
<1>6. IsSeq(Tail(left)) /\ Len(left) \in Nat \ {0} /\ Len(Tail(left)) = Len(left) - 1
  BY <1>2, <1>3, Tailed
<1>7. Types'
  BY <1>2, <1>5, <1>6, WriteTypes DEF Types, ClientTypes, Stages
<1>8. PICK n \in Nat : n = Len(Content[f]) - Len(left)
  BY <1>3
<1>9. Suffix(left, Content[f]) /\ (Offered(f, n, 0) \/ Storing(f, n, 0) \/ Skipping(f, 0))
  BY <1>1, <1>2, <1>3, <1>8, ZeroOne DEF Sending, Answered
<1>10. Suffix(left', Content[f]) /\ Head(left) = Content[f][n + 1]
  BY <1>2, <1>3, <1>8, <1>9, SuffixNext
<1>11. toD' = Append(toD, Msg("DATA", f, Content[f][n + 1]))
  BY <1>1, <1>5, <1>10
<1>12. Len(Content[f]) - Len(left') = n + 1
  <2>1. Len(Content[f]) \in Nat
    BY <1>3, SeqFacts
  <2>2. Len(Content[f]) - (Len(left) - 1) = n + 1
    BY ONLY <1>6, <1>8, <2>1, SMT
  <2> QED BY <1>2, <1>6, <2>2
<1>13. Len(toD) \in Nat /\ 0 \in Nat /\ 1 \in Nat
  BY <1>3, SeqFacts, SMT
<1>14. ASSUME Offered(f, n, 0) PROVE Offered(f, n + 1, 0)'
  <2>1. OnTheWay(f, 1, 0, n, 0) /\ toD[1] = Msg("SEND", f, None) /\ dmn = Idle /\ fromD = << >>
    BY <1>14 DEF Offered
  <2>2. OnTheWay(f, 1, 0, n + 1, 0)'
    BY <1>3, <1>11, <1>13, <2>1, MoreOnTheWay
  <2>3. 1 \in 1 .. Len(toD)
    <3>1. Len(toD) = 1 + (n - 0) + 0
      BY <2>1 DEF OnTheWay
    <3> QED BY ONLY n \in Nat, <3>1, SMT
  <2> QED BY <1>2, <1>5, <2>1, <2>2, <2>3 DEF Offered
<1>15. ASSUME Storing(f, n, 0) PROVE Storing(f, n + 1, 0)'
  <2>1. PICK k \in Nat : k = Len(dst[f].data)
    BY <1>15, SeqFacts DEF Storing
  <2>2. OnTheWay(f, 0, k, n + 1, 0)'
    BY <1>3, <1>11, <1>13, <1>15, <2>1, MoreOnTheWay DEF Storing
  <2> QED BY <1>2, <1>5, <1>15, <2>1, <2>2 DEF Storing, Doing
<1>16. ASSUME Skipping(f, 0) PROVE Skipping(f, 0)'
  <2>1. \A i \in 1 .. Len(toD') : toD'[i].id = "DATA"
    <3>1. \A i \in 1 .. Len(toD) : toD[i].id = "DATA"
      <4>1. 0 # 1
        BY SMT
      <4> QED BY <1>16, <4>1 DEF Skipping
    <3>2. m.id = "DATA"
      BY <1>1, SMT DEF Msg
    <3> QED BY <1>5, <3>1, <3>2
  <2>2. Len(toD') >= 0 /\ 0 # 1
    <3>1. Len(toD) + 1 >= 0 /\ 0 # 1
      BY ONLY <1>13, SMT
    <3> QED BY <1>5, <3>1
  <2> QED BY <1>2, <1>5, <1>16, <2>1, <2>2 DEF Skipping, Doing
<1>17. Offered(f, n + 1, 0)' \/ Storing(f, n + 1, 0)' \/ Skipping(f, 0)'
  BY <1>9, <1>14, <1>15, <1>16
<1>18. Sending'
  <2>1. Head(todo') = f
    BY <1>1, <1>2
  <2> QED BY <1>2, <1>10, <1>12, <1>17, <2>1 DEF Sending
<1>19. Wire'
  BY <1>2, <1>5, <1>18 DEF Wire, StatStages
<1> QED
  BY <1>2, <1>7, <1>19, CopyStepKept DEF SendStages, Copying

(* send_eof keeps the invariant: a file cut short is remembered.           *)
LEMMA SendEofStep ==
  ASSUME IInv, send_eof
  PROVE  IInv'
<1>1. PICK f : f = Head(todo)
  OBVIOUS
<1>2. /\ Types /\ Control /\ Wire /\ Progress /\ pc = "send_data" /\ pc' = "send_done" /\ link /\ result = "none"
      /\ unread' = IF left = << >> THEN unread ELSE unread \cup {f}
      /\ UNCHANGED <<cmd, runs, dmn, refused, todo, left, flag, dirs, toD, fromD, link, dst, result>>
      /\ SkippedIsCurrent'
  BY <1>1, SkippedKept DEF send_eof, IInv, Same, device, conn, Goto, Control
<1>3. Sending /\ f \in Files /\ cmd \notin Pulls
  BY <1>1, <1>2, SendingFacts
<1>4. unread \subseteq unread' /\ unread' \subseteq Files /\ (left = << >> \/ f \in unread')
  BY <1>2, <1>3 DEF Types, ClientTypes
<1>5. Types'
  BY <1>2, <1>4, ClientStepTypes DEF Types, ClientTypes, Stages
<1>6. Control'
  BY <1>2 DEF Control, StatStages, ListStages, SendStages, RecvStages, Copying
<1>7. Sending'
  <2>1. PICK n : n = Len(Content[f]) - Len(left)
    OBVIOUS
  <2>2. /\ Suffix(left, Content[f])
        /\ Offered(f, n, 0) \/ Storing(f, n, 0) \/ Skipping(f, 0) \/ Answered(f, n, 0)
    BY <1>1, <1>2, <1>3, <2>1 DEF Sending
  <2>3. Offered(f, n, 0)' \/ Storing(f, n, 0)' \/ Skipping(f, 0)' \/ Answered(f, n, 0)'
    BY <1>2, <2>2 DEF Offered, Storing, Skipping, Answered, OnTheWay, Doing
  <2>4. Head(todo') = f /\ left' = left /\ Len(Content[f]) - Len(left') = n
    BY <1>1, <1>2, <2>1
  <2> QED BY <1>2, <1>4, <2>2, <2>3, <2>4 DEF Sending
<1>8. Wire'
  BY <1>2, <1>7 DEF Wire, StatStages
<1>9. Discovery' /\ Success'
  BY <1>2 DEF Discovery, Success, StatStages, ListStages
<1>10. Progress'
  <2>1. \A g \in Target : g \in Range(todo) \/ g \in unread \/ dst[g] = New(g)
    BY <1>2, <1>3 DEF Progress, Copying, SendStages, Copied, Control
  <2>2. \A g \in Target' : g \in Range(todo') \/ Copied(g)'
    BY <1>2, <1>3, <1>4, <2>1 DEF Target, Copied
  <2> QED BY <1>2, <1>3, <2>2 DEF Progress, Pulls
<1> QED
  BY <1>2, <1>5, <1>6, <1>8, <1>9, <1>10 DEF IInv

(* send_done keeps the invariant.                                          *)
LEMMA SendDoneStep ==
  ASSUME IInv, send_done
  PROVE  IInv'
<1>1. PICK f, m : f = Head(todo) /\ m = Msg("DONE", f, New(f).time)
  OBVIOUS
<1>2. /\ Types /\ Control /\ Wire /\ Progress /\ Write(m) /\ pc = "send_done" /\ pc' = "send_status" /\ link
      /\ UNCHANGED <<cmd, runs, dmn, refused, todo, left, flag, dirs, unread, dst, result>> /\ SkippedIsCurrent'
  BY <1>1, SkippedKept DEF send_done, IInv, Same, device, Goto, Write
<1>3. /\ Sending /\ f \in Files /\ IsSeq(Content[f]) /\ IsSeq(left) /\ IsSeq(toD) /\ IsSeq(fromD)
      /\ Len(Content[f]) - Len(left) \in Nat
  BY <1>1, <1>2, SendingFacts
<1>4. IsRequest(m) /\ m.id = "DONE" /\ m = Msg("DONE", f, 1)
  BY <1>1, SMT DEF IsRequest, Msg, New
<1>5. /\ ConnTypes' /\ link' /\ fromD' = fromD /\ toD' = Append(toD, m)
      /\ Len(toD') = Len(toD) + 1 /\ toD'[Len(toD) + 1] = m
      /\ \A i \in 1 .. Len(toD) : toD'[i] = toD[i]
      /\ \A i \in 1 .. Len(toD') : i \in 1 .. Len(toD) \/ i = Len(toD) + 1
  BY <1>2, <1>4, Sent DEF Types
<1>6. Types'
  BY <1>2, <1>5, WriteTypes DEF Types, ClientTypes, Stages
<1>7. PICK n \in Nat : n = Len(Content[f]) - Len(left)
  BY <1>3
<1>8. /\ Suffix(left, Content[f]) /\ (left = << >> \/ f \in unread)
      /\ Offered(f, n, 0) \/ Storing(f, n, 0) \/ Skipping(f, 0)
  BY <1>1, <1>2, <1>3, <1>7, ZeroOne DEF Sending, Answered
<1>9. toD' = Append(toD, Msg("DONE", f, 1)) /\ Len(toD) \in Nat
  BY <1>3, <1>4, <1>5, SeqFacts
<1>10. ASSUME Offered(f, n, 0) PROVE Offered(f, n, 1)'
  <2>1. OnTheWay(f, 1, 0, n, 0) /\ toD[1] = Msg("SEND", f, None) /\ dmn = Idle /\ fromD = << >>
    BY <1>10 DEF Offered
  <2>2. OnTheWay(f, 1, 0, n, 1)'
    BY <1>3, <1>9, <2>1, ZeroOne, DoneOnTheWay
  <2>3. 1 \in 1 .. Len(toD)
    <3>1. Len(toD) = 1 + (n - 0) + 0
      BY <2>1 DEF OnTheWay
    <3> QED BY ONLY n \in Nat, <3>1, SMT
  <2> QED BY <1>2, <1>5, <2>1, <2>2, <2>3 DEF Offered
<1>11. ASSUME Storing(f, n, 0) PROVE Storing(f, n, 1)'
  <2>1. PICK k \in Nat : k = Len(dst[f].data)
    BY <1>11, SeqFacts DEF Storing
  <2>2. OnTheWay(f, 0, k, n, 1)'
    BY <1>3, <1>9, <1>11, <2>1, ZeroOne, DoneOnTheWay DEF Storing
  <2> QED BY <1>2, <1>5, <1>11, <2>1, <2>2 DEF Storing, Doing
<1>12. ASSUME Skipping(f, 0) PROVE Skipping(f, 1)'
  <2>1. \A i \in 1 .. Len(toD) : toD[i].id = "DATA"
    BY <1>12, ZeroOne DEF Skipping
  <2>2. \A i \in 1 .. Len(toD) : i # Len(toD) + 1
    BY ONLY <1>9, SMT
  <2>3. \A i \in 1 .. Len(toD') : toD'[i].id = IF 1 = 1 /\ i = Len(toD') THEN "DONE" ELSE "DATA"
    BY <1>4, <1>5, <2>1, <2>2
  <2>4. Len(toD') >= 1
    <3>1. Len(toD) + 1 >= 1
      BY ONLY <1>9, SMT
    <3> QED BY <1>5, <3>1
  <2> QED BY <1>2, <1>5, <1>12, <2>3, <2>4 DEF Skipping, Doing
<1>13. Sending'
  <2>1. Head(todo') = f /\ left' = left /\ Len(Content[f]) - Len(left') = n /\ unread' = unread
    BY <1>1, <1>2, <1>7
  <2>2. Offered(f, n, 1)' \/ Storing(f, n, 1)' \/ Skipping(f, 1)'
    BY <1>8, <1>10, <1>11, <1>12
  <2> QED BY <1>2, <1>8, <2>1, <2>2 DEF Sending
<1>14. Wire'
  BY <1>2, <1>5, <1>13 DEF Wire, StatStages
<1> QED
  BY <1>2, <1>6, <1>14, CopyStepKept DEF SendStages, Copying

(* send_status keeps the invariant: ID_OKAY means that all of it arrived.  *)
LEMMA SendStatusStep ==
  ASSUME IInv, send_status
  PROVE  IInv'
<1>1. PICK f : f = Head(todo)
  OBVIOUS
<1>2. /\ Types /\ Control /\ Wire /\ Progress /\ pc = "send_status" /\ Read /\ result = "none"
      /\ UNCHANGED <<cmd, runs, dmn, refused, left, flag, dirs, unread, dst>> /\ SkippedIsCurrent'
  BY SkippedKept DEF send_status, IInv, Same, device, Control
<1>3. /\ ConnTypes' /\ link /\ link' /\ toD' = toD /\ fromD' = Tail(fromD)
      /\ fromD # << >> /\ Reply = fromD[1]
  BY <1>2, Taken DEF Types
<1>4. /\ Sending /\ f \in Files /\ IsSeq(Content[f]) /\ IsSeq(left) /\ IsSeq(todo) /\ todo # << >>
      /\ cmd \notin Pulls /\ Len(Content[f]) - Len(left) \in Nat
  BY <1>1, <1>2, <1>3, SendingFacts
<1>5. PICK n \in Nat : n = Len(Content[f]) - Len(left)
  BY <1>4
<1>6. (left = << >> \/ f \in unread) /\ (Skipping(f, 1) \/ Answered(f, n, 1))
  BY <1>1, <1>2, <1>3, <1>4, <1>5 DEF Sending, Offered, Storing
<1>7. PICK m : fromD = <<m>> /\ (m = Msg("FAIL", f, None) \/ m = Msg("OKAY", f, None))
  BY <1>6 DEF Skipping, Answered
<1>8. Reply = m /\ fromD' = << >> /\ m.id \in {"FAIL", "OKAY"} /\ (m.id = "OKAY" <=> m = Msg("OKAY", f, None))
  <2>1. Reply = m /\ fromD' = << >>
    BY <1>3, <1>7, OneFacts
  <2>2. m.id \in {"FAIL", "OKAY"} /\ (m.id = "OKAY" <=> m = Msg("OKAY", f, None))
    BY ONLY <1>7, SMT DEF Msg
  <2> QED BY <2>1, <2>2
<1>9. CASE m.id = "FAIL"
  <2>1. Return("error") /\ pc' = "end" /\ result' = "error" /\ todo' = todo
    BY <1>8, <1>9 DEF send_status, Return
  <2>2. Types'
    BY <1>2, <1>3, <2>1, WriteTypes DEF Types, ClientTypes, Stages
  <2>3. dmn.does # "SEND" /\ \A i \in 1 .. Len(toD) : toD[i].id # "SEND"
    <3>1. CASE Skipping(f, 1)
      <4>1. dmn.does = "skip"
        <5>1. dmn = [does |-> "skip", file |-> dmn.file, rest |-> dmn.rest]
          BY <3>1 DEF Skipping, Doing
        <5> QED BY ONLY <5>1, SMT
      <4> QED BY <3>1, <4>1 DEF Skipping
    <3>2. CASE Answered(f, n, 1)
      BY <3>2, IdleFields, EmptyFacts, ZeroOne DEF Answered
    <3> QED BY <1>6, <3>1, <3>2
  <2>4. Wire'
    BY <1>2, <1>3, <2>1, <2>3 DEF Wire, StatStages
  <2> QED BY <1>2, <2>1, <2>2, <2>4, EndsInError DEF Control
<1>10. CASE m.id = "OKAY"
  <2>1. pc' = "next" /\ result' = "none" /\ todo' = Tail(todo)
    BY <1>2, <1>8, <1>10 DEF send_status, Goto
  <2>2. IsInjective(todo) /\ IsSeq(todo') /\ Range(todo) = {f} \cup Range(todo') /\ IsInjective(todo')
    BY <1>1, <1>2, <1>4, <2>1, Tailed, TailDistinct DEF Control
  <2>3. Types'
    BY <1>2, <1>3, <2>1, <2>2, WriteTypes DEF Types, ClientTypes, Stages
  <2>4. Control'
    BY <1>2, <1>4, <2>1, <2>2 DEF Control, StatStages, ListStages, SendStages, RecvStages, Copying, Pulls
  <2>5. m # Msg("FAIL", f, None)
    BY ONLY <1>10, SMT DEF Msg
  <2>6. fromD # <<Msg("FAIL", f, None)>>
    BY <1>7, <2>5, OneFacts
  <2>7. /\ dmn = Idle /\ toD = << >> /\ dst[f] = File(dst[f].data, 1) /\ IsSeq(dst[f].data)
        /\ Prefix(dst[f].data, Content[f]) /\ Len(dst[f].data) = n
    BY <1>6, <2>6 DEF Skipping, Answered
  <2>8. Wire'
    BY <1>2, <1>3, <1>8, <2>1, <2>7 DEF Wire, Quiet, StatStages
  <2>9. f \in unread \/ dst[f] = New(f)
    <3>1. CASE left = << >>
      <4>1. Len(Content[f]) - 0 = n /\ Len(Content[f]) \in Nat
        BY <1>4, <1>5, <3>1, EmptyFacts, SeqFacts
      <4>2. Len(Content[f]) = n
        BY ONLY <4>1, SMT
      <4>3. dst[f].data = Content[f]
        BY <1>4, <2>7, <4>2, PrefixEqual
      <4> QED BY <2>7, <4>3 DEF File, New
    <3> QED BY <1>6, <3>1
  <2>10. Progress'
    <3>1. \A g \in Target : g \in Range(todo') \/ g \in unread \/ dst[g] = New(g)
      <4>1. cmd \notin {"ls", "list"}
        BY <1>2, <1>4 DEF Control, SendStages, Pulls
      <4>2. \A g \in Target : g \in Range(todo) \/ Copied(g)
        BY <1>2, <4>1 DEF Progress, Copying, SendStages
      <4> QED BY <1>4, <2>2, <2>9, <4>2 DEF Copied
    <3>2. \A g \in Target' : g \in Range(todo') \/ Copied(g)'
      BY <1>2, <1>4, <3>1 DEF Target, Copied
    <3> QED BY <1>2, <1>4, <2>1, <3>2 DEF Progress, Pulls
  <2>11. Discovery' /\ Success'
    BY <2>1 DEF Discovery, Success, StatStages, ListStages
  <2> QED BY <1>2, <2>3, <2>4, <2>8, <2>10, <2>11 DEF IInv
<1> QED
  BY <1>8, <1>9, <1>10

---------------------------------------------------------------------------
(* sync_recv.                                                              *)

(* What the service does.                                                  *)
LEMMA DoingDoes ==
  ASSUME NEW d, Doing(d)
  PROVE  dmn.does = d
<1>1. PICK x, y : dmn = [does |-> d, file |-> x, rest |-> y]
  BY DEF Doing
<1> QED
  BY ONLY <1>1, SMT

(* One copy changes.                                                       *)
LEMMA DstSet ==
  ASSUME DstTypes, NEW f \in Files, NEW v, v = None \/ IsCopy(f, v), dst' = [dst EXCEPT ![f] = v]
  PROVE  DstTypes' /\ dst'[f] = v /\ \A g \in Files \ {f} : dst'[g] = dst[g]
<1>1. dst = [g \in Files |-> dst[g]] /\ \A g \in Files : dst[g] = None \/ IsCopy(g, dst[g])
  BY DEF DstTypes
<1>2. dst' = [g \in Files |-> IF g = f THEN v ELSE dst[g]]
  BY <1>1, SMT
<1>3. dst'[f] = v /\ \A g \in Files \ {f} : dst'[g] = dst[g]
  BY <1>2
<1>4. dst' = [g \in Files |-> dst'[g]]
  BY <1>2
<1> QED
  BY <1>1, <1>3, <1>4 DEF DstTypes

(* recv_req keeps the invariant.                                           *)
LEMMA RecvReqStep ==
  ASSUME IInv, recv_req
  PROVE  IInv'
<1>1. PICK f, m : f = Head(todo) /\ m = Msg("RECV", f, None)
  OBVIOUS
<1>2. /\ Types /\ Control /\ Wire /\ Progress /\ Write(m) /\ pc = "recv_req" /\ pc' = "recv_first"
      /\ UNCHANGED <<cmd, runs, dmn, refused, todo, left, flag, dirs, unread, dst, result>> /\ SkippedIsCurrent'
  BY <1>1, SkippedKept DEF recv_req, IInv, Same, device, Goto
<1>3. /\ todo # << >> /\ IsSeq(todo) /\ Range(todo) \subseteq Files /\ cmd \in {"pull", "pulldir"}
  BY <1>2 DEF Control, RecvStages, Types, ClientTypes
<1>4. f \in Files /\ f \in Range(todo)
  BY <1>1, <1>3, Tailed
<1>5. f \notin refused
  BY <1>2, <1>3, <1>4 DEF Progress, Copying, RecvStages
<1>6. IsRequest(m)
  BY <1>1, <1>4, SMT DEF IsRequest, Msg
<1>7. ConnTypes' /\ link /\ link' /\ fromD' = fromD /\ toD' = Append(toD, m)
  BY <1>2, <1>6, Sent DEF Types
<1>8. Types'
  BY <1>2, <1>7, WriteTypes DEF Types, ClientTypes, Stages
<1>9. toD' = <<m>> /\ fromD' = << >> /\ dmn' = Idle
  BY <1>2, <1>7, OneFacts DEF Wire, Quiet
<1>10. Called(f)'
  BY <1>1, <1>2, <1>5, <1>9 DEF Called
<1>11. Receiving'
  BY <1>1, <1>2, <1>10 DEF Receiving
<1>12. Wire'
  BY <1>2, <1>7, <1>11 DEF Wire, StatStages
<1> QED
  BY <1>2, <1>8, <1>12, CopyStepKept DEF RecvStages, Copying

(* What the steps of sync_recv know: f is the file, g chunks have arrived  *)
(* and make up o, the local file.                                          *)
Arrived(f, g, o) ==
  /\ f = Head(todo) /\ g \in Nat /\ o = (IF pc = "recv_first" THEN Empty ELSE dst[f])
  /\ o = File(o.data, 0) /\ IsSeq(o.data) /\ Prefix(o.data, Content[f]) /\ Len(o.data) = g
  /\ Called(f) \/ Served(f, g) \/ Ended(f, g)

(* The local file is what has arrived.                                     *)
LEMMA ArrivedFacts ==
  ASSUME Types, Control, Wire, link, pc \in {"recv_first", "recv_data"}
  PROVE  /\ todo # << >> /\ IsSeq(todo) /\ Head(todo) \in Files /\ Head(todo) \in Range(todo)
         /\ cmd \in {"pull", "pulldir"} /\ flag = {} /\ IsSeq(Content[Head(todo)])
         /\ \E g, o : Arrived(Head(todo), g, o)
<1>1. /\ Receiving /\ todo # << >> /\ IsSeq(todo) /\ Range(todo) \subseteq Files
      /\ cmd \in {"pull", "pulldir"} /\ flag = {}
  BY DEF Wire, Control, RecvStages, Types, ClientTypes, Pulls
<1>2. Head(todo) \in Range(todo)
  BY <1>1, Tailed
<1>3. PICK f : f = Head(todo)
  OBVIOUS
<1>4. f \in Files /\ IsSeq(Content[f])
  BY <1>1, <1>2, <1>3, ContentIsSeq
<1>5. CASE pc = "recv_first"
  <2>1. Empty = File(Empty.data, 0) /\ Empty.data = << >>
    BY SMT DEF Empty, File
  <2>2. Called(f) \/ Served(f, 0) \/ Ended(f, 0)
    BY <1>1, <1>3, <1>5 DEF Receiving
  <2>3. Arrived(f, 0, Empty)
    BY <1>3, <1>4, <1>5, <2>1, <2>2, ZeroOne, EmptyFacts, SuffixEnds DEF Arrived
  <2> QED BY <1>1, <1>2, <1>3, <1>4, <2>3
<1>6. CASE pc = "recv_data"
  <2>1. PICK g : g = Len(dst[f].data)
    OBVIOUS
  <2>2. /\ dst[f] = File(dst[f].data, 0) /\ IsSeq(dst[f].data) /\ Prefix(dst[f].data, Content[f])
        /\ Called(f) \/ Served(f, g) \/ Ended(f, g)
    BY <1>1, <1>3, <1>6, <2>1 DEF Receiving
  <2>3. Arrived(f, g, dst[f])
    BY <1>3, <1>6, <2>1, <2>2, SeqFacts DEF Arrived
  <2> QED BY <1>1, <1>2, <1>3, <1>4, <2>3
<1> QED
  BY <1>5, <1>6

(* The next reply is the next chunk, or the last one.                      *)
LEMMA NextArrival ==
  ASSUME NEW f \in Files, NEW g, NEW o, Arrived(f, g, o), fromD # << >>, IsSeq(fromD), IsSeq(dmn.rest)
  PROVE  /\ toD = << >> /\ dmn.does # "SEND" /\ Len(fromD) \in Nat \ {0}
         /\ \/ fromD[1] = Msg("DATA", f, Content[f][g + 1]) /\ g < Len(Content[f])
            \/ fromD[1] = Msg("DONE", f, None) /\ f \notin refused /\ g = Len(Content[f]) /\ Len(fromD) = 1 /\ dmn = Idle
            \/ fromD[1] = Msg("FAIL", f, None) /\ f \in refused /\ Len(fromD) = 1 /\ dmn = Idle
         /\ Len(fromD) = 1 => Served(f, g) \/ fromD[1].id # "DATA"
<1>1. Len(fromD) \in Nat \ {0} /\ Len(dmn.rest) \in Nat /\ Len(Content[f]) \in Nat /\ g \in Nat
  BY SeqFacts, ContentIsSeq, Tailed DEF Arrived
<1>2. CASE Served(f, g)
  <2>1. /\ Doing("RECV") /\ toD = << >> /\ g + Len(fromD) + Len(dmn.rest) = Len(Content[f])
        /\ Arriving(f, g, Len(fromD))
    BY <1>2 DEF Served
  <2>2. 1 \in 1 .. Len(fromD) /\ g < Len(Content[f])
    <3>1. \A a \in Nat \ {0}, b, c, d \in Nat : d + a + b = c => 1 \in 1 .. a /\ d < c
      BY SMT
    <3> QED BY <1>1, <2>1, <3>1
  <2>3. fromD[1] = Msg("DATA", f, Content[f][g + 1])
    BY <2>1, <2>2 DEF Arriving
  <2>4. dmn.does = "RECV"
    BY <2>1, DoingDoes
  <2> QED BY <1>1, <1>2, <2>1, <2>2, <2>3, <2>4
<1>3. CASE Ended(f, g)
  <2>1. /\ dmn = Idle /\ toD = << >> /\ Arriving(f, g, Len(fromD) - 1) /\ g + (Len(fromD) - 1) <= Len(Content[f])
        /\ \/ /\ fromD[Len(fromD)] = Msg("DONE", f, None) /\ f \notin refused
              /\ g + (Len(fromD) - 1) = Len(Content[f])
           \/ fromD[Len(fromD)] = Msg("FAIL", f, None) /\ f \in refused
    BY <1>3 DEF Ended
  <2>2. CASE Len(fromD) = 1
    <3>1. g + (1 - 1) = g
      BY <1>1, SMT
    <3>2. fromD[1].id # "DATA"
      <4>1. fromD[1] = Msg("DONE", f, None) \/ fromD[1] = Msg("FAIL", f, None)
        BY <2>1, <2>2
      <4> QED BY ONLY <4>1, SMT DEF Msg
    <3> QED BY <1>1, <2>1, <2>2, <3>1, <3>2, IdleFields
  <2>3. CASE Len(fromD) # 1
    <3>1. 1 \in 1 .. Len(fromD) - 1 /\ g < Len(Content[f])
      <4>1. \A a \in Nat \ {0}, c, d \in Nat : a # 1 /\ d + (a - 1) <= c => 1 \in 1 .. a - 1 /\ d < c
        BY SMT
      <4> QED BY <1>1, <2>1, <2>3, <4>1
    <3>2. fromD[1] = Msg("DATA", f, Content[f][g + 1])
      BY <2>1, <3>1 DEF Arriving
    <3> QED BY <1>1, <2>1, <2>3, <3>1, <3>2, IdleFields
  <2> QED BY <2>2, <2>3
<1> QED
  BY <1>2, <1>3 DEF Arrived, Called

(* A file that is being written has no time yet.                           *)
LEMMA CopyFacts ==
  ASSUME NEW f, NEW d, NEW x, IsSeq(d)
  PROVE  /\ IsCopy(f, File(d, 0)) /\ File(d, 0).data = d
         /\ Extend(File(d, 0), x) = File(Append(d, x), 0)
<1>1. File(d, 0).data = d /\ File(d, 0).time = 0 /\ Extend(File(d, 0), x) = File(Append(d, x), 0)
  BY SMT DEF File, Extend
<1> QED
  BY <1>1, ZeroOne DEF IsCopy

(* recv_reply keeps the invariant.                                         *)
LEMMA RecvReplyStep ==
  ASSUME IInv, recv_reply
  PROVE  IInv'
<1>1. /\ Types /\ Control /\ Wire /\ Progress /\ Read /\ pc \in {"recv_first", "recv_data"} /\ result = "none"
      /\ UNCHANGED <<cmd, runs, dmn, refused, left, flag, dirs, unread>> /\ link
  BY DEF recv_reply, IInv, Same, device, Control, Read
<1>2. /\ ConnTypes' /\ link' /\ toD' = toD /\ fromD # << >> /\ Reply = fromD[1]
      /\ Len(fromD) \in Nat \ {0} /\ Len(fromD') = Len(fromD) - 1
      /\ \A i \in 1 .. Len(fromD') : fromD'[i] = fromD[i + 1] /\ i + 1 \in 1 .. Len(fromD)
  BY <1>1, Taken DEF Types
<1>3. PICK f, g, o : f = Head(todo) /\ Arrived(f, g, o)
  BY <1>1, ArrivedFacts
<1>4. /\ todo # << >> /\ IsSeq(todo) /\ f \in Files /\ f \in Range(todo) /\ cmd \in {"pull", "pulldir"} /\ flag = {}
      /\ IsSeq(Content[f]) /\ IsSeq(fromD) /\ IsSeq(dmn.rest) /\ IsInjective(todo) /\ Range(todo) \subseteq Files
  BY <1>1, <1>3, ArrivedFacts DEF Types, ClientTypes, ConnTypes, DmnTypes, Control
<1>5. /\ toD = << >> /\ dmn.does # "SEND"
      /\ \/ fromD[1] = Msg("DATA", f, Content[f][g + 1]) /\ g < Len(Content[f])
         \/ fromD[1] = Msg("DONE", f, None) /\ f \notin refused /\ g = Len(Content[f]) /\ Len(fromD) = 1 /\ dmn = Idle
         \/ fromD[1] = Msg("FAIL", f, None) /\ f \in refused /\ Len(fromD) = 1 /\ dmn = Idle
      /\ Len(fromD) = 1 => Served(f, g) \/ fromD[1].id # "DATA"
  BY <1>2, <1>3, <1>4, NextArrival
<1>6. /\ g \in Nat /\ o = (IF pc = "recv_first" THEN Empty ELSE dst[f]) /\ o = File(o.data, 0)
      /\ IsSeq(o.data) /\ Prefix(o.data, Content[f]) /\ Len(o.data) = g
  BY <1>3 DEF Arrived
<1>7. IsCopy(f, o) /\ SkippedIsCurrent'
  BY <1>1, <1>4, <1>6, CopyFacts DEF SkippedIsCurrent
<1>8. ASSUME NEW v, v = None \/ IsCopy(f, v), dst' = [dst EXCEPT ![f] = v], IsSeq(todo'), Range(todo') \subseteq Files,
             pc' \in Stages, result' \in {"none", "error"}
      PROVE  Types' /\ dst'[f] = v /\ \A h \in Files \ {f} : dst'[h] = dst[h]
  <2>1. DstTypes' /\ dst'[f] = v /\ \A h \in Files \ {f} : dst'[h] = dst[h]
    BY <1>1, <1>4, <1>8, DstSet DEF Types
  <2>2. ClientTypes' /\ DmnTypes'
    BY <1>1, <1>4, <1>8, TypesKept DEF Types, ClientTypes, device
  <2> QED BY <1>2, <2>1, <2>2 DEF Types
<1>9. ASSUME NEW v, v = None \/ IsCopy(f, v), dst' = [dst EXCEPT ![f] = v], Return("error"), todo' = todo
      PROVE  IInv'
  <2>1. pc' = "end" /\ result' = "error"
    BY <1>9 DEF Return
  <2>2. Types'
    BY <1>4, <1>8, <1>9, <2>1 DEF Stages
  <2>3. Wire'
    BY <1>1, <1>2, <1>5, <2>1, EmptyFacts, ZeroOne DEF Wire, StatStages
  <2> QED BY <1>1, <1>4, <1>7, <1>9, <2>2, <2>3, EndsInError
<1>10. ASSUME NEW h \in Target, h # f, dst'[h] = dst[h] PROVE Copied(h)' <=> Copied(h)
  BY <1>1, <1>10 DEF Copied
<1>11. /\ \A h \in Target : h \in Range(todo) \/ Copied(h)
       /\ \A h \in refused \cap Range(todo) : h = f
       /\ Target \subseteq Files /\ Target' = Target
  <2>1. pc \in Copying /\ cmd \notin {"ls", "list"}
    BY <1>1, <1>4 DEF Copying, RecvStages
  <2> QED BY <1>1, <1>3, <1>4, <2>1, SourceTree DEF Progress, Target
<1>12. CASE Reply.id = "DATA" /\ dst' = [dst EXCEPT ![f] = Extend(o, Reply.x)] /\ Goto("recv_data") /\ todo' = todo
  <2>1. fromD[1] = Msg("DATA", f, Content[f][g + 1]) /\ g < Len(Content[f])
    <3>1. fromD[1] # Msg("DONE", f, None) /\ fromD[1] # Msg("FAIL", f, None)
      <4>1. fromD[1].id = "DATA"
        BY <1>2, <1>12
      <4> QED BY ONLY <4>1, SMT DEF Msg
    <3> QED BY <1>5, <3>1
  <2>2. PICK x : x = Content[f][g + 1] /\ Reply.x = x
    <3>1. fromD[1].x = Content[f][g + 1]
      BY ONLY <2>1, SMT DEF Msg
    <3> QED BY <1>2, <3>1
  <2>3. PICK v : v = File(Append(o.data, x), 0) /\ Extend(o, Reply.x) = v
    <3>1. Extend(File(o.data, 0), x) = File(Append(o.data, x), 0)
      BY <1>6, CopyFacts
    <3> QED BY <1>6, <2>2, <3>1
  <2>4. IsSeq(Append(o.data, x)) /\ Len(Append(o.data, x)) = g + 1
    BY <1>6, Appended
  <2>5. IsCopy(f, v) /\ v.data = Append(o.data, x)
    BY <2>3, <2>4, CopyFacts
  <2>6. Prefix(v.data, Content[f])
    BY <1>4, <1>6, <2>1, <2>2, <2>5, PrefixNext
  <2>7. pc' = "recv_data" /\ result' = "none" /\ todo' = todo /\ dst' = [dst EXCEPT ![f] = v]
    BY <1>1, <1>12, <2>3 DEF Goto
  <2>8. Types' /\ dst'[f] = v /\ \A h \in Files \ {f} : dst'[h] = dst[h]
    BY <1>4, <1>8, <2>5, <2>7 DEF Stages
  <2>9. Control'
    BY <1>1, <1>4, <2>7 DEF Control, StatStages, ListStages, SendStages, RecvStages, Copying
  <2>10. Served(f, g + 1)' \/ Ended(f, g + 1)'
    <3>1. Len(Content[f]) \in Nat /\ Len(dmn.rest) \in Nat
      BY <1>4, SeqFacts
    <3>2. ASSUME NEW k \in Nat, k <= Len(fromD), Arriving(f, g, k) PROVE Arriving(f, g + 1, k - 1)'
      <4> SUFFICES ASSUME NEW i \in 1 .. k - 1 PROVE fromD'[i] = Msg("DATA", f, Content[f][g + 1 + i])
        BY DEF Arriving
      <4>1. i \in 1 .. Len(fromD) - 1 /\ i + 1 \in 1 .. k /\ g + (i + 1) = g + 1 + i
        BY ONLY <1>2, <1>6, <3>2, i \in 1 .. k - 1, k \in Nat, SMT
      <4>2. fromD'[i] = fromD[i + 1]
        BY <1>2, <4>1
      <4>3. fromD[i + 1] = Msg("DATA", f, Content[f][g + (i + 1)])
        BY <3>2, <4>1 DEF Arriving
      <4> QED BY <4>1, <4>2, <4>3
    <3>3. CASE Served(f, g)
      <4>1. g + Len(fromD) + Len(dmn.rest) = Len(Content[f])
        BY <3>3 DEF Served
      <4>2. (g + 1) + (Len(fromD) - 1) + Len(dmn.rest) = Len(Content[f]) /\ Len(fromD) <= Len(fromD)
        BY ONLY <1>2, <1>6, <3>1, <4>1, SMT
      <4>3. Arriving(f, g + 1, Len(fromD))'
        <5>1. PICK k \in Nat : k = Len(fromD)
          BY <1>2
        <5>2. Arriving(f, g + 1, k - 1)'
          BY <3>2, <3>3, <4>2, <5>1 DEF Served
        <5> QED BY <1>2, <5>1, <5>2 DEF Arriving
      <4> QED BY <1>1, <1>2, <3>3, <4>2, <4>3 DEF Served, Doing
    <3>4. CASE ~Served(f, g) /\ Ended(f, g)
      <4>1. Len(fromD) # 1
        <5>1. fromD[1].id = "DATA"
          BY ONLY <2>1, SMT DEF Msg
        <5> QED BY <1>5, <3>4, <5>1
      <4>2. PICK k \in Nat : k = Len(fromD) - 1 /\ k # 0 /\ k <= Len(fromD)
        <5>1. Len(fromD) - 1 \in Nat /\ Len(fromD) - 1 # 0 /\ Len(fromD) - 1 <= Len(fromD)
          BY ONLY <1>2, <4>1, SMT
        <5> QED BY <5>1
      <4>3. Arriving(f, g + 1, k - 1)'
        BY <3>2, <3>4, <4>2 DEF Ended
      <4>4. Len(fromD') = k /\ k + 1 = Len(fromD) /\ k \in 1 .. k /\ (g + 1) + (k - 1) = g + (Len(fromD) - 1)
        <5>1. Len(fromD) - 1 = k
          BY <4>2
        <5>2. k + 1 = Len(fromD) /\ k \in 1 .. k /\ (g + 1) + (k - 1) = g + (Len(fromD) - 1)
          BY ONLY <1>2, <1>6, <4>2, k \in Nat, SMT
        <5> QED BY <1>2, <5>1, <5>2
      <4>5. fromD'[k] = fromD[Len(fromD)]
        BY <1>2, <4>4
      <4>6. fromD' # << >>
        BY <4>2, <4>4, EmptyFacts
      <4> QED BY <1>1, <1>2, <3>4, <4>3, <4>4, <4>5, <4>6 DEF Ended, Arriving
    <3> QED BY <1>2, <1>3, <3>3, <3>4 DEF Arrived, Called
  <2>11. Receiving'
    <3>1. Head(todo') = f /\ dst'[f] = File(dst'[f].data, 0) /\ IsSeq(dst'[f].data) /\ Prefix(dst'[f].data, Content[f])
          /\ Len(dst'[f].data) = g + 1
      BY <1>3, <2>3, <2>4, <2>5, <2>6, <2>7, <2>8
    <3> QED BY <2>7, <2>10, <3>1 DEF Receiving
  <2>12. Wire'
    BY <1>2, <2>7, <2>11 DEF Wire, StatStages
  <2>13. Progress'
    <3>1. \A h \in Target' : h \in Range(todo') \/ Copied(h)'
      BY <1>4, <1>10, <1>11, <2>7, <2>8
    <3> QED BY <1>1, <1>3, <1>11, <2>7, <3>1 DEF Progress
  <2>14. Discovery' /\ Success'
    BY <2>7 DEF Discovery, Success, StatStages, ListStages
  <2> QED BY <1>7, <2>8, <2>9, <2>12, <2>13, <2>14 DEF IInv
<1>13. CASE /\ Reply.id # "DATA" /\ dst' = [dst EXCEPT ![f] = IF Reply.id = "DONE" THEN o ELSE None]
            /\ Goto("next") /\ todo' = Tail(todo)
  <2>1. \/ fromD[1] = Msg("DONE", f, None) /\ f \notin refused /\ g = Len(Content[f]) /\ Len(fromD) = 1 /\ dmn = Idle
        \/ fromD[1] = Msg("FAIL", f, None) /\ f \in refused /\ Len(fromD) = 1 /\ dmn = Idle
    <3>1. fromD[1] # Msg("DATA", f, Content[f][g + 1])
      <4>1. fromD[1].id # "DATA"
        BY <1>2, <1>13
      <4> QED BY ONLY <4>1, SMT DEF Msg
    <3> QED BY <1>5, <3>1
  <2>2. PICK v : v = (IF Reply.id = "DONE" THEN o ELSE None)
    OBVIOUS
  <2>3. pc' = "next" /\ result' = "none" /\ todo' = Tail(todo) /\ dst' = [dst EXCEPT ![f] = v] /\ (v = None \/ v = o)
    BY <1>1, <1>13, <2>2 DEF Goto
  <2>4. IsSeq(todo') /\ Range(todo) = {f} \cup Range(todo') /\ IsInjective(todo') /\ f \notin Range(todo')
    BY <1>3, <1>4, <2>3, Tailed, TailDistinct
  <2>5. Types' /\ dst'[f] = v /\ \A h \in Files \ {f} : dst'[h] = dst[h]
    BY <1>4, <1>7, <1>8, <2>3, <2>4 DEF Stages
  <2>6. Control'
    BY <1>1, <1>4, <2>3, <2>4 DEF Control, StatStages, ListStages, SendStages, RecvStages, Copying
  <2>7. fromD' = << >> /\ dmn = Idle
    <3>1. Len(fromD') = 0
      <4>1. 1 - 1 = 0
        BY SMT
      <4> QED BY <1>2, <2>1, <4>1
    <3> QED BY <1>2, <2>1, <3>1, SeqFacts DEF ConnTypes
  <2>8. Wire'
    BY <1>1, <1>2, <1>5, <2>3, <2>7 DEF Wire, Quiet, StatStages
  <2>9. Copied(f)'
    <3>1. CASE fromD[1] = Msg("DONE", f, None) /\ f \notin refused /\ g = Len(Content[f])
      <4>0. fromD[1].id = "DONE"
        BY ONLY <3>1, SMT DEF Msg
      <4>1. v = o
        BY <1>2, <2>2, <4>0
      <4>2. o.data = Content[f]
        BY <1>4, <1>6, <3>1, PrefixEqual
      <4>3. o # None
        BY <1>4, <1>6, <4>2, SourceTree DEF File
      <4> QED BY <1>1, <1>4, <2>5, <3>1, <4>1, <4>2, <4>3 DEF Copied, Pulls
    <3>2. CASE fromD[1] = Msg("FAIL", f, None) /\ f \in refused
      <4>1. fromD[1].id = "FAIL"
        BY ONLY <3>2, SMT DEF Msg
      <4>2. v = None
        BY <1>2, <2>2, <4>1
      <4> QED BY <1>1, <1>4, <2>5, <3>2, <4>2 DEF Copied, Pulls
    <3> QED BY <2>1, <3>1, <3>2
  <2>10. Progress'
    <3>1. \A h \in Target' : h \in Range(todo') \/ Copied(h)'
      BY <1>10, <1>11, <2>4, <2>5, <2>9
    <3>2. refused' \cap Range(todo') = {}
      BY <1>1, <1>11, <2>4
    <3> QED BY <1>1, <2>3, <3>1, <3>2 DEF Progress
  <2>11. Discovery' /\ Success'
    BY <2>3 DEF Discovery, Success, StatStages, ListStages
  <2> QED BY <1>7, <2>5, <2>6, <2>8, <2>10, <2>11 DEF IInv
<1>14. CASE dst' = [dst EXCEPT ![f] = None] /\ Return("error") /\ todo' = todo
  BY <1>9, <1>14
<1>15. CASE dst' = [dst EXCEPT ![f] = o] /\ Return("error") /\ todo' = todo
  BY <1>7, <1>9, <1>15
<1> QED
  BY <1>3, <1>6, <1>12, <1>13, <1>14, <1>15 DEF recv_reply

---------------------------------------------------------------------------
(* sync_ls.                                                                *)

(* list_write keeps the invariant.                                         *)
LEMMA ListWriteStep ==
  ASSUME IInv, list_write
  PROVE  IInv'
<1>1. PICK d, m : d = Head(dirs) /\ m = Msg("LIST", d, None)
  OBVIOUS
<1>2. /\ Types /\ Control /\ Wire /\ Discovery /\ Progress /\ Write(m) /\ pc = "list_write" /\ pc' = "list_read"
      /\ dirs' = Tail(dirs) /\ link /\ result = "none"
      /\ UNCHANGED <<cmd, runs, dmn, refused, todo, left, flag, unread, dst, result>> /\ SkippedIsCurrent'
  BY <1>1, SkippedKept DEF list_write, IInv, Same, device, Goto, Write, Control
<1>3. /\ dirs # << >> /\ IsSeq(dirs) /\ Range(dirs) \subseteq Dirs /\ cmd \in {"pulldir", "ls"} /\ Quiet
  BY <1>2 DEF Control, ListStages, Types, ClientTypes, Wire
<1>4. d \in Dirs /\ IsSeq(dirs') /\ Range(dirs) = {d} \cup Range(dirs')
  BY <1>1, <1>2, <1>3, Tailed
<1>5. IsRequest(m) /\ m.id = "LIST" /\ m.file = d
  BY <1>1, <1>4, SMT DEF IsRequest, Msg
<1>6. ConnTypes' /\ link' /\ fromD' = fromD /\ toD' = Append(toD, m)
  BY <1>2, <1>5, Sent DEF Types
<1>7. Types'
  <2>1. Range(dirs') \subseteq Dirs
    BY <1>3, <1>4
  <2> QED BY <1>2, <1>4, <1>6, <2>1, WriteTypes DEF Types, ClientTypes, Stages
<1>8. Control'
  BY <1>2, <1>3 DEF Control, StatStages, ListStages, SendStages, RecvStages, Copying
<1>9. toD' = <<m>> /\ fromD' = << >> /\ dmn' = Idle
  BY <1>2, <1>3, <1>6, OneFacts DEF Quiet
<1>10. Wire'
  <2>1. Listing'
    BY <1>1, <1>4, <1>9 DEF Listing
  <2> QED BY <1>2, <1>6, <2>1 DEF Wire, StatStages
<1>11. ASSUME cmd = "pulldir" PROVE Finding'
  <2>1. Finding /\ NoList /\ Pending = Range(todo) \cup Range(dirs)
    BY <1>2, <1>3, <1>11, QuietFacts DEF Discovery, ListStages
  <2>2. Dent' = {} /\ Rest' = << >> /\ ToList' = {d}
    <3>1. Len(fromD') = 0 /\ Len(toD') = 1 /\ toD'[1] = m /\ dmn'.does = "idle"
      BY <1>9, OneFacts, EmptyFacts, IdleFields
    <3> QED BY <1>5, <3>1, ZeroOne DEF Dent, Rest, ToList
  <2>3. Coming' = {} /\ Pending' = Pending
    BY <1>2, <1>4, <2>1, <2>2, EmptyFacts DEF Coming, Pending
  <2>4. IsInjective(dirs') /\ d \notin Range(dirs')
    BY <1>1, <1>2, <1>3, <2>1, TailDistinct DEF Finding
  <2> QED BY <2>1, <2>2, <2>3, <2>4, EmptyFacts DEF Finding
<1>12. Discovery'
  BY <1>2, <1>11 DEF Discovery
<1>13. Progress' /\ Success'
  BY <1>2 DEF Progress, Success, StatStages, Copying, SendStages, RecvStages
<1> QED
  BY <1>2, <1>7, <1>8, <1>10, <1>12, <1>13 DEF IInv

(* An entry is read: it is on a list now, and no longer on its way.        *)
LEMMA EntryTaken ==
  ASSUME Finding, NEW x \in Nodes, fromD[1].id = "DENT", x = fromD[1].file, 1 \in 1 .. Len(fromD),
         Len(fromD) \in Nat \ {0}, Len(fromD') = Len(fromD) - 1,
         \A i \in 1 .. Len(fromD') : fromD'[i] = fromD[i + 1] /\ i + 1 \in 1 .. Len(fromD),
         UNCHANGED <<dmn, toD>>, ToList = {}, IsSeq(todo), IsSeq(dirs), IsInjective(todo),
         sync_ls_build_list_cb(x)
  PROVE  /\ Finding' /\ IsSeq(todo') /\ IsSeq(dirs') /\ IsInjective(todo')
         /\ Range(todo') \subseteq Range(todo) \cup (Files \cap {x})
         /\ Range(dirs') \subseteq Range(dirs) \cup (Dirs \cap {x})
<1>1. 1 \in Dent
  BY DEF Dent
<1>2. ASSUME NEW i \in Dent' PROVE i \in 1 .. Len(fromD') /\ i + 1 \in Dent /\ fromD'[i] = fromD[i + 1] /\ i + 1 # 1
  <2>1. i \in 1 .. Len(fromD') /\ fromD'[i].id = "DENT"
    BY DEF Dent
  <2>2. i + 1 # 1
    <3>1. i \in 1 .. Len(fromD) - 1
      BY <2>1
    <3> QED BY ONLY <3>1, Len(fromD) \in Nat \ {0}, SMT
  <2> QED BY <2>1, <2>2 DEF Dent
<1>3. ASSUME NEW i \in Dent, i # 1 PROVE \E j \in Dent' : i = j + 1 /\ fromD'[j] = fromD[i]
  <2>1. i \in 1 .. Len(fromD)
    BY DEF Dent
  <2>2. PICK j : j = i - 1
    OBVIOUS
  <2>3. j \in 1 .. Len(fromD) - 1 /\ j + 1 = i
    BY ONLY <1>3, <2>1, <2>2, Len(fromD) \in Nat \ {0}, SMT
  <2>4. fromD'[j] = fromD[i] /\ j \in 1 .. Len(fromD')
    BY <2>3
  <2> QED BY <2>3, <2>4 DEF Dent
<1>4. Rest' = Rest /\ ToList' = {}
  BY DEF Rest, ToList
<1> DEFINE F == {fromD[i].file : i \in Dent}
<1>5. F = {x} \cup F'
  <2>1. ASSUME NEW y \in F PROVE y = x \/ y \in F'
    <3>1. PICK i \in Dent : y = fromD[i].file
      OBVIOUS
    <3>2. CASE i = 1
      BY <3>1, <3>2
    <3>3. CASE i # 1
      <4>1. PICK j \in Dent' : i = j + 1 /\ fromD'[j] = fromD[i]
        BY <1>3, <3>3
      <4> QED BY <3>1, <4>1
    <3> QED BY <3>2, <3>3
  <2>2. ASSUME NEW y \in F' PROVE y \in F
    <3>1. PICK i \in Dent' : y = fromD'[i].file
      OBVIOUS
    <3> QED BY <1>2, <3>1
  <2>3. x \in F
    BY <1>1
  <2> QED BY <2>1, <2>2, <2>3
<1>6. x \notin F'
  <2>1. ASSUME NEW i \in Dent', fromD'[i].file = x PROVE FALSE
    <3>1. i + 1 \in Dent /\ fromD[i + 1].file = fromD[1].file /\ i + 1 # 1
      BY <1>2, <2>1
    <3> QED BY <1>1, <3>1 DEF Finding
  <2> QED BY <2>1
<1>7. Coming = F \cup Range(Rest) /\ Coming' = F' \cup Range(Rest)
  BY <1>4 DEF Coming
<1> HIDE DEF F
<1>8. x \notin Range(Rest) /\ x \notin Coming' /\ Coming = {x} \cup Coming'
  <2>1. x \notin Range(Rest)
    BY <1>1 DEF Finding
  <2> QED BY <1>5, <1>6, <1>7, <2>1
<1>9. x \notin Range(todo) /\ x \notin Range(dirs)
  BY <1>8 DEF Finding
<1>10. /\ IsSeq(todo') /\ IsInjective(todo') /\ IsSeq(dirs') /\ IsInjective(dirs')
       /\ Range(todo') \subseteq Range(todo) \cup (Files \cap {x})
       /\ Range(dirs') \subseteq Range(dirs) \cup (Dirs \cap {x})
       /\ Range(todo') \cup Range(dirs') = Range(todo) \cup Range(dirs) \cup {x}
  <2>0. IsInjective(dirs)
    BY DEF Finding
  <2>1. CASE x \in Files
    <3>1. todo' = <<x>> \o todo /\ dirs' = dirs
      BY <2>1 DEF sync_ls_build_list_cb, Dirs
    <3>2. IsSeq(todo') /\ IsInjective(todo') /\ Range(todo') = {x} \cup Range(todo)
      BY <1>9, <3>1, Pushed
    <3> QED BY <2>0, <2>1, <3>1, <3>2
  <2>2. CASE x \notin Files
    <3>0. x \in Dirs
      BY <2>2 DEF Dirs, Nodes
    <3>1. dirs' = <<x>> \o dirs /\ todo' = todo
      BY <2>2, <3>0 DEF sync_ls_build_list_cb
    <3>2. IsSeq(dirs') /\ IsInjective(dirs') /\ Range(dirs') = {x} \cup Range(dirs)
      BY <1>9, <2>0, <3>1, Pushed
    <3> QED BY <3>0, <3>1, <3>2
  <2> QED BY <2>1, <2>2
<1>11. Pending' = Pending
  BY <1>4, <1>8, <1>10 DEF Pending
<1>12. Finding'
  <2>1. \A S \in SUBSET Nodes : Pending' \subseteq S /\ Closed(S) => Files \subseteq S
    BY <1>11 DEF Finding
  <2>2. \A d \in Pending' \cap Dirs : Below(d) \cap Pending' = {}
    BY <1>11 DEF Finding
  <2>3. \A i, j \in Dent' : fromD'[i].file = fromD'[j].file => i = j
    <3> SUFFICES ASSUME NEW i \in Dent', NEW j \in Dent', fromD'[i].file = fromD'[j].file PROVE i = j
      OBVIOUS
    <3>0. i + 1 \in Dent /\ j + 1 \in Dent /\ fromD[i + 1].file = fromD[j + 1].file
      BY <1>2
    <3>1. i + 1 = j + 1
      BY <3>0 DEF Finding
    <3>2. i \in 1 .. Len(fromD) - 1 /\ j \in 1 .. Len(fromD) - 1
      BY <1>2
    <3> QED BY ONLY <3>1, <3>2, Len(fromD) \in Nat \ {0}, SMT
  <2>4. \A i \in Dent' : fromD'[i].file \notin Range(Rest')
    BY <1>2, <1>4 DEF Finding
  <2>5. Coming' \cap (Range(todo') \cup Range(dirs')) = {}
    <3>1. Coming \cap (Range(todo) \cup Range(dirs)) = {}
      BY DEF Finding
    <3> QED BY ONLY <1>8, <1>10, <3>1
  <2>6. IsInjective(Rest')
    BY <1>4 DEF Finding
  <2> QED BY <1>4, <1>10, <2>1, <2>2, <2>3, <2>4, <2>5, <2>6 DEF Finding
<1> QED
  BY <1>10, <1>12

(* list_read keeps the invariant.                                          *)
LEMMA ListReadStep ==
  ASSUME IInv, list_read
  PROVE  IInv'
<1>9. /\ Types /\ Control /\ Wire /\ Discovery /\ Progress /\ Read /\ pc = "list_read" /\ result = "none"
      /\ UNCHANGED <<cmd, runs, dmn, refused, left, flag, unread, dst>> /\ link /\ SkippedIsCurrent'
  BY SkippedKept DEF list_read, IInv, Same, device, Control, Read
<1>2. /\ ConnTypes' /\ link' /\ toD' = toD /\ fromD # << >> /\ Reply = fromD[1] /\ 1 \in 1 .. Len(fromD)
      /\ Len(fromD) \in Nat \ {0} /\ Len(fromD') = Len(fromD) - 1
      /\ \A i \in 1 .. Len(fromD') : fromD'[i] = fromD[i + 1] /\ i + 1 \in 1 .. Len(fromD)
  BY <1>9, Taken DEF Types
<1>3. /\ cmd \in {"pulldir", "ls"} /\ toD = << >> /\ IsSeq(todo) /\ IsSeq(dirs) /\ IsInjective(todo)
      /\ Range(todo) \subseteq Files /\ Range(dirs) \subseteq Dirs
      /\ \/ Doing("LIST") /\ Range(dmn.rest) \subseteq Nodes /\ Dents(Len(fromD))
         \/ dmn = Idle /\ Dents(Len(fromD) - 1) /\ fromD[Len(fromD)].id = "DONE"
  BY <1>9, <1>2 DEF Control, ListStages, Wire, Listing, Types, ClientTypes
<1>10. Reply.id \in {"DENT", "DONE"}
  <2>1. fromD[1] = Msg("DENT", fromD[1].file, None) => fromD[1].id = "DENT"
    BY ONLY SMT DEF Msg
  <2>2. CASE Dents(Len(fromD))
    BY <1>2, <2>1, <2>2 DEF Dents
  <2>3. CASE Dents(Len(fromD) - 1) /\ fromD[Len(fromD)].id = "DONE" /\ Len(fromD) # 1
    <3>1. 1 \in 1 .. Len(fromD) - 1
      BY ONLY <1>2, <2>3, SMT
    <3> QED BY <1>2, <2>1, <2>3, <3>1 DEF Dents
  <2> QED BY <1>2, <1>3, <2>2, <2>3
<1>1. /\ Types /\ Control /\ Wire /\ Discovery /\ Progress /\ Read /\ pc = "list_read" /\ result = "none"
      /\ UNCHANGED <<cmd, runs, dmn, refused, left, flag, unread, dst, result>> /\ link /\ SkippedIsCurrent'
  BY <1>9, <1>10 DEF list_read, Goto
<1>4. ToList = {}
  BY <1>3, EmptyFacts, ZeroOne DEF ToList
<1>5. cmd = "pulldir" => Finding
  BY <1>1 DEF Discovery, ListStages
<1>6. ASSUME NEW k \in Nat, k <= Len(fromD), Dents(k) PROVE Dents(k - 1)'
  <2> SUFFICES ASSUME NEW i \in 1 .. k - 1
               PROVE  fromD'[i] = Msg("DENT", fromD'[i].file, None) /\ fromD'[i].file \in Nodes
    BY DEF Dents
  <2>1. i \in 1 .. Len(fromD) - 1 /\ i + 1 \in 1 .. k
    BY ONLY <1>2, <1>6, i \in 1 .. k - 1, k \in Nat, SMT
  <2>2. fromD'[i] = fromD[i + 1]
    BY <1>2, <2>1
  <2> QED BY <1>6, <2>1, <2>2 DEF Dents
<1>7. CASE Reply.id = "DENT"
  <2>1. pc' = "list_read"
    BY <1>7 DEF list_read, Goto
  <2>2. PICK x : x = Reply.file
    OBVIOUS
  <2>3. Len(fromD) = 1 => Doing("LIST")
    BY <1>2, <1>3, <1>7
  <2>4. x \in Nodes
    <3>1. CASE Dents(Len(fromD))
      BY <1>2, <2>2, <3>1 DEF Dents
    <3>2. CASE ~Dents(Len(fromD))
      <4>1. Len(fromD) # 1 /\ Dents(Len(fromD) - 1)
        BY <1>2, <1>3, <1>7, <3>2
      <4>2. 1 \in 1 .. Len(fromD) - 1
        BY ONLY <1>2, <4>1, SMT
      <4> QED BY <1>2, <2>2, <4>1, <4>2 DEF Dents
    <3> QED BY <3>1, <3>2
  <2>5. /\ IsSeq(todo') /\ IsSeq(dirs') /\ IsInjective(todo') /\ Range(todo') \subseteq Files
        /\ Range(dirs') \subseteq Dirs /\ (cmd = "ls" => todo' = todo)
        /\ cmd = "pulldir" => Finding'
    <3>1. CASE cmd = "pulldir"
      <4>1. sync_ls_build_list_cb(x)
        BY <1>7, <2>2, <3>1 DEF list_read
      <4>2. /\ Finding' /\ IsSeq(todo') /\ IsSeq(dirs') /\ IsInjective(todo')
            /\ Range(todo') \subseteq Range(todo) \cup (Files \cap {x})
            /\ Range(dirs') \subseteq Range(dirs) \cup (Dirs \cap {x})
        BY <1>1, <1>2, <1>3, <1>4, <1>5, <1>7, <2>2, <2>4, <3>1, <4>1, EntryTaken
      <4> QED BY <1>3, <3>1, <4>2
    <3>2. CASE cmd # "pulldir"
      <4>1. UNCHANGED <<dirs, todo>>
        BY <3>2 DEF list_read
      <4> QED BY <1>3, <3>2, <4>1
    <3> QED BY <3>1, <3>2
  <2>6. Types'
    BY <1>1, <1>2, <2>1, <2>5, WriteTypes DEF Types, ClientTypes, Stages
  <2>7. Control'
    BY <1>1, <1>3, <2>1, <2>5 DEF Control, StatStages, ListStages, SendStages, RecvStages, Copying
  <2>8. Listing'
    <3>1. CASE Doing("LIST") /\ Range(dmn.rest) \subseteq Nodes /\ Dents(Len(fromD))
      <4>1. PICK k \in Nat : k = Len(fromD) /\ k <= Len(fromD)
        <5>1. Len(fromD) <= Len(fromD)
          BY <1>2, SMT
        <5> QED BY <1>2, <5>1
      <4>2. Dents(k - 1)'
        BY <1>6, <3>1, <4>1
      <4>3. Dents(Len(fromD))'
        BY <1>2, <4>1, <4>2 DEF Dents
      <4> QED BY <1>1, <1>2, <1>3, <3>1, <4>3 DEF Listing, Doing
    <3>2. CASE dmn = Idle /\ Dents(Len(fromD) - 1) /\ fromD[Len(fromD)].id = "DONE"
      <4>1. Len(fromD) # 1
        BY <1>2, <1>7, <3>2
      <4>2. PICK k \in Nat : k = Len(fromD) - 1 /\ k # 0 /\ k <= Len(fromD) /\ k + 1 = Len(fromD) /\ k \in 1 .. k
        <5>1. PICK k : k = Len(fromD) - 1
          OBVIOUS
        <5>2. k \in Nat /\ k # 0 /\ k <= Len(fromD) /\ k + 1 = Len(fromD) /\ k \in 1 .. k
          BY ONLY <1>2, <4>1, <5>1, SMT
        <5> QED BY <5>1, <5>2
      <4>3. Dents(k - 1)'
        BY <1>6, <3>2, <4>2
      <4>4. Len(fromD') = k /\ fromD'[k] = fromD[Len(fromD)]
        BY <1>2, <4>2
      <4>5. fromD' # << >>
        BY <4>2, <4>4, EmptyFacts
      <4> QED BY <1>1, <1>2, <1>3, <3>2, <4>3, <4>4, <4>5 DEF Listing, Dents
    <3> QED BY <1>3, <3>1, <3>2
  <2>9. Wire'
    BY <1>2, <2>1, <2>8 DEF Wire, StatStages
  <2>10. Discovery' /\ Progress' /\ Success'
    BY <1>1, <2>1, <2>5 DEF Discovery, Progress, Success, StatStages, Copying, SendStages, RecvStages
  <2> QED BY <1>1, <2>6, <2>7, <2>9, <2>10 DEF IInv
<1>8. CASE Reply.id # "DENT"
  <2>1. pc' = (IF dirs # << >> THEN "list_write" ELSE "next") /\ UNCHANGED <<dirs, todo>>
    BY <1>8, <1>10 DEF list_read, Goto
  <2>2. Types'
    BY <1>1, <1>2, <1>3, <2>1, WriteTypes DEF Types, ClientTypes, Stages
  <2>3. Control'
    BY <1>1, <1>3, <2>1 DEF Control, StatStages, ListStages, SendStages, RecvStages, Copying
  <2>4. ~Dents(Len(fromD)) /\ (Dents(Len(fromD) - 1) => Len(fromD) = 1)
    <3>1. fromD[1] # Msg("DENT", fromD[1].file, None)
      <4>1. fromD[1].id # "DENT"
        BY <1>2, <1>8
      <4> QED BY ONLY <4>1, SMT DEF Msg
    <3>2. Len(fromD) # 1 => 1 \in 1 .. Len(fromD) - 1
      BY ONLY <1>2, SMT
    <3> QED BY <1>2, <3>1, <3>2 DEF Dents
  <2>5. dmn = Idle /\ Len(fromD) = 1
    BY <1>3, <2>4
  <2>6. fromD' = << >>
    <3>1. Len(fromD') = 0
      <4>1. 1 - 1 = 0
        BY SMT
      <4> QED BY <1>2, <2>5, <4>1
    <3> QED BY <1>2, <3>1, SeqFacts DEF ConnTypes
  <2>7. Quiet'
    BY <1>1, <1>2, <1>3, <2>5, <2>6 DEF Quiet
  <2>8. pc' \in {"list_write", "next"} /\ Wire'
    BY <2>1, <2>7 DEF Wire, StatStages
  <2>9. NoList /\ NoList'
    <3>1. \A i \in 1 .. Len(fromD) : fromD[i].id # "DENT"
      BY <1>2, <1>8, <2>5, ZeroOne
    <3>2. Len(fromD') = 0 /\ Len(toD') = 0 /\ dmn'.does = "idle" /\ Len(toD) = 0 /\ dmn.does = "idle"
      BY <1>3, <2>5, <2>7, EmptyFacts, IdleFields DEF Quiet
    <3> QED BY <3>1, <3>2, ZeroOne, NoListFacts, NoListNext
  <2>10. Discovery'
    BY <1>1, <1>5, <2>1, <2>9, FindingKept DEF Discovery
  <2>11. Success'
    BY <1>1 DEF Success
  <2>12. Progress'
    <3>1. pc' = "next" /\ cmd = "pulldir" => Files \subseteq Range(todo)
      BY <1>1, <1>5, <2>1, <2>9, AllFound
    <3>2. refused' = {} /\ cmd \in Pulls
      BY <1>1, <1>3 DEF Control, Copying, SendStages, RecvStages, Pulls
    <3> QED BY <1>1, <1>3, <2>1, <2>8, <3>1, <3>2 DEF Progress, Target, OneFile, StatStages, Copying, SendStages, RecvStages
  <2> QED BY <1>1, <2>2, <2>3, <2>8, <2>10, <2>11, <2>12 DEF IInv
<1> QED
  BY <1>7, <1>8

(* sync_quit keeps the invariant: every file on the list has been copied.  *)
LEMMA SyncQuitStep ==
  ASSUME IInv, sync_quit
  PROVE  IInv'
<1>1. PICK m : m = Msg("QUIT", None, None)
  OBVIOUS
<1>2. /\ Types /\ Control /\ Wire /\ Progress /\ Write(m) /\ pc = "quit" /\ pc' = "end" /\ result' = "success"
      /\ UNCHANGED <<cmd, runs, dmn, refused, todo, left, flag, dirs, unread, dst>> /\ SkippedIsCurrent'
  BY <1>1, SkippedKept DEF sync_quit, IInv, Same, device, Return
<1>3. IsRequest(m) /\ m.id = "QUIT"
  BY <1>1, SMT DEF IsRequest, Msg
<1>4. ConnTypes' /\ link /\ link' /\ fromD' = fromD /\ toD' = Append(toD, m)
  BY <1>2, <1>3, Sent DEF Types
<1>5. Types'
  BY <1>2, <1>4, WriteTypes DEF Types, ClientTypes, Stages
<1>6. Control'
  BY <1>2 DEF Control, StatStages, ListStages, SendStages, RecvStages, Copying
<1>7. dmn' = Idle /\ dmn'.does = "idle" /\ \A i \in 1 .. Len(toD') : toD'[i].id = "QUIT"
  <2>1. toD' = <<m>> /\ dmn' = Idle
    BY <1>2, <1>4, OneFacts DEF Wire, Quiet
  <2>2. Len(toD') = 1 /\ toD'[1] = m
    BY ONLY <2>1, OneFacts
  <2>3. \A i \in 1 .. Len(toD') : toD'[i].id = "QUIT"
    BY ONLY <1>3, <2>2, ZeroOne
  <2> QED BY <2>1, <2>3, IdleFields
<1>8. Wire'
  BY <1>2, <1>4, <1>7 DEF Wire, StatStages
<1>9. Discovery' /\ Progress'
  BY <1>2 DEF Discovery, Progress, StatStages, ListStages, Copying, SendStages, RecvStages
<1>10. Success'
  <2>1. cmd \notin {"ls", "list"} => \A f \in Target : Copied(f)
    BY <1>2, EmptyFacts DEF Progress, Copying
  <2> QED BY <1>2, <1>7, <2>1 DEF Success, Target, Copied
<1> QED
  BY <1>2, <1>5, <1>6, <1>8, <1>9, <1>10 DEF IInv

---------------------------------------------------------------------------
(* The service.                                                            *)

(* What the client is doing while the connection is up.                    *)
LEMMA Phases ==
  ASSUME IInv, link
  PROVE  \/ pc \in {"start", "next", "send_req", "recv_req", "list_write", "quit"} /\ Quiet
         \/ pc \in StatStages /\ Asking
         \/ pc \in {"send_data", "send_done", "send_status"} /\ Sending
         \/ pc \in {"recv_first", "recv_data"} /\ Receiving
         \/ pc = "list_read" /\ Listing
         \/ pc = "end" /\ dmn.does # "SEND" /\ \A i \in 1 .. Len(toD) : toD[i].id # "SEND"
<1>1. pc \in Stages /\ Wire
  BY DEF IInv, Types, ClientTypes
<1> QED
  BY <1>1 DEF Wire, Stages, StatStages

(* The file that is sent, how many chunks of it, and whether ID_DONE was.  *)
SendsOf(f, n, done) ==
  /\ f = Head(todo) /\ n = Len(Content[f]) - Len(left) /\ n \in Nat /\ f \in Files /\ f \in Range(todo) /\ f \notin flag
  /\ done = (IF pc = "send_status" THEN 1 ELSE 0)

(* The file that is received, and how many chunks have arrived.            *)
GetsOf(f, g) ==
  /\ f = Head(todo) /\ f \in Files /\ f \in Range(todo) /\ g \in Nat
  /\ g = (IF pc = "recv_first" THEN 0 ELSE Len(dst[f].data))

(* The service at rest takes a request: what it can be, and when.          *)
LEMMA RequestPhase ==
  ASSUME IInv, link, dmn = Idle, toD # << >>
  PROVE  /\ toD[1].id = "STAT" => pc = "end" \/ (pc \in StatStages /\ Asking)
         /\ toD[1].id = "LIST" =>
              \/ pc = "end"
              \/ pc = "list_read" /\ fromD = << >> /\ \E d \in Dirs : toD = << Msg("LIST", d, None) >>
         /\ toD[1].id = "RECV" => pc = "end" \/ (pc = "recv_first" /\ Receiving /\ Called(Head(todo)))
         /\ toD[1].id = "SEND" =>
              /\ pc \in {"send_data", "send_done", "send_status"} /\ Sending
              /\ \E f, n, done : SendsOf(f, n, done) /\ Offered(f, n, done)
<1>1. Types /\ Control /\ Wire /\ IsSeq(toD)
  BY DEF IInv, Types, ConnTypes
<1>2. 1 \in 1 .. Len(toD)
  BY <1>1, Tailed, SeqFacts
<1>3. Idle.does = "idle" /\ ~Doing("SEND") /\ ~Doing("skip") /\ ~Doing("RECV") /\ ~Doing("LIST")
  BY IdleFields, DoingDoes
<1>4. CASE Quiet
  BY <1>4 DEF Quiet
<1>5. CASE pc \in StatStages /\ Asking
  <2>1. toD[1].id = "STAT"
    BY <1>1, <1>2, <1>5, AskingFacts
  <2> QED BY <1>5, <2>1
<1>6. CASE pc \in {"send_data", "send_done", "send_status"} /\ Sending
  <2>1. PICK f, n, done : SendsOf(f, n, done)
    BY <1>1, <1>6, SendingFacts DEF SendsOf
  <2>2. Offered(f, n, done) \/ Storing(f, n, done) \/ Skipping(f, done) \/ Answered(f, n, done)
    BY <1>6, <2>1 DEF Sending, SendsOf
  <2>3. Offered(f, n, done)
    BY <1>3, <2>2 DEF Storing, Skipping, Answered
  <2>4. toD[1] = Msg("SEND", f, None)
    BY <2>3 DEF Offered
  <2>5. toD[1].id = "SEND"
    BY ONLY <2>4, SMT DEF Msg
  <2> QED BY <1>6, <2>1, <2>3, <2>5
<1>7. CASE pc \in {"recv_first", "recv_data"} /\ Receiving
  <2>1. Called(Head(todo))
    BY <1>3, <1>7 DEF Receiving, Served, Ended
  <2>2. toD = << Msg("RECV", Head(todo), None) >> /\ pc = "recv_first"
    BY <2>1 DEF Called
  <2>3. toD[1].id = "RECV"
    BY ONLY <2>2, SMT DEF Msg
  <2> QED BY <1>7, <2>1, <2>2, <2>3
<1>8. CASE pc = "list_read" /\ Listing
  <2>1. PICK d \in Dirs : fromD = << >> /\ toD = << Msg("LIST", d, None) >>
    BY <1>3, <1>8 DEF Listing
  <2>2. toD[1].id = "LIST"
    BY ONLY <2>1, SMT DEF Msg
  <2> QED BY <1>8, <2>1, <2>2
<1>9. CASE pc = "end" /\ dmn.does # "SEND" /\ \A i \in 1 .. Len(toD) : toD[i].id # "SEND"
  <2>1. pc = "end" /\ toD[1].id # "SEND"
    BY <1>2, <1>9
  <2> QED BY ONLY <2>1
<1> QED
  BY <1>4, <1>5, <1>6, <1>7, <1>8, <1>9, Phases

(* The service at work: for whom.                                          *)
LEMMA WorkPhase ==
  ASSUME IInv, link
  PROVE  /\ dmn.does = "LIST" =>
              \/ pc = "end"
              \/ pc = "list_read" /\ toD = << >> /\ Range(dmn.rest) \subseteq Nodes /\ Dents(Len(fromD))
         /\ dmn.does = "RECV" =>
              \/ pc = "end"
              \/ /\ pc \in {"recv_first", "recv_data"} /\ Receiving
                 /\ \E f, g : GetsOf(f, g) /\ Served(f, g)
         /\ dmn.does = "SEND" =>
              /\ pc \in {"send_data", "send_done", "send_status"} /\ Sending
              /\ \E f, n, done : SendsOf(f, n, done) /\ Storing(f, n, done)
         /\ dmn.does = "skip" =>
              \/ pc = "end"
              \/ /\ pc \in {"send_data", "send_done", "send_status"} /\ Sending
                 /\ \E f, n, done : SendsOf(f, n, done) /\ Skipping(f, done)
<1>1. Types /\ Control /\ Wire
  BY DEF IInv
<1>2. /\ dmn = Idle => dmn.does = "idle"
      /\ Doing("SEND") => dmn.does = "SEND"
      /\ Doing("skip") => dmn.does = "skip"
      /\ Doing("RECV") => dmn.does = "RECV"
      /\ Doing("LIST") => dmn.does = "LIST"
  BY IdleFields, DoingDoes
<1>3. CASE Quiet \/ Asking
  BY <1>2, <1>3 DEF Quiet, Asking
<1>4. CASE pc \in {"send_data", "send_done", "send_status"} /\ Sending
  <2>1. PICK f, n, done : SendsOf(f, n, done)
    BY <1>1, <1>4, SendingFacts DEF SendsOf
  <2>2. Offered(f, n, done) \/ Storing(f, n, done) \/ Skipping(f, done) \/ Answered(f, n, done)
    BY <1>4, <2>1 DEF Sending, SendsOf
  <2>3. CASE Offered(f, n, done) \/ Answered(f, n, done)
    BY <1>2, <2>3 DEF Offered, Answered
  <2>4. CASE Storing(f, n, done)
    <3>1. dmn.does = "SEND"
      BY <1>2, <2>4 DEF Storing
    <3> QED BY <1>4, <2>1, <2>4, <3>1
  <2>5. CASE Skipping(f, done)
    <3>1. dmn.does = "skip"
      BY <1>2, <2>5 DEF Skipping
    <3> QED BY <1>4, <2>1, <2>5, <3>1
  <2> QED BY <2>2, <2>3, <2>4, <2>5
<1>5. CASE pc \in {"recv_first", "recv_data"} /\ Receiving
  <2>1. PICK f, g : GetsOf(f, g)
    <3>1. PICK f, h, o : f = Head(todo) /\ Arrived(f, h, o) /\ f \in Files /\ f \in Range(todo)
      BY <1>1, <1>5, ArrivedFacts
    <3>2. (IF pc = "recv_first" THEN 0 ELSE Len(dst[f].data)) \in Nat
      BY <3>1, ZeroOne DEF Arrived
    <3> QED BY <3>1, <3>2 DEF GetsOf
  <2>2. Called(f) \/ Served(f, g) \/ Ended(f, g)
    BY <1>5, <2>1 DEF Receiving, GetsOf
  <2>3. CASE Called(f) \/ Ended(f, g)
    BY <1>2, <2>3 DEF Called, Ended
  <2>4. CASE Served(f, g)
    <3>1. dmn.does = "RECV"
      BY <1>2, <2>4 DEF Served
    <3> QED BY <1>5, <2>1, <2>4, <3>1
  <2> QED BY <2>2, <2>3, <2>4
<1>6. CASE pc = "list_read" /\ Listing
  BY <1>2, <1>6 DEF Listing
<1>7. CASE pc = "end" /\ dmn.does # "SEND" /\ \A i \in 1 .. Len(toD) : toD[i].id # "SEND"
  BY <1>7
<1> QED
  BY <1>3, <1>4, <1>5, <1>6, <1>7, Phases

(* The service has nothing to do for a command that succeeded.             *)
LEMMA NoWorkAfterSuccess ==
  ASSUME IInv, dmn # Idle \/ (toD # << >> /\ toD[1].id # "QUIT")
  PROVE  result # "success"
<1>1. toD # << >> => 1 \in 1 .. Len(toD)
  BY Tailed, SeqFacts DEF IInv, Types, ConnTypes
<1> QED
  BY <1>1 DEF IInv, Success

(* A step of the service that changes no copy.                             *)
LEMMA ServiceStepKept ==
  ASSUME IInv, Host, UNCHANGED <<refused, dst>>, ConnTypes', DmnTypes', Wire', Discovery', result # "success"
  PROVE  IInv'
<1>1. UNCHANGED <<cmd, pc, todo, left, flag, dirs, unread, result, runs, link>> /\ Types /\ Control /\ Progress
      /\ SkippedIsCurrent
  BY DEF IInv, Host
<1>2. Types'
  BY <1>1, TypesKept DEF Types
<1>3. Control'
  BY <1>1 DEF Control
<1>4. Progress' /\ Success' /\ SkippedIsCurrent'
  <2>1. Progress'
    BY <1>1 DEF Progress, Target, Copied
  <2>2. Success'
    BY <1>1 DEF Success
  <2>3. SkippedIsCurrent'
    BY <1>1, SkippedKept
  <2> QED BY <2>1, <2>2, <2>3
<1> QED
  BY <1>2, <1>3, <1>4 DEF IInv

(* A step of the service that changes the copy of the file that is sent.   *)
LEMMA StoreStepKept ==
  ASSUME IInv, Host, refused' = refused, ConnTypes', DmnTypes', DstTypes', Wire',
         NEW f, f = Head(todo), f \in Range(todo), f \notin flag, \A h \in Files \ {f} : dst'[h] = dst[h],
         pc \in {"send_data", "send_done", "send_status"}
  PROVE  IInv'
<1>1. /\ UNCHANGED <<cmd, pc, todo, left, flag, dirs, unread, result, runs, link>> /\ Types /\ Control /\ Progress
      /\ SkippedIsCurrent
  BY DEF IInv, Host
<1>2. Types'
  BY <1>1, TypesKept DEF Types
<1>3. Control'
  BY <1>1 DEF Control
<1>4. cmd \notin Pulls /\ cmd # "list" /\ result = "none" /\ pc \in Copying /\ flag \subseteq Files /\ Target \subseteq Files
  BY <1>1, SourceTree DEF Control, SendStages, Copying, Types, ClientTypes, Target
<1>5. Progress'
  <2>1. \A h \in Target : h \in Range(todo) \/ h \in unread \/ dst[h] = New(h)
    BY <1>1, <1>4 DEF Progress, Copied, Pulls
  <2>2. \A h \in Target' : h \in Range(todo') \/ Copied(h)'
    BY <1>1, <1>4, <2>1 DEF Target, Copied
  <2> QED BY <1>1, <1>4, <2>2 DEF Progress, Pulls
<1>6. Success' /\ Discovery'
  BY <1>1, <1>4 DEF Success, Discovery, StatStages, ListStages
<1>7. SkippedIsCurrent'
  BY <1>1, <1>4 DEF SkippedIsCurrent
<1> QED
  BY <1>2, <1>3, <1>5, <1>6, <1>7 DEF IInv


(* A step of the service for a command that has ended.                     *)
LEMMA ServiceAfterEnd ==
  ASSUME IInv, Host, ConnTypes', DmnTypes', UNCHANGED <<refused, dst>>, pc = "end", link, toD' = toD \/ Consume,
         dmn'.does # "SEND", result # "success"
  PROVE  IInv'
<1>1. Wire /\ pc' = pc /\ link' = link /\ ConnTypes /\ cmd' = cmd
  BY DEF IInv, Host, Types
<1>2. \A i \in 1 .. Len(toD) : toD[i].id # "SEND"
  BY <1>1 DEF Wire
<1>3. \A i \in 1 .. Len(toD') : toD'[i].id # "SEND"
  <2>1. CASE toD' = toD
    BY <1>2, <2>1
  <2>2. CASE Consume
    BY <1>1, <1>2, <2>2, Consumed
  <2> QED BY <2>1, <2>2
<1>4. Wire'
  BY <1>1, <1>3 DEF Wire, StatStages
<1>5. Discovery'
  BY <1>1 DEF Discovery, StatStages, ListStages
<1> QED
  BY <1>4, <1>5, ServiceStepKept

(* d_stat: the reply is that of the first file not answered yet.           *)
LEMMA AskingReplied ==
  ASSUME Types, Asking, Host, UNCHANGED <<dmn, dst>>, Consume, NEW m, Answer(m), NEW x,
         m = Msg("STAT", toD[1].file, x), cmd \notin Pulls => x = Stat(toD[1].file)
  PROVE  Asking'
<1>1. /\ UNCHANGED <<cmd, pc, todo, left, dirs, dmn>> /\ ConnTypes
      /\ Asked' = Asked
  BY DEF Host, Types, Asked
<1>2. PICK A : A = Asked
  OBVIOUS
<1>3. PICK l, t : l = Len(fromD) /\ t = Len(toD)
  OBVIOUS
<1>4. /\ 1 \in 1 .. t /\ t \in Nat \ {0} /\ Len(toD') = t - 1
      /\ \A i \in 1 .. Len(toD') : toD'[i] = toD[i + 1] /\ i + 1 \in 1 .. t
  BY <1>1, <1>3, Consumed
<1>5. /\ l \in Nat /\ Len(fromD') = l + 1 /\ fromD'[l + 1] = m
      /\ \A i \in 1 .. l : fromD'[i] = fromD[i]
      /\ \A i \in 1 .. Len(fromD') : i \in 1 .. l \/ i = l + 1
  BY ONLY <1>1, <1>3, Answer(m), Replied
<1>6. toD[1].file = A[l + 1]
  BY <1>2, <1>3, <1>4, AskingFacts
<1>7. fromD'[l + 1] = Msg("STAT", A[l + 1], fromD'[l + 1].x) /\ fromD'[l + 1].x = x
  BY ONLY <1>5, <1>6, m = Msg("STAT", toD[1].file, x), SMT DEF Msg
<1>8. \A f : Stat(f)' = Stat(f)
  BY DEF Stat
<1>9. \A i \in 1 .. Len(fromD') : fromD'[i] = Msg("STAT", A[i], fromD'[i].x) /\ (cmd \notin Pulls => fromD'[i].x = Stat(A[i]))
  <2>1. \A i \in 1 .. l : fromD[i] = Msg("STAT", A[i], fromD[i].x) /\ (cmd \notin Pulls => fromD[i].x = Stat(A[i]))
    BY <1>2, <1>3 DEF Asking
  <2>2. \A i \in 1 .. l : fromD'[i] = Msg("STAT", A[i], fromD'[i].x) /\ (cmd \notin Pulls => fromD'[i].x = Stat(A[i]))
    BY ONLY <1>5, <2>1
  <2>3. cmd \notin Pulls => fromD'[l + 1].x = Stat(A[l + 1])
    BY <1>6, <1>7
  <2> QED BY ONLY <1>5, <1>7, <2>2, <2>3
<1>10. \A i \in 1 .. Len(toD') : toD'[i] = Msg("STAT", A[Len(fromD') + i], None)
  <2>1. \A i \in 1 .. t : toD[i] = Msg("STAT", A[l + i], None)
    BY <1>2, <1>3 DEF Asking
  <2>2. \A i \in 1 .. t - 1 : l + (i + 1) = (l + 1) + i
    BY ONLY <1>4, <1>5, SMT
  <2> QED BY ONLY <1>4, <1>5, <2>1, <2>2
<1>11. Len(fromD') + Len(toD') = l + t
  BY ONLY <1>4, <1>5, SMT
<1>12. \A i \in 1 .. Len(fromD') : /\ fromD'[i] = Msg("STAT", A[i], fromD'[i].x)
                                   /\ cmd' \notin Pulls => fromD'[i].x = Stat(A[i])'
  BY <1>1, <1>8, <1>9
<1>13. Asked' = A /\ dmn' = Idle
  BY <1>1, <1>2 DEF Asking
<1>14. \A i \in 1 .. Len(left') : left'[i] \in Nodes /\ (cmd' \notin Pulls => left'[i] \in Files)
  BY <1>1 DEF Asking
<1>15. CASE pc = "stat_write"
  <2>1. pc' = "stat_write" /\ Suffix(left', A) /\ Len(fromD') + Len(toD') = Len(A) - Len(left')
    BY <1>1, <1>2, <1>3, <1>11, <1>15 DEF Asking
  <2> QED BY <1>10, <1>12, <1>13, <1>14, <2>1 DEF Asking
<1>16. CASE pc # "stat_write"
  <2>1. pc' # "stat_write" /\ Len(fromD') + Len(toD') = Len(A) - 0
    BY <1>1, <1>2, <1>3, <1>11, <1>16 DEF Asking
  <2> QED BY <1>10, <1>12, <1>13, <1>14, <2>1 DEF Asking
<1> QED
  BY <1>15, <1>16

(* d_stat.                                                                 *)
LEMMA DStatStep ==
  ASSUME IInv, d_stat
  PROVE  IInv'
<1>1. /\ dmn = Idle /\ Consume /\ Request.id = "STAT" /\ Host /\ UNCHANGED <<dmn, refused, dst>> /\ cmd' = cmd
      /\ link /\ link' = link /\ UNCHANGED <<pc, todo, dirs>>
  BY DEF d_stat, device, Host, Consume
<1>2. Types /\ ConnTypes /\ Discovery
  BY DEF IInv, Types
<1>3. /\ toD # << >> /\ Request = toD[1] /\ toD[1].id = "STAT" /\ IsSeq(toD') /\ Len(toD') <= Cap
      /\ \A i \in 1 .. Len(toD') : IsRequest(toD[i])'
  BY <1>1, <1>2, Consumed
<1>4. PICK x : Answer(Msg("STAT", toD[1].file, x)) /\ (cmd \notin Pulls => x = Stat(toD[1].file))
  BY <1>3 DEF d_stat
<1>5. PICK m : m = Msg("STAT", toD[1].file, x)
  OBVIOUS
<1>6. Answer(m)
  BY <1>4, <1>5
<1>7. ConnTypes'
  <2>1. IsSeq(fromD') /\ Len(fromD') <= Cap
    BY ONLY <1>2, <1>6, Replied
  <2> QED BY <1>1, <1>2, <1>3, <2>1 DEF ConnTypes
<1>8. DmnTypes' /\ dmn'.does = "idle"
  BY <1>1, <1>2, TypesKept, IdleFields DEF device
<1>9. result # "success"
  BY <1>3, NoWorkAfterSuccess
<1>10. CASE pc = "end"
  BY <1>1, <1>7, <1>8, <1>9, <1>10, ServiceAfterEnd
<1>11. CASE pc \in StatStages /\ Asking
  <2>1. Asking'
    BY <1>1, <1>2, <1>4, <1>5, <1>6, <1>11, AskingReplied
  <2>2. Wire'
    BY <1>1, <1>11, <2>1 DEF Wire, StatStages
  <2>3. NoList /\ NoList'
    BY <1>2, <1>11, <2>1, AskingFacts, AskingNext
  <2>4. Discovery'
    BY <1>1, <1>2, <2>3, FindingKept DEF Discovery
  <2> QED BY <1>1, <1>7, <1>8, <1>9, <2>2, <2>4, ServiceStepKept
<1> QED
  BY <1>1, <1>3, <1>10, <1>11, RequestPhase


(* A directory is opened: its entries take its place.                      *)
LEMMA FindingOpened ==
  ASSUME Finding, NEW d \in Dirs, NEW rest, IsSeq(rest), Range(rest) = Entries(d), IsInjective(rest),
         toD = << Msg("LIST", d, None) >>, fromD = << >>, dmn.does # "LIST", toD' = << >>, fromD' = << >>,
         dmn'.does = "LIST", dmn'.rest = rest, UNCHANGED <<todo, dirs>>, Range(todo) \subseteq Files
  PROVE  Finding'
<1>1. PICK known : known = Range(todo) \cup Range(dirs)
  OBVIOUS
<1>2. Dent = {} /\ Dent' = {}
  <2>1. 1 .. Len(fromD) = {} /\ 1 .. Len(fromD') = {}
    BY EmptyFacts, ZeroOne
  <2> QED BY <2>1 DEF Dent
<1>3. ToList = {d} /\ ToList' = {}
  <2>1. 1 .. Len(toD) = {1} /\ toD[1].id = "LIST" /\ toD[1].file = d
    <3>1. toD[1].id = "LIST" /\ toD[1].file = d
      BY ONLY toD = << Msg("LIST", d, None) >>, SMT DEF Msg
    <3> QED BY <3>1, OneFacts, ZeroOne
  <2>2. 1 .. Len(toD') = {}
    BY EmptyFacts, ZeroOne
  <2> QED BY <2>1, <2>2 DEF ToList
<1>4. Rest = << >> /\ Rest' = rest
  BY DEF Rest
<1>5. Pending = known \cup {d} /\ Coming' = Entries(d) /\ Pending' = known \cup Entries(d)
  <2>1. Coming = {} /\ Coming' = Entries(d)
    BY <1>2, <1>4, EmptyFacts DEF Coming
  <2>2. Range(todo') \cup Range(dirs') = known
    BY <1>1
  <2> QED BY <1>1, <1>3, <2>1, <2>2 DEF Pending
<1>6. d \notin Files /\ d \notin known /\ d \in Pending \cap Dirs /\ Entries(d) \subseteq Nodes
  BY <1>1, <1>3, <1>5 DEF Finding, Dirs, Entries, Nodes
<1>7. Below(d) \cap known = {} /\ Entries(d) \subseteq Below(d) /\ d \notin Below(d) /\ d \notin Entries(d)
  BY <1>5, <1>6, BelowFacts, NotBelowItself DEF Finding
<1>8. ASSUME NEW S \in SUBSET Nodes, known \cup Entries(d) \subseteq S, Closed(S) PROVE Files \subseteq S
  <2>1. Closed(S \cup {d}) /\ S \cup {d} \in SUBSET Nodes
    BY <1>8 DEF Closed, Entries, Dirs, Nodes
  <2>2. Pending \subseteq S \cup {d}
    BY <1>5, <1>8
  <2> QED BY <1>6, <2>1, <2>2 DEF Finding
<1>9. ASSUME NEW e \in (known \cup Entries(d)) \cap Dirs, NEW x \in Below(e), x \in known \cup Entries(d) PROVE FALSE
  <2>1. CASE e \in known
    <3>1. Below(e) \cap (known \cup {d}) = {}
      BY <1>5, <1>9, <2>1 DEF Finding
    <3>2. Parent[x] = d
      BY <1>9, <3>1 DEF Entries
    <3> QED BY <1>6, <2>1, <3>1, <3>2, BelowStep
  <2>2. CASE e \in Entries(d)
    <3>1. Below(e) \subseteq Below(d)
      BY <2>2, BelowFacts
    <3>2. Parent[x] = d
      BY <1>7, <1>9, <3>1 DEF Entries
    <3> QED BY <1>7, <2>2, <3>1, <3>2, BelowStep
  <2> QED BY <1>9, <2>1, <2>2
<1>10. \A S \in SUBSET Nodes : Pending' \subseteq S /\ Closed(S) => Files \subseteq S
  BY <1>5, <1>8
<1>11. \A e \in Pending' \cap Dirs : Below(e) \cap Pending' = {}
  BY <1>5, <1>9
<1>12. Coming' \cap (Range(todo') \cup Range(dirs')) = {} /\ ToList' \cap Range(dirs') = {}
  BY <1>1, <1>3, <1>5, <1>7
<1>13. IsInjective(dirs') /\ IsInjective(Rest')
  BY <1>4 DEF Finding
<1>14. /\ \A i, j \in Dent' : fromD'[i].file = fromD'[j].file => i = j
       /\ \A i \in Dent' : fromD'[i].file \notin Range(Rest')
  BY <1>2
<1> QED
  BY ONLY <1>10, <1>11, <1>12, <1>13, <1>14 DEF Finding

(* d_open.                                                                 *)
LEMMA DOpenStep ==
  ASSUME IInv, d_open
  PROVE  IInv'
<1>1. /\ dmn = Idle /\ Consume /\ Request.id \in {"LIST", "RECV"} /\ Host /\ UNCHANGED <<fromD, refused, dst>> /\ cmd' = cmd
      /\ link /\ link' = link /\ UNCHANGED <<pc, todo, dirs>>
  BY DEF d_open, Host, Consume
<1>2. Types /\ ConnTypes /\ DmnTypes /\ Discovery /\ Range(todo) \subseteq Files
  BY DEF IInv, Types, ClientTypes
<1>3. /\ toD # << >> /\ Request = toD[1] /\ IsSeq(toD') /\ Len(toD') <= Cap /\ IsRequest(toD[1]) /\ toD' = Tail(toD)
      /\ \A i \in 1 .. Len(toD') : IsRequest(toD[i])'
  BY <1>1, <1>2, Consumed
<1>4. ConnTypes'
  BY <1>1, <1>2, <1>3 DEF ConnTypes
<1>5. result # "success"
  BY <1>1, <1>3, NoWorkAfterSuccess
<1>6. CASE toD[1].id = "RECV"
  <2>1. PICK f : f = toD[1].file /\ f \in Files
    BY <1>3, <1>6 DEF IsRequest
  <2>2. dmn' = [does |-> "RECV", file |-> f, rest |-> Content[f]]
    BY <1>3, <1>6, <2>1 DEF d_open
  <2>3. dmn'.does = "RECV" /\ dmn'.file = f /\ dmn'.rest = Content[f]
    BY ONLY <2>2, SMT
  <2>4. IsSeq(Content[f]) /\ Suffix(Content[f], Content[f]) /\ Len(Content[f]) \in Nat
    BY <2>1, ContentIsSeq, SuffixEnds, SeqFacts
  <2>5. DmnTypes'
    BY <1>1, <1>2, <2>1, <2>2, <2>3, <2>4 DEF DmnTypes, Doing
  <2>6. CASE pc = "end"
    BY <1>1, <1>4, <1>5, <2>3, <2>5, <2>6, ServiceAfterEnd
  <2>7. CASE pc = "recv_first" /\ Called(Head(todo))
    <3>1. toD = << Msg("RECV", Head(todo), None) >> /\ fromD = << >> /\ Head(todo) \notin refused
      BY <2>7 DEF Called
    <3>2. f = Head(todo)
      BY ONLY <2>1, <3>1, SMT DEF Msg
    <3>3. toD' = << >> /\ fromD' = << >> /\ Len(fromD') = 0 /\ 1 .. Len(fromD') = {}
      BY <1>1, <1>3, <3>1, OneFacts, EmptyFacts, ZeroOne
    <3>4. 0 + Len(fromD') + Len(dmn'.rest) = Len(Content[f])
      BY ONLY <2>3, <2>4, <3>3, SMT
    <3>5. Served(f, 0)'
      BY <1>1, <2>2, <2>3, <2>4, <3>1, <3>2, <3>3, <3>4 DEF Served, Doing, Arriving
    <3>6. Receiving'
      BY <1>1, <2>7, <3>2, <3>5 DEF Receiving
    <3>7. Wire' /\ Discovery'
      BY <1>1, <2>7, <3>6 DEF Wire, Discovery, StatStages, ListStages
    <3> QED BY <1>1, <1>4, <1>5, <2>5, <3>7, ServiceStepKept
  <2> QED BY <1>1, <1>3, <1>6, <2>6, <2>7, RequestPhase
<1>7. CASE toD[1].id = "LIST"
  <2>1. PICK d : d = toD[1].file /\ d \in Dirs
    BY <1>3, <1>7 DEF IsRequest
  <2>2. PICK rest \in Orders(Entries(d)) : dmn' = [does |-> "LIST", file |-> d, rest |-> rest]
    BY <1>3, <1>7, <2>1 DEF d_open
  <2>3. dmn'.does = "LIST" /\ dmn'.file = d /\ dmn'.rest = rest
    BY ONLY <2>2, SMT
  <2>4. IsSeq(rest) /\ Range(rest) = Entries(d) /\ IsInjective(rest)
    BY <2>2, OrderFacts
  <2>5. DmnTypes'
    BY <1>1, <1>2, <2>2, <2>3, <2>4 DEF DmnTypes, Doing
  <2>6. CASE pc = "end"
    BY <1>1, <1>4, <1>5, <2>3, <2>5, <2>6, ServiceAfterEnd
  <2>7. CASE pc = "list_read" /\ fromD = << >> /\ \E u \in Dirs : toD = << Msg("LIST", u, None) >>
    <3>1. PICK u \in Dirs : toD = << Msg("LIST", u, None) >>
      BY <2>7
    <3>2. toD = << Msg("LIST", d, None) >>
      <4>1. d = u
        BY ONLY <2>1, <3>1, SMT DEF Msg
      <4> QED BY <3>1, <4>1
    <3>3. toD' = << >> /\ fromD' = << >> /\ 1 .. Len(fromD') = {}
      BY <1>1, <1>3, <2>7, <3>2, OneFacts, EmptyFacts, ZeroOne
    <3>4. Listing'
      BY <2>2, <2>3, <2>4, <3>3 DEF Listing, Doing, Dents, Entries, Nodes
    <3>5. Wire'
      BY <1>1, <2>7, <3>4 DEF Wire, StatStages
    <3>6. Finding => Finding'
      <4>1. dmn.does # "LIST"
        BY <1>1, IdleFields
      <4> QED BY <1>1, <1>2, <2>1, <2>3, <2>4, <2>7, <3>2, <3>3, <4>1, FindingOpened
    <3>7. Discovery'
      BY <1>1, <1>2, <3>6 DEF Discovery
    <3> QED BY <1>1, <1>4, <1>5, <2>5, <3>5, <3>7, ServiceStepKept
  <2> QED BY <1>1, <1>3, <1>7, <2>6, <2>7, RequestPhase
<1> QED
  BY <1>1, <1>3, <1>6, <1>7


(* One more reply for a file that is read on the device.                   *)
LEMMA ServedReplied ==
  ASSUME NEW f, NEW g \in Nat, Served(f, g), IsSeq(dmn.rest), IsSeq(Content[f]), ConnTypes, NEW m, Answer(m)
  PROVE  /\ fromD' # << >> /\ fromD'[Len(fromD')] = m /\ Arriving(f, g, Len(fromD) - 1)'
         /\ (g + (Len(fromD') - 1)) + Len(dmn.rest) = Len(Content[f])
         /\ g + (Len(fromD') - 1) <= Len(Content[f]) /\ Len(fromD') \in Nat
         /\ m = Msg("DATA", f, Content[f][g + Len(fromD')]) => Arriving(f, g, Len(fromD))'
<1>1. PICK l : l = Len(fromD)
  OBVIOUS
<1>2. /\ l \in Nat /\ Len(fromD') = l + 1 /\ fromD'[l + 1] = m /\ IsSeq(fromD')
      /\ \A i \in 1 .. l : fromD'[i] = fromD[i]
      /\ \A i \in 1 .. Len(fromD') : i \in 1 .. l \/ i = l + 1
  BY <1>1, Replied
<1>3. /\ g + l + Len(dmn.rest) = Len(Content[f]) /\ Len(dmn.rest) \in Nat /\ Len(Content[f]) \in Nat
      /\ \A i \in 1 .. l : fromD[i] = Msg("DATA", f, Content[f][g + i])
  BY <1>1, SeqFacts DEF Served, Arriving
<1>4. /\ Len(fromD') - 1 = l /\ Len(fromD') \in Nat /\ Len(fromD') # 0
      /\ (g + l) + Len(dmn.rest) = Len(Content[f]) /\ g + l <= Len(Content[f])
  <2>1. PICK n, r, c : n = Len(fromD') /\ r = Len(dmn.rest) /\ c = Len(Content[f])
    OBVIOUS
  <2>2. l \in Nat /\ n = l + 1 /\ g \in Nat /\ g + l + r = c /\ r \in Nat /\ c \in Nat
    BY <1>2, <1>3, <2>1
  <2>3. n - 1 = l /\ n \in Nat /\ n # 0 /\ (g + l) + r = c /\ g + l <= c
    BY ONLY <2>2, SMT
  <2> QED BY ONLY <2>1, <2>3
<1>5. fromD' # << >>
  BY <1>4, EmptyFacts
<1>6. \A i \in 1 .. l : fromD'[i] = Msg("DATA", f, Content[f][g + i])
  BY <1>2, <1>3
<1>7. Arriving(f, g, Len(fromD) - 1)'
  BY <1>4, <1>6 DEF Arriving
<1>8. ASSUME m = Msg("DATA", f, Content[f][g + Len(fromD')]) PROVE Arriving(f, g, Len(fromD))'
  BY <1>2, <1>6, <1>8 DEF Arriving
<1> QED
  BY <1>2, <1>4, <1>5, <1>7, <1>8

(* A step that leaves the client where it is in the file it receives.      *)
LEMMA ReceivingKept ==
  ASSUME Receiving, UNCHANGED <<pc, todo, dst>>, NEW f, NEW g, GetsOf(f, g), Served(f, g)' \/ Ended(f, g)'
  PROVE  Receiving'
<1>1. Head(todo') = f /\ (IF pc' = "recv_first" THEN 0 ELSE Len(dst'[f].data)) = g
  BY DEF GetsOf
<1>2. pc' = "recv_data" => dst'[f] = File(dst'[f].data, 0) /\ IsSeq(dst'[f].data) /\ Prefix(dst'[f].data, Content[f])
  BY <1>1 DEF Receiving
<1> QED
  BY <1>1, <1>2 DEF Receiving

(* d_next for ID_RECV: the next chunk, or ID_DONE after the last one.      *)
LEMMA DNextReceiving ==
  ASSUME IInv, d_next, dmn.does = "RECV", Receiving, NEW f, NEW g, GetsOf(f, g), Served(f, g)
  PROVE  Receiving'
<1>1. /\ IsSeq(dmn.rest) /\ ConnTypes /\ Host /\ UNCHANGED <<toD, refused, dst>> /\ UNCHANGED <<pc, todo>>
  BY DEF IInv, Types, DmnTypes, d_next, Host
<1>2. f \in Files /\ g \in Nat /\ IsSeq(Content[f]) /\ dmn.file = f /\ toD = << >> /\ f \notin refused
      /\ Suffix(dmn.rest, Content[f])
  BY ContentIsSeq DEF GetsOf, Served
<1>3. CASE dmn.rest = << >>
  <2>1. PICK m : m = Msg("DONE", f, None)
    OBVIOUS
  <2>2. Answer(m) /\ dmn' = Idle
    BY <1>2, <1>3, <2>1 DEF d_next
  <2>3. /\ fromD' # << >> /\ fromD'[Len(fromD')] = m /\ Arriving(f, g, Len(fromD) - 1)'
        /\ (g + (Len(fromD') - 1)) + Len(dmn.rest) = Len(Content[f])
        /\ g + (Len(fromD') - 1) <= Len(Content[f]) /\ Len(fromD') \in Nat
    BY ONLY <1>1, <1>2, <2>2, Served(f, g), ServedReplied
  <2>4. Len(dmn.rest) = 0
    BY <1>3, EmptyFacts
  <2>5. g + (Len(fromD') - 1) = Len(Content[f])
    BY ONLY <1>2, <2>3, <2>4, SMT
  <2>6. Ended(f, g)'
    BY <1>1, <1>2, <2>1, <2>2, <2>3, <2>5 DEF Ended
  <2> QED BY <1>1, <2>6, ReceivingKept
<1>4. CASE dmn.rest # << >>
  <2>1. PICK m : m = Msg("DATA", f, Head(dmn.rest))
    OBVIOUS
  <2>2. Answer(m) /\ dmn' = [dmn EXCEPT !.rest = Tail(@)]
    BY <1>2, <1>4, <2>1 DEF d_next
  <2>3. /\ (g + (Len(fromD') - 1)) + Len(dmn.rest) = Len(Content[f]) /\ Len(fromD') \in Nat
        /\ m = Msg("DATA", f, Content[f][g + Len(fromD')]) => Arriving(f, g, Len(fromD))'
    BY ONLY <1>1, <1>2, <2>2, Served(f, g), ServedReplied
  <2>4. /\ Suffix(Tail(dmn.rest), Content[f]) /\ Head(dmn.rest) = Content[f][Len(Content[f]) - Len(dmn.rest) + 1]
        /\ Len(Tail(dmn.rest)) = Len(dmn.rest) - 1 /\ Len(dmn.rest) \in Nat /\ Len(Content[f]) \in Nat
    BY <1>1, <1>2, <1>4, SuffixNext, Tailed, SeqFacts
  <2>5. /\ Len(Content[f]) - Len(dmn.rest) + 1 = g + Len(fromD')
        /\ g + Len(fromD') + (Len(dmn.rest) - 1) = Len(Content[f])
    <3>1. PICK n, r, c : n = Len(fromD') /\ r = Len(dmn.rest) /\ c = Len(Content[f])
      OBVIOUS
    <3>2. (g + (n - 1)) + r = c /\ n \in Nat /\ g \in Nat /\ r \in Nat /\ c \in Nat
      BY <1>2, <2>3, <2>4, <3>1
    <3>3. c - r + 1 = g + n /\ g + n + (r - 1) = c
      BY ONLY <3>2, SMT
    <3> QED BY ONLY <3>1, <3>3
  <2>6. Arriving(f, g, Len(fromD))'
    BY <2>1, <2>3, <2>4, <2>5
  <2>7. dmn' = [does |-> "RECV", file |-> f, rest |-> Tail(dmn.rest)] /\ dmn'.file = f /\ dmn'.rest = Tail(dmn.rest)
    <3>1. PICK t, r : t = Tail(dmn.rest) /\ r = dmn.rest
      OBVIOUS
    <3>2. dmn = [does |-> "RECV", file |-> f, rest |-> r] /\ dmn' = [dmn EXCEPT !.rest = t]
      BY <1>2, <2>2, <3>1 DEF Served, Doing
    <3>3. dmn' = [does |-> "RECV", file |-> f, rest |-> t] /\ dmn'.file = f /\ dmn'.rest = t
      BY ONLY <3>2, SMT
    <3> QED BY <3>1, <3>3
  <2>8. Doing("RECV")'
    BY <2>7 DEF Doing
  <2>9. g + Len(fromD') + Len(dmn'.rest) = Len(Content[f])
    BY <2>4, <2>5, <2>7
  <2>10. Served(f, g)'
    BY <1>1, <1>2, <2>4, <2>6, <2>7, <2>8, <2>9 DEF Served
  <2> QED BY <1>1, <2>10, ReceivingKept
<1> QED
  BY <1>3, <1>4

(* The entries found do not change when one of them is on its way.         *)
LEMMA FindingMoved ==
  ASSUME Finding, UNCHANGED <<todo, dirs, toD>>, Coming' = Coming, IsInjective(Rest'),
         \A i, j \in Dent' : fromD'[i].file = fromD'[j].file => i = j,
         \A i \in Dent' : fromD'[i].file \notin Range(Rest')
  PROVE  Finding'
<1>1. ToList' = ToList
  BY DEF ToList
<1>2. Pending' = Pending
  BY <1>1 DEF Pending
<1>3. \A S \in SUBSET Nodes : Pending' \subseteq S /\ Closed(S) => Files \subseteq S
  BY <1>2 DEF Finding
<1>4. \A d \in Pending' \cap Dirs : Below(d) \cap Pending' = {}
  BY <1>2 DEF Finding
<1>5. IsInjective(dirs') /\ Coming' \cap (Range(todo') \cup Range(dirs')) = {} /\ ToList' \cap Range(dirs') = {}
  BY <1>1 DEF Finding
<1> QED
  BY <1>3, <1>4, <1>5 DEF Finding


(* d_next for ID_LIST: the next entry, or ID_DONE after the last one.      *)
LEMMA DNextListing ==
  ASSUME IInv, d_next, dmn.does = "LIST", toD = << >>, Range(dmn.rest) \subseteq Nodes, Dents(Len(fromD))
  PROVE  Listing' /\ (Finding => Finding')
<1>1. /\ IsSeq(dmn.rest) /\ ConnTypes /\ UNCHANGED <<toD, todo, dirs>> /\ Doing("LIST") /\ Rest = dmn.rest
  BY DEF IInv, Types, DmnTypes, d_next, Host, Rest
<1>2. PICK l : l = Len(fromD)
  OBVIOUS
<1>3. \A i \in 1 .. l : fromD[i] = Msg("DENT", fromD[i].file, None) /\ fromD[i].file \in Nodes
  BY <1>2 DEF Dents
<1>4. \A i \in 1 .. l : fromD[i].id = "DENT"
  BY ONLY <1>3, MsgFields
<1>5. Dent = 1 .. l
  BY <1>2, <1>4 DEF Dent
<1>6. ASSUME NEW m, Answer(m)
      PROVE  /\ l \in Nat /\ Len(fromD') = l + 1 /\ fromD'[l + 1] = m /\ fromD' # << >> /\ Len(fromD') - 1 = l
             /\ \A i \in 1 .. l : fromD'[i] = fromD[i] /\ i \in 1 .. Len(fromD')
             /\ \A i \in 1 .. Len(fromD') : i \in 1 .. l \/ i = l + 1
             /\ l + 1 \in 1 .. Len(fromD') /\ l + 1 \notin 1 .. l
  <2>1. /\ l \in Nat /\ Len(fromD') = l + 1 /\ fromD'[l + 1] = m /\ IsSeq(fromD')
        /\ \A i \in 1 .. l : fromD'[i] = fromD[i]
        /\ \A i \in 1 .. Len(fromD') : i \in 1 .. l \/ i = l + 1
    BY ONLY <1>1, <1>2, <1>6, Replied
  <2>2. /\ (l + 1) - 1 = l /\ l + 1 # 0 /\ l + 1 \in 1 .. l + 1 /\ l + 1 \notin 1 .. l
        /\ \A i \in 1 .. l : i \in 1 .. l + 1
    BY ONLY <2>1, SMT
  <2> QED BY <2>1, <2>2, EmptyFacts
<1>7. CASE dmn.rest = << >>
  <2>1. PICK m : m = Msg("DONE", dmn.file, None)
    OBVIOUS
  <2>2. Answer(m) /\ dmn' = Idle
    BY <1>7, <2>1 DEF d_next
  <2>3. m.id = "DONE"
    BY ONLY <2>1, MsgFields
  <2>4. /\ Len(fromD') = l + 1 /\ fromD'[l + 1] = m /\ fromD' # << >> /\ Len(fromD') - 1 = l
        /\ \A i \in 1 .. l : fromD'[i] = fromD[i] /\ i \in 1 .. Len(fromD')
        /\ \A i \in 1 .. Len(fromD') : i \in 1 .. l \/ i = l + 1
    BY <1>6, <2>2
  <2>5. Dents(Len(fromD) - 1)'
    BY <1>3, <2>4 DEF Dents
  <2>6. Listing'
    BY <1>1, <2>2, <2>3, <2>4, <2>5 DEF Listing
  <2>7. Dent' = 1 .. l
    BY <1>4, <2>3, <2>4 DEF Dent
  <2>8. Rest' = << >> /\ Range(Rest') = {} /\ Range(Rest) = {} /\ IsInjective(Rest')
    BY <1>1, <1>7, <2>2, IdleFields, EmptyFacts DEF Rest
  <2>9. Coming' = Coming
    <3>1. {fromD'[i].file : i \in 1 .. l} = {fromD[i].file : i \in 1 .. l}
      BY <2>4
    <3> QED BY <1>5, <2>7, <2>8, <3>1 DEF Coming
  <2>10. ASSUME Finding PROVE Finding'
    <3>1. \A i, j \in Dent' : fromD'[i].file = fromD'[j].file => i = j
      BY <1>5, <2>4, <2>7, <2>10 DEF Finding
    <3> QED BY <1>1, <2>8, <2>9, <2>10, <3>1, FindingMoved
  <2> QED BY <2>6, <2>10
<1>8. CASE dmn.rest # << >>
  <2>1. PICK m, h : m = Msg("DENT", h, None) /\ h = Head(dmn.rest)
    OBVIOUS
  <2>2. Answer(m) /\ dmn' = [dmn EXCEPT !.rest = Tail(@)]
    BY <1>8, <2>1 DEF d_next
  <2>3. m.id = "DENT" /\ m.file = h /\ m = Msg("DENT", m.file, None)
    BY ONLY <2>1, MsgFields
  <2>4. /\ Len(fromD') = l + 1 /\ fromD'[l + 1] = m
        /\ \A i \in 1 .. l : fromD'[i] = fromD[i] /\ i \in 1 .. Len(fromD')
        /\ \A i \in 1 .. Len(fromD') : i \in 1 .. l \/ i = l + 1
        /\ l + 1 \in 1 .. Len(fromD') /\ l + 1 \notin 1 .. l
    BY <1>6, <2>2
  <2>5. dmn'.does = "LIST" /\ dmn'.rest = Tail(dmn.rest) /\ Doing("LIST")'
    <3>1. PICK t, r, d : t = Tail(dmn.rest) /\ r = dmn.rest /\ d = dmn.file
      OBVIOUS
    <3>2. dmn = [does |-> "LIST", file |-> d, rest |-> r] /\ dmn' = [dmn EXCEPT !.rest = t]
      BY <1>1, <2>2, <3>1 DEF Doing
    <3>3. dmn' = [does |-> "LIST", file |-> dmn'.file, rest |-> dmn'.rest] /\ dmn'.rest = t /\ dmn'.does = "LIST"
      BY ONLY <3>2, SMT
    <3> QED BY <3>1, <3>3 DEF Doing
  <2>6. Range(dmn.rest) = {h} \cup Range(Tail(dmn.rest)) /\ Rest' = Tail(dmn.rest)
    BY <1>1, <1>8, <2>1, <2>5, Tailed DEF Rest
  <2>7. Dents(Len(fromD))'
    <3>1. h \in Nodes
      BY <2>6
    <3>2. ASSUME NEW i \in 1 .. Len(fromD') PROVE fromD'[i] = Msg("DENT", fromD'[i].file, None) /\ fromD'[i].file \in Nodes
      <4>1. CASE i \in 1 .. l
        BY <1>3, <2>4, <4>1
      <4>2. CASE i = l + 1
        BY <2>3, <2>4, <3>1, <4>2
      <4> QED BY <2>4, <4>1, <4>2
    <3> QED BY <3>2 DEF Dents
  <2>8. Listing'
    BY <1>1, <2>5, <2>6, <2>7 DEF Listing
  <2>9. Dent' = 1 .. l \cup {l + 1}
    BY <1>4, <2>3, <2>4 DEF Dent
  <2>10. Coming' = Coming
    <3>1. {fromD'[i].file : i \in (1 .. l) \cup {l + 1}} = {fromD[i].file : i \in 1 .. l} \cup {h}
      BY <2>3, <2>4
    <3> QED BY <1>1, <1>5, <2>6, <2>9, <3>1 DEF Coming
  <2>11. ASSUME Finding PROVE Finding'
    <3>1. IsInjective(Tail(dmn.rest)) /\ h \notin Range(Tail(dmn.rest))
      BY <1>1, <1>8, <2>1, <2>11, TailDistinct DEF Finding
    <3>2. /\ \A i, j \in 1 .. l : fromD[i].file = fromD[j].file => i = j
          /\ \A i \in 1 .. l : fromD[i].file # h /\ fromD[i].file \notin Range(Tail(dmn.rest))
      BY <1>1, <1>5, <2>6, <2>11 DEF Finding
    <3>3. ASSUME NEW i \in Dent', NEW j \in Dent', fromD'[i].file = fromD'[j].file PROVE i = j
      BY <2>3, <2>4, <2>9, <3>2, <3>3
    <3>4. ASSUME NEW i \in Dent' PROVE fromD'[i].file \notin Range(Rest')
      BY <2>3, <2>4, <2>6, <2>9, <3>1, <3>2
    <3>5. IsInjective(Rest')
      BY <2>6, <3>1
    <3> QED BY <1>1, <2>10, <2>11, <3>3, <3>4, <3>5, FindingMoved
  <2> QED BY <2>8, <2>11
<1> QED
  BY <1>7, <1>8

(* d_next.                                                                 *)
LEMMA DNextStep ==
  ASSUME IInv, d_next
  PROVE  IInv'
<1>1. /\ Host /\ UNCHANGED <<toD, refused, dst>> /\ link /\ link' = link /\ UNCHANGED <<cmd, pc, todo, dirs>>
      /\ dmn.does \in {"LIST", "RECV"}
  BY DEF d_next, Host
<1>2. Types /\ ConnTypes /\ DmnTypes /\ Discovery /\ Doing(dmn.does) /\ IsSeq(dmn.rest)
  BY DEF IInv, Types, DmnTypes
<1>3. PICK m : Answer(m)
  BY DEF d_next
<1>4. ConnTypes'
  <2>1. IsSeq(fromD') /\ Len(fromD') <= Cap
    BY ONLY <1>2, <1>3, Replied
  <2> QED BY <1>1, <1>2, <2>1 DEF ConnTypes, IsRequest
<1>5. DmnTypes' /\ dmn'.does # "SEND"
  <2>1. CASE dmn.rest = << >>
    <3>1. dmn' = Idle /\ Idle = [does |-> "idle", file |-> None, rest |-> << >>]
      BY <2>1 DEF d_next, Idle
    <3> QED BY <1>1, <1>2, <3>1, IdleFields, EmptyFacts DEF DmnTypes, Doing
  <2>2. CASE dmn.rest # << >>
    <3>1. PICK t, r, d, a : t = Tail(dmn.rest) /\ r = dmn.rest /\ d = dmn.file /\ a = dmn.does
      OBVIOUS
    <3>2. dmn = [does |-> a, file |-> d, rest |-> r] /\ dmn' = [dmn EXCEPT !.rest = t]
      BY <1>2, <2>2, <3>1 DEF Doing, d_next
    <3>3. dmn' = [does |-> a, file |-> d, rest |-> t] /\ dmn'.rest = t /\ dmn'.does = a /\ dmn'.file = d
      BY ONLY <3>2, SMT
    <3>4. IsSeq(t)
      BY <1>2, <2>2, <3>1, Tailed
    <3>5. Doing(dmn.does)'
      BY <3>3 DEF Doing
    <3> QED BY <1>1, <1>2, <3>1, <3>3, <3>4, <3>5 DEF DmnTypes
  <2> QED BY <2>1, <2>2
<1>6. result # "success"
  BY <1>1, IdleFields, NoWorkAfterSuccess
<1>7. CASE pc = "end"
  BY <1>1, <1>4, <1>5, <1>6, <1>7, ServiceAfterEnd
<1>8. CASE pc = "list_read" /\ dmn.does = "LIST" /\ toD = << >> /\ Range(dmn.rest) \subseteq Nodes /\ Dents(Len(fromD))
  <2>1. Listing' /\ (Finding => Finding')
    BY <1>8, DNextListing
  <2>2. Wire'
    BY <1>1, <1>8, <2>1 DEF Wire, StatStages
  <2>3. Discovery'
    BY <1>1, <1>2, <2>1 DEF Discovery
  <2> QED BY <1>1, <1>4, <1>5, <1>6, <2>2, <2>3, ServiceStepKept
<1>9. CASE pc \in {"recv_first", "recv_data"} /\ dmn.does = "RECV" /\ Receiving /\ \E f, g : GetsOf(f, g) /\ Served(f, g)
  <2>1. Receiving'
    BY <1>9, DNextReceiving
  <2>2. Wire' /\ Discovery'
    BY <1>1, <1>9, <2>1 DEF Wire, Discovery, StatStages, ListStages
  <2> QED BY <1>1, <1>4, <1>5, <1>6, <2>2, ServiceStepKept
<1> QED
  BY <1>1, <1>7, <1>8, <1>9, WorkPhase


(* d_unreadable: ID_FAIL after the chunks on their way.                    *)
LEMMA DUnreadableStep ==
  ASSUME IInv, d_unreadable
  PROVE  IInv'
<1>1. /\ UNCHANGED <<cmd, pc, todo, left, flag, dirs, unread, result, runs, link, toD, dst>> /\ link
      /\ dmn.does = "RECV" /\ dmn' = Idle /\ refused' = refused \cup {dmn.file}
  BY DEF d_unreadable, Host
<1>2. Types /\ ConnTypes /\ DmnTypes /\ Control /\ Progress /\ SkippedIsCurrent /\ Wire /\ IsSeq(dmn.rest) /\ dmn.file \in Files
  BY <1>1 DEF IInv, Types, DmnTypes
<1>3. PICK m : m = Msg("FAIL", dmn.file, None)
  OBVIOUS
<1>4. Answer(m)
  BY <1>3 DEF d_unreadable
<1>5. ConnTypes'
  <2>1. IsSeq(fromD') /\ Len(fromD') <= Cap
    BY ONLY <1>2, <1>4, Replied
  <2> QED BY <1>1, <1>2, <2>1 DEF ConnTypes, IsRequest
<1>6. DmnTypes'
  <2>1. dmn' = [does |-> "idle", file |-> None, rest |-> << >>]
    BY <1>1 DEF Idle
  <2> QED BY <1>1, <1>2, <2>1, IdleFields, EmptyFacts DEF DmnTypes, Doing
<1>7. Types'
  BY <1>1, <1>2, <1>5, <1>6, TypesKept DEF Types
<1>8. result # "success"
  BY <1>1, IdleFields, NoWorkAfterSuccess
<1>9. Success' /\ SkippedIsCurrent'
  BY <1>1, <1>2, <1>8, SkippedKept DEF Success
<1>10. CASE pc = "end"
  <2>1. Wire'
    BY <1>1, <1>2, <1>10, IdleFields DEF Wire, StatStages
  <2>2. Control' /\ Discovery' /\ Progress'
    <3>1. Control'
      BY <1>1, <1>2, <1>10 DEF Control, StatStages, ListStages, SendStages, RecvStages
    <3>2. Discovery' /\ Progress'
      BY <1>1, <1>10 DEF Discovery, Progress, StatStages, ListStages, Copying, SendStages, RecvStages
    <3> QED BY <3>1, <3>2
  <2> QED BY <1>7, <1>9, <2>1, <2>2 DEF IInv
<1>11. CASE pc \in {"recv_first", "recv_data"} /\ Receiving /\ \E f, g : GetsOf(f, g) /\ Served(f, g)
  <2>1. PICK f, g : GetsOf(f, g) /\ Served(f, g)
    BY <1>11
  <2>2. f \in Files /\ g \in Nat /\ IsSeq(Content[f]) /\ dmn.file = f /\ toD = << >> /\ f = Head(todo) /\ f \in Range(todo)
    BY <2>1, ContentIsSeq DEF GetsOf, Served
  <2>3. /\ fromD' # << >> /\ fromD'[Len(fromD')] = m /\ Arriving(f, g, Len(fromD) - 1)'
        /\ g + (Len(fromD') - 1) <= Len(Content[f])
    BY ONLY <1>2, <1>4, <2>1, <2>2, ServedReplied
  <2>4. Ended(f, g)'
    BY <1>1, <1>3, <2>2, <2>3 DEF Ended
  <2>5. Receiving'
    BY <1>1, <1>11, <2>1, <2>4, ReceivingKept
  <2>6. Wire' /\ Discovery'
    BY <1>1, <1>11, <2>5 DEF Wire, Discovery, StatStages, ListStages
  <2>7. pc \in Copying /\ cmd \in {"pull", "pulldir"}
    BY <1>2, <1>11 DEF Copying, RecvStages, Control
  <2>8. Control'
    BY <1>1, <1>2, <2>7 DEF Control
  <2>9. \A h \in Target : h \in Range(todo) \/ (h # f /\ Copied(h))
    BY <1>2, <2>2, <2>7 DEF Progress
  <2>10. \A h \in Target' : h \in Range(todo') \/ Copied(h)'
    BY <1>1, <2>2, <2>9 DEF Target, Copied
  <2>11. \A h \in refused' \cap Range(todo') : pc' \in {"recv_first", "recv_data"} /\ h = Head(todo')
    BY <1>1, <1>2, <1>11, <2>2, <2>7 DEF Progress
  <2>12. Progress'
    BY <1>1, <1>11, <2>10, <2>11 DEF Progress
  <2> QED BY <1>7, <1>9, <2>6, <2>8, <2>12 DEF IInv
<1> QED
  BY <1>1, <1>10, <1>11, WorkPhase

(* ID_SEND or a chunk is taken: what is behind it is still on its way.     *)
LEMMA LessOnTheWay ==
  ASSUME NEW f, NEW n \in Nat, NEW done \in {0, 1}, IsSeq(toD), toD # << >>, toD' = Tail(toD)
  PROVE  /\ OnTheWay(f, 1, 0, n, done) => OnTheWay(f, 0, 0, n, done)'
         /\ \A k \in Nat : OnTheWay(f, 0, k, n, done) =>
              \/ k < n /\ toD[1] = Msg("DATA", f, Content[f][k + 1]) /\ OnTheWay(f, 0, k + 1, n, done)'
              \/ k = n /\ done = 1 /\ toD[1] = Msg("DONE", f, 1) /\ toD' = << >>
<1>1. PICK t : t = Len(toD)
  OBVIOUS
<1>2. t \in Nat \ {0} /\ Len(toD') = t - 1 /\ \A i \in 1 .. t - 1 : toD'[i] = toD[i + 1] /\ i + 1 \in 1 .. t
  BY <1>1, Tailed
<1>3. IsSeq(toD')
  BY Tailed
<1>4. ASSUME OnTheWay(f, 1, 0, n, done) PROVE OnTheWay(f, 0, 0, n, done)'
  <2>1. /\ t = 1 + (n - 0) + done /\ \A i \in 1 .. n - 0 : toD[1 + i] = Msg("DATA", f, Content[f][0 + i])
        /\ done = 1 => toD[t] = Msg("DONE", f, 1)
    BY <1>1, <1>4 DEF OnTheWay
  <2>2. /\ 0 <= n /\ t - 1 = 0 + (n - 0) + done
        /\ \A i \in 1 .. n - 0 : i \in 1 .. t - 1 /\ i + 1 = 1 + i /\ 0 + i = i
        /\ done = 1 => t - 1 \in 1 .. t - 1 /\ (t - 1) + 1 = t
    <3>1. t = 1 + (n - 0) + done /\ n \in Nat /\ done \in {0, 1} /\ t \in Nat
      BY <1>2, <2>1
    <3> QED BY ONLY <3>1, SMT
  <2>3. \A i \in 1 .. n - 0 : toD'[0 + i] = Msg("DATA", f, Content[f][0 + i])
    <3>1. ASSUME NEW i \in 1 .. n - 0 PROVE toD'[0 + i] = Msg("DATA", f, Content[f][0 + i])
      <4>1. i \in 1 .. t - 1 /\ i + 1 = 1 + i /\ 0 + i = i /\ toD[1 + i] = Msg("DATA", f, Content[f][0 + i])
        BY <2>1, <2>2
      <4>2. toD'[i] = toD[i + 1]
        BY <1>2, <4>1
      <4> QED BY ONLY <4>1, <4>2
    <3> QED BY <3>1
  <2>4. done = 1 => toD'[Len(toD')] = Msg("DONE", f, 1)
    BY <1>2, <2>1, <2>2
  <2> QED BY <1>2, <2>2, <2>3, <2>4 DEF OnTheWay
<1>5. ASSUME NEW k \in Nat, OnTheWay(f, 0, k, n, done)
      PROVE  \/ k < n /\ toD[1] = Msg("DATA", f, Content[f][k + 1]) /\ OnTheWay(f, 0, k + 1, n, done)'
             \/ k = n /\ done = 1 /\ toD[1] = Msg("DONE", f, 1) /\ toD' = << >>
  <2>1. /\ k <= n /\ t = 0 + (n - k) + done /\ \A i \in 1 .. n - k : toD[0 + i] = Msg("DATA", f, Content[f][k + i])
        /\ done = 1 => toD[t] = Msg("DONE", f, 1)
    BY <1>1, <1>5 DEF OnTheWay
  <2>2. t = 0 + (n - k) + done /\ n \in Nat /\ done \in {0, 1} /\ t \in Nat \ {0} /\ k \in Nat /\ k <= n
    BY <1>2, <2>1
  <2>3. CASE k < n
    <3>1. /\ 1 \in 1 .. n - k /\ 0 + 1 = 1
          /\ k + 1 <= n /\ t - 1 = 0 + (n - (k + 1)) + done
          /\ \A i \in 1 .. n - (k + 1) : i \in 1 .. t - 1 /\ i + 1 \in 1 .. n - k /\ 0 + (i + 1) = i + 1 /\ 0 + i = i /\ k + (i + 1) = (k + 1) + i
          /\ done = 1 => t - 1 \in 1 .. t - 1 /\ (t - 1) + 1 = t
      BY ONLY <2>2, <2>3, SMT
    <3>2. toD[1] = Msg("DATA", f, Content[f][k + 1])
      BY <2>1, <3>1
    <3>3. \A i \in 1 .. n - (k + 1) : toD'[0 + i] = Msg("DATA", f, Content[f][(k + 1) + i])
      <4>1. ASSUME NEW i \in 1 .. n - (k + 1) PROVE toD'[0 + i] = Msg("DATA", f, Content[f][(k + 1) + i])
        <5>1. /\ i \in 1 .. t - 1 /\ i + 1 \in 1 .. n - k /\ 0 + (i + 1) = i + 1 /\ 0 + i = i
              /\ k + (i + 1) = (k + 1) + i
          BY <3>1
        <5>2. toD'[i] = toD[i + 1]
          BY <1>2, <5>1
        <5>3. toD[0 + (i + 1)] = Msg("DATA", f, Content[f][k + (i + 1)])
          BY <2>1, <5>1
        <5> QED BY ONLY <5>1, <5>2, <5>3
      <4> QED BY <4>1
    <3>4. done = 1 => toD'[Len(toD')] = Msg("DONE", f, 1)
      BY <1>2, <2>1, <3>1
    <3>5. OnTheWay(f, 0, k + 1, n, done)'
      BY <1>2, <3>1, <3>3, <3>4 DEF OnTheWay
    <3> QED BY <2>3, <3>2, <3>5
  <2>4. CASE ~(k < n)
    <3>1. k = n /\ done = 1 /\ t = 1 /\ t - 1 = 0
      BY ONLY <2>2, <2>4, SMT
    <3> QED BY <1>2, <1>3, <2>1, <3>1, SeqFacts
  <2> QED BY <2>3, <2>4
<1> QED
  BY <1>4, <1>5

(* A step that leaves the client where it is in the file it sends.         *)
LEMMA SendingKept ==
  ASSUME Sending, UNCHANGED <<pc, todo, left, unread>>, NEW f, NEW n, NEW done, SendsOf(f, n, done),
         Offered(f, n, done)' \/ Storing(f, n, done)' \/ Skipping(f, done)' \/ Answered(f, n, done)'
  PROVE  Sending'
<1>1. /\ Head(todo') = f /\ Len(Content[f]) - Len(left') = n /\ (IF pc' = "send_status" THEN 1 ELSE 0) = done
  BY DEF SendsOf
<1>2. Suffix(left', Content[f]) /\ (pc' # "send_data" => left' = << >> \/ f \in unread')
  BY <1>1 DEF Sending
<1> QED
  BY <1>1, <1>2 DEF Sending


(* The types after a request is taken.                                     *)
LEMMA ConsumedTypes ==
  ASSUME ConnTypes, Host, Consume, fromD' = fromD \/ \E m : Answer(m)
  PROVE  ConnTypes'
<1>1. cmd' = cmd /\ link' = link
  BY DEF Host
<1>2. IsSeq(toD') /\ Len(toD') <= Cap /\ \A i \in 1 .. Len(toD') : IsRequest(toD[i])'
  BY <1>1, Consumed
<1>3. IsSeq(fromD') /\ Len(fromD') <= Cap
  <2>1. CASE fromD' = fromD
    BY <2>1 DEF ConnTypes
  <2>2. CASE \E m : Answer(m)
    BY <2>2, Replied
  <2> QED BY <2>1, <2>2
<1> QED
  BY <1>1, <1>2, <1>3 DEF ConnTypes

(* The types after the service turns to a file, or is at rest.             *)
LEMMA ServiceTurns ==
  ASSUME DmnTypes, refused' = refused
  PROVE  /\ \A d \in {"SEND", "skip"} : \A f \in Files :
              dmn' = [does |-> d, file |-> f, rest |-> << >>] =>
                DmnTypes' /\ dmn'.does = d /\ dmn'.file = f /\ Doing(d)'
         /\ dmn' = Idle => DmnTypes'
<1>1. ASSUME NEW d \in {"SEND", "skip"}, NEW f \in Files, dmn' = [does |-> d, file |-> f, rest |-> << >>]
      PROVE  DmnTypes' /\ dmn'.does = d /\ dmn'.file = f /\ Doing(d)'
  <2>1. dmn'.does = d /\ dmn'.file = f /\ dmn'.rest = << >>
    BY ONLY <1>1, SMT
  <2>2. Doing(d)' /\ Doing(dmn.does)'
    BY <1>1, <2>1 DEF Doing
  <2> QED BY <1>1, <2>1, <2>2, EmptyFacts DEF DmnTypes
<1>2. ASSUME dmn' = Idle PROVE DmnTypes'
  <2>1. dmn' = [does |-> "idle", file |-> None, rest |-> << >>]
    BY <1>2 DEF Idle
  <2> QED BY <1>2, <2>1, IdleFields, EmptyFacts DEF DmnTypes, Doing
<1> QED
  BY <1>1, <1>2

(* What is sent of a file is ID_DATA, and at the end ID_DONE.              *)
LEMMA WayIds ==
  ASSUME NEW f, NEW k \in Nat, NEW n \in Nat, NEW done \in {0, 1}, OnTheWay(f, 0, k, n, done)'
  PROVE  /\ Len(toD') >= done
         /\ \A i \in 1 .. Len(toD') : toD'[i].id = IF done = 1 /\ i = Len(toD') THEN "DONE" ELSE "DATA"
<1>1. PICK t : t = Len(toD')
  OBVIOUS
<1>2. /\ k <= n /\ t = 0 + (n - k) + done /\ \A i \in 1 .. n - k : toD'[0 + i] = Msg("DATA", f, Content[f][k + i])
      /\ done = 1 => toD'[t] = Msg("DONE", f, 1)
  BY <1>1 DEF OnTheWay
<1>3. t = 0 + (n - k) + done /\ k <= n
  BY <1>2
<1>4. /\ t >= done
      /\ \A i \in 1 .. t : \/ i \in 1 .. n - k /\ 0 + i = i /\ ~(done = 1 /\ i = t)
                           \/ done = 1 /\ i = t
  BY ONLY <1>3, k \in Nat, n \in Nat, done \in {0, 1}, SMT
<1>5. ASSUME NEW i \in 1 .. t PROVE toD'[i].id = IF done = 1 /\ i = t THEN "DONE" ELSE "DATA"
  <2>1. CASE i \in 1 .. n - k /\ 0 + i = i /\ ~(done = 1 /\ i = t)
    <3>1. toD'[i] = Msg("DATA", f, Content[f][k + i])
      BY <1>2, <2>1
    <3>2. toD'[i].id = "DATA"
      BY ONLY <3>1, MsgFields
    <3> QED BY <2>1, <3>2
  <2>2. CASE done = 1 /\ i = t
    <3>1. toD'[i] = Msg("DONE", f, 1)
      BY <1>2, <2>2
    <3>2. toD'[i].id = "DONE"
      BY ONLY <3>1, MsgFields
    <3> QED BY <2>2, <3>2
  <2> QED BY <1>4, <2>1, <2>2
<1> QED
  BY <1>1, <1>4, <1>5

(* What the service does with the next message of the file that is sent.   *)
LEMMA NextToStore ==
  ASSUME IInv, Consume,
         (dmn = Idle /\ Request.id = "SEND") \/ (dmn.does = "SEND" /\ Request.id \in {"DATA", "DONE"})
  PROVE  /\ pc \in {"send_data", "send_done", "send_status"} /\ Sending
         /\ \E f, n, done : /\ SendsOf(f, n, done) /\ n \in Nat /\ done \in {0, 1} /\ Request.file = f /\ fromD = << >>
              /\ \/ /\ dmn = Idle /\ Request.id = "SEND" /\ OnTheWay(f, 0, 0, n, done)'
                 \/ /\ dmn.does = "SEND" /\ dmn.file = f /\ Storing(f, n, done)
                    /\ \E k \in Nat :
                         /\ k = Len(dst[f].data)
                         /\ \/ /\ k < n /\ Request.id = "DATA" /\ Request.x = Content[f][k + 1]
                               /\ OnTheWay(f, 0, k + 1, n, done)'
                            \/ k = n /\ done = 1 /\ Request.id = "DONE" /\ Request.x = 1 /\ toD' = << >>
<1>1. Types /\ ConnTypes /\ link /\ toD # << >> /\ IsSeq(toD) /\ Request = toD[1] /\ toD' = Tail(toD)
  BY Tailed DEF IInv, Types, ConnTypes, Consume, Request
<1>2. CASE dmn = Idle /\ Request.id = "SEND"
  <2>1. /\ pc \in {"send_data", "send_done", "send_status"} /\ Sending
        /\ \E f, n, done : SendsOf(f, n, done) /\ Offered(f, n, done)
    BY <1>1, <1>2, RequestPhase
  <2>2. PICK f, n, done : SendsOf(f, n, done) /\ Offered(f, n, done)
    BY <2>1
  <2>3. n \in Nat /\ done \in {0, 1}
    BY <2>2 DEF SendsOf
  <2>4. OnTheWay(f, 1, 0, n, done) /\ toD[1] = Msg("SEND", f, None) /\ fromD = << >>
    BY <2>2 DEF Offered
  <2>5. OnTheWay(f, 0, 0, n, done)'
    BY ONLY <1>1, <2>3, <2>4, LessOnTheWay
  <2>6. Request.file = f
    BY ONLY <1>1, <2>4, MsgFields
  <2> QED BY <1>2, <2>1, <2>2, <2>3, <2>4, <2>5, <2>6
<1>3. CASE dmn.does = "SEND" /\ Request.id \in {"DATA", "DONE"}
  <2>1. /\ pc \in {"send_data", "send_done", "send_status"} /\ Sending
        /\ \E f, n, done : SendsOf(f, n, done) /\ Storing(f, n, done)
    BY <1>1, <1>3, WorkPhase
  <2>2. PICK f, n, done : SendsOf(f, n, done) /\ Storing(f, n, done)
    BY <2>1
  <2>3. n \in Nat /\ done \in {0, 1}
    BY <2>2 DEF SendsOf
  <2>4. PICK k \in Nat : k = Len(dst[f].data)
    BY <2>2, SeqFacts DEF Storing
  <2>5. OnTheWay(f, 0, k, n, done) /\ dmn.file = f /\ fromD = << >>
    BY <2>2, <2>4 DEF Storing
  <2>6. \/ k < n /\ toD[1] = Msg("DATA", f, Content[f][k + 1]) /\ OnTheWay(f, 0, k + 1, n, done)'
        \/ k = n /\ done = 1 /\ toD[1] = Msg("DONE", f, 1) /\ toD' = << >>
    <3>1. IsSeq(toD) /\ toD # << >> /\ toD' = Tail(toD)
      BY <1>1
    <3>2. \A j \in Nat : OnTheWay(f, 0, j, n, done) =>
            \/ j < n /\ toD[1] = Msg("DATA", f, Content[f][j + 1]) /\ OnTheWay(f, 0, j + 1, n, done)'
            \/ j = n /\ done = 1 /\ toD[1] = Msg("DONE", f, 1) /\ toD' = << >>
      BY ONLY <2>3, <3>1, LessOnTheWay
    <3> QED BY ONLY <2>4, <2>5, <3>2
  <2>7. /\ Request.file = f
        /\ \/ /\ k < n /\ Request.id = "DATA" /\ Request.x = Content[f][k + 1]
              /\ OnTheWay(f, 0, k + 1, n, done)'
           \/ k = n /\ done = 1 /\ Request.id = "DONE" /\ Request.x = 1 /\ toD' = << >>
    BY ONLY <1>1, <2>6, MsgFields
  <2> QED BY <1>3, <2>1, <2>2, <2>3, <2>4, <2>5, <2>7
<1> QED
  BY <1>2, <1>3


(* d_store.                                                                *)
LEMMA DStoreStep ==
  ASSUME IInv, d_store
  PROVE  IInv'
<1>1. /\ Consume /\ Host /\ link /\ UNCHANGED <<fromD, refused>> /\ ConnTypes /\ DmnTypes
      /\ dmn' = [does |-> "SEND", file |-> Request.file, rest |-> << >>]
      /\ (dmn = Idle /\ Request.id = "SEND") \/ (dmn.does = "SEND" /\ Request.id = "DATA")
  BY DEF d_store, Consume, IInv, Types
<1>2. pc \in {"send_data", "send_done", "send_status"} /\ Sending
  BY <1>1, NextToStore
<1>3. PICK f, n, done :
        /\ SendsOf(f, n, done) /\ n \in Nat /\ done \in {0, 1} /\ Request.file = f /\ fromD = << >>
        /\ \/ /\ dmn = Idle /\ Request.id = "SEND" /\ OnTheWay(f, 0, 0, n, done)'
           \/ /\ dmn.does = "SEND" /\ dmn.file = f /\ Storing(f, n, done)
              /\ \E k \in Nat :
                   /\ k = Len(dst[f].data)
                   /\ \/ /\ k < n /\ Request.id = "DATA" /\ Request.x = Content[f][k + 1]
                         /\ OnTheWay(f, 0, k + 1, n, done)'
                      \/ k = n /\ done = 1 /\ Request.id = "DONE" /\ Request.x = 1 /\ toD' = << >>
  BY <1>1, NextToStore
<1>4. f \in Files /\ IsSeq(Content[f]) /\ ConnTypes'
  BY <1>1, <1>3, ContentIsSeq, ConsumedTypes DEF SendsOf
<1>5. DmnTypes' /\ Doing("SEND")' /\ dmn'.file = f
  BY <1>1, <1>3, <1>4, ServiceTurns
<1>6. ASSUME NEW d, IsSeq(d), Prefix(d, Content[f]), dst' = [dst EXCEPT ![f] = File(d, 0)],
             OnTheWay(f, 0, Len(d), n, done)'
      PROVE  IInv'
  <2>1. PICK v : v = File(d, 0)
    OBVIOUS
  <2>2. IsCopy(f, v) /\ v.data = d /\ v = File(v.data, 0)
    BY <1>6, <2>1, CopyFacts
  <2>3. ASSUME dst'[f] = v PROVE Storing(f, n, done)'
    <3>1. dst'[f] = File(dst'[f].data, 0) /\ dst'[f].data = d
      BY <2>2, <2>3
    <3> QED BY <1>1, <1>3, <1>5, <1>6, <3>1 DEF Storing
  <2>5. DstTypes /\ dst' = [dst EXCEPT ![f] = v]
    BY <1>6, <2>1 DEF IInv, Types
  <2>6. DstTypes' /\ dst'[f] = v /\ \A h \in Files \ {f} : dst'[h] = dst[h]
    BY ONLY <1>4, <2>2, <2>5, DstSet
  <2>7. Sending' /\ UNCHANGED <<pc, link>>
    BY <1>1, <1>2, <1>3, <2>3, <2>6, SendingKept DEF Host
  <2>8. Wire'
    BY <1>1, <1>2, <2>7 DEF Wire, StatStages
  <2> QED BY <1>1, <1>2, <1>3, <1>4, <1>5, <2>6, <2>8, StoreStepKept DEF SendsOf
<1>7. CASE dmn = Idle /\ Request.id = "SEND" /\ OnTheWay(f, 0, 0, n, done)'
  <2>1. dmn.does # "SEND"
    BY <1>7, IdleFields
  <2>2. dst' = [dst EXCEPT ![f] = File(<< >>, 0)]
    BY <1>3, <2>1 DEF d_store, Empty, File
  <2>3. IsSeq(<< >>) /\ Prefix(<< >>, Content[f]) /\ Len(<< >>) = 0
    BY <1>4, EmptyFacts, SuffixEnds
  <2>4. OnTheWay(f, 0, Len(<< >>), n, done)'
    BY <1>7, <2>3
  <2> QED BY <1>6, <2>2, <2>3, <2>4
<1>8. CASE dmn.does = "SEND" /\ dmn.file = f /\ Storing(f, n, done)
  <2>1. Request.id = "DATA"
    BY <1>1, <1>8, IdleFields
  <2>2. PICK k \in Nat : k = Len(dst[f].data) /\ k < n /\ Request.x = Content[f][k + 1] /\ OnTheWay(f, 0, k + 1, n, done)'
    BY <1>3, <1>8, <2>1, IdleFields
  <2>3. PICK c, x : c = dst[f].data /\ x = Content[f][k + 1]
    OBVIOUS
  <2>4. dst[f] = File(c, 0) /\ IsSeq(c) /\ Prefix(c, Content[f]) /\ k = Len(c)
    BY <1>8, <2>2, <2>3 DEF Storing
  <2>5. Len(c) < Len(Content[f])
    <3>1. n = Len(Content[f]) - Len(left) /\ Len(left) \in Nat /\ Len(Content[f]) \in Nat
      BY <1>3, <1>4, SeqFacts DEF SendsOf, IInv, Types, ClientTypes
    <3> QED BY ONLY <2>2, <2>4, <3>1, SMT
  <2>6. Prefix(Append(c, x), Content[f]) /\ IsSeq(Append(c, x)) /\ Len(Append(c, x)) = k + 1
    <3>1. Prefix(Append(c, x), Content[f])
      BY ONLY <1>4, <2>3, <2>4, <2>5, PrefixNext
    <3> QED BY ONLY <2>4, <3>1, Appended
  <2>7. dst' = [dst EXCEPT ![f] = Extend(dst[f], x)]
    BY <1>8, <2>1, <2>2, <2>3, IdleFields DEF d_store
  <2>8. dst' = [dst EXCEPT ![f] = File(Append(c, x), 0)]
    BY <2>4, <2>7, CopyFacts
  <2> QED BY <1>6, <2>2, <2>6, <2>8
<1> QED
  BY <1>3, <1>7, <1>8

(* d_store_fails: the rest of the file is skipped.                         *)
LEMMA DStoreFailsStep ==
  ASSUME IInv, d_store_fails
  PROVE  IInv'
<1>1. /\ Consume /\ Host /\ link /\ refused' = refused /\ ConnTypes /\ DmnTypes
      /\ dmn' = [does |-> "skip", file |-> Request.file, rest |-> << >>]
      /\ (dmn = Idle /\ Request.id = "SEND") \/ (dmn.does = "SEND" /\ Request.id = "DATA")
      /\ dst' = [dst EXCEPT ![Request.file] = None] /\ Answer(Msg("FAIL", Request.file, None))
  BY DEF d_store_fails, Consume, IInv, Types
<1>2. pc \in {"send_data", "send_done", "send_status"} /\ Sending
  BY <1>1, NextToStore
<1>3. PICK f, n, done :
        /\ SendsOf(f, n, done) /\ n \in Nat /\ done \in {0, 1} /\ Request.file = f /\ fromD = << >>
        /\ \/ /\ dmn = Idle /\ Request.id = "SEND" /\ OnTheWay(f, 0, 0, n, done)'
           \/ /\ dmn.does = "SEND" /\ dmn.file = f /\ Storing(f, n, done)
              /\ \E k \in Nat :
                   /\ k = Len(dst[f].data)
                   /\ \/ /\ k < n /\ Request.id = "DATA" /\ Request.x = Content[f][k + 1]
                         /\ OnTheWay(f, 0, k + 1, n, done)'
                      \/ k = n /\ done = 1 /\ Request.id = "DONE" /\ Request.x = 1 /\ toD' = << >>
  BY <1>1, NextToStore
<1>4. PICK m : m = Msg("FAIL", f, None)
  OBVIOUS
<1>5. Answer(m) /\ f \in Files /\ ConnTypes'
  BY <1>1, <1>3, <1>4, ConsumedTypes DEF SendsOf
<1>6. DmnTypes' /\ Doing("skip")'
  BY <1>1, <1>3, <1>5, ServiceTurns
<1>7. PICK k \in Nat : OnTheWay(f, 0, k, n, done)'
  <2>1. CASE dmn = Idle
    BY <1>3, <2>1, IdleFields, ZeroOne
  <2>2. CASE dmn # Idle
    <3>1. Request.id = "DATA"
      BY <1>1, <2>2
    <3>2. \E k \in Nat : OnTheWay(f, 0, k + 1, n, done)'
      BY <1>3, <2>2, <3>1
    <3>3. \A k \in Nat : k + 1 \in Nat
      BY ONLY SMT
    <3> QED BY <3>2, <3>3
  <2> QED BY <2>1, <2>2
<1>8. /\ Len(toD') >= done
      /\ \A i \in 1 .. Len(toD') : toD'[i].id = IF done = 1 /\ i = Len(toD') THEN "DONE" ELSE "DATA"
  BY ONLY <1>3, <1>7, WayIds
<1>9. fromD' = << m >>
  BY <1>3, <1>5, OneFacts DEF Answer
<1>10. Skipping(f, done)'
  BY <1>4, <1>6, <1>8, <1>9 DEF Skipping
<1>11. DstTypes' /\ \A h \in Files \ {f} : dst'[h] = dst[h]
  <2>1. DstTypes /\ dst' = [dst EXCEPT ![f] = None]
    BY <1>1, <1>3 DEF IInv, Types
  <2> QED BY ONLY <1>5, <2>1, DstSet
<1>12. Sending' /\ UNCHANGED <<pc, link>>
  BY <1>1, <1>2, <1>3, <1>10, SendingKept DEF Host
<1>13. Wire'
  BY <1>1, <1>2, <1>12 DEF Wire, StatStages
<1> QED
  BY <1>1, <1>2, <1>3, <1>5, <1>6, <1>11, <1>13, StoreStepKept DEF SendsOf


(* d_stored: the whole of what was sent has the source's time.             *)
LEMMA DStoredStep ==
  ASSUME IInv, d_stored
  PROVE  IInv'
<1>1. /\ Consume /\ Host /\ link /\ refused' = refused /\ ConnTypes /\ DmnTypes /\ dmn' = Idle
      /\ dmn.does = "SEND" /\ Request.id = "DONE"
      /\ dst' = [dst EXCEPT ![dmn.file].time = Request.x] /\ Answer(Msg("OKAY", dmn.file, None))
  BY DEF d_stored, Consume, IInv, Types
<1>2. pc \in {"send_data", "send_done", "send_status"} /\ Sending
  BY <1>1, NextToStore
<1>3. PICK f, n, done :
        /\ SendsOf(f, n, done) /\ n \in Nat /\ fromD = << >> /\ dmn.file = f /\ Storing(f, n, done)
        /\ n = Len(dst[f].data) /\ done = 1 /\ Request.x = 1 /\ toD' = << >>
  <2>1. dmn # Idle /\ Request.id # "DATA"
    BY <1>1, IdleFields
  <2> QED BY <1>1, <2>1, NextToStore
<1>4. PICK m : m = Msg("OKAY", f, None)
  OBVIOUS
<1>5. Answer(m) /\ f \in Files /\ ConnTypes' /\ DmnTypes'
  BY <1>1, <1>3, <1>4, ConsumedTypes, ServiceTurns DEF SendsOf
<1>6. fromD' = << m >>
  BY <1>3, <1>5, OneFacts DEF Answer
<1>7. PICK c, v : c = dst[f].data /\ v = File(c, 1)
  OBVIOUS
<1>8. dst[f] = File(c, 0) /\ IsSeq(c) /\ Prefix(c, Content[f]) /\ Len(c) = n
  BY <1>3, <1>7 DEF Storing
<1>9. v.data = c /\ v.time = 1 /\ v = File(v.data, v.time) /\ [dst[f] EXCEPT !.time = 1] = v
  <2>1. dst[f] = [data |-> c, time |-> 0] /\ v = [data |-> c, time |-> 1]
    BY <1>7, <1>8 DEF File
  <2>2. v.data = c /\ v.time = 1 /\ v = [data |-> v.data, time |-> v.time] /\ [dst[f] EXCEPT !.time = 1] = v
    BY ONLY <2>1, SMT
  <2> QED BY <2>2 DEF File
<1>10. IsCopy(f, v)
  BY <1>8, <1>9 DEF IsCopy
<1>11. DstTypes' /\ dst'[f] = v /\ \A h \in Files \ {f} : dst'[h] = dst[h]
  <2>1. DstTypes /\ dst' = [dst EXCEPT ![f] = [dst[f] EXCEPT !.time = 1]]
    BY <1>1, <1>3 DEF IInv, Types
  <2>2. dst' = [dst EXCEPT ![f] = v]
    BY <1>9, <2>1
  <2> QED BY ONLY <1>5, <1>10, <2>1, <2>2, DstSet
<1>12. Answered(f, n, done)'
  <2>1. dst'[f] = File(dst'[f].data, 1) /\ IsSeq(dst'[f].data) /\ Prefix(dst'[f].data, Content[f]) /\ Len(dst'[f].data) = n
    BY <1>8, <1>9, <1>11
  <2> QED BY <1>1, <1>3, <1>4, <1>6, <2>1 DEF Answered
<1>13. Sending' /\ UNCHANGED <<pc, link>>
  BY <1>1, <1>2, <1>3, <1>12, SendingKept DEF Host
<1>14. Wire'
  BY <1>1, <1>2, <1>13 DEF Wire, StatStages
<1> QED
  BY <1>1, <1>2, <1>3, <1>5, <1>11, <1>14, StoreStepKept DEF SendsOf

(* d_skip: the rest of a file that could not be stored is thrown away.     *)
LEMMA DSkipStep ==
  ASSUME IInv, d_skip
  PROVE  IInv'
<1>1. /\ Consume /\ Host /\ link /\ link' = link /\ UNCHANGED <<fromD, refused, dst>> /\ ConnTypes /\ DmnTypes
      /\ dmn.does = "skip" /\ Request.id \in {"DATA", "DONE"} /\ dmn' = (IF Request.id = "DONE" THEN Idle ELSE dmn)
      /\ UNCHANGED <<cmd, pc, todo, left, unread>>
  BY DEF d_skip, Consume, IInv, Types, Host
<1>2. ConnTypes' /\ DmnTypes' /\ dmn'.does # "SEND"
  <2>1. ConnTypes'
    BY <1>1, ConsumedTypes
  <2>2. CASE dmn' = Idle
    BY <1>1, <2>1, <2>2, ServiceTurns, IdleFields
  <2>3. CASE dmn' = dmn
    BY <1>1, <2>1, <2>3, TypesKept DEF IInv, device
  <2> QED BY <1>1, <2>2, <2>3
<1>3. result # "success"
  BY <1>1, IdleFields, NoWorkAfterSuccess
<1>4. CASE pc = "end"
  BY <1>1, <1>2, <1>3, <1>4, ServiceAfterEnd
<1>5. ASSUME pc \in {"send_data", "send_done", "send_status"}, Sending,
             NEW f, NEW n, NEW done, SendsOf(f, n, done), Skipping(f, done)
      PROVE  IInv'
  <2>1. PICK t : t = Len(toD)
    OBVIOUS
  <2>2. /\ toD' = Tail(toD) /\ IsSeq(toD') /\ 1 \in 1 .. t /\ t \in Nat \ {0} /\ Len(toD') = t - 1 /\ Request = toD[1]
        /\ \A i \in 1 .. t - 1 : toD'[i] = toD[i + 1] /\ i + 1 \in 1 .. t
    BY <1>1, <2>1, Consumed
  <2>3. /\ Doing("skip") /\ fromD = << Msg("FAIL", f, None) >> /\ done \in {0, 1}
        /\ \A i \in 1 .. t : toD[i].id = IF done = 1 /\ i = t THEN "DONE" ELSE "DATA"
    BY <1>5, <2>1 DEF Skipping, SendsOf
  <2>4. Skipping(f, done)' \/ Answered(f, n, done)'
    <3>1. CASE Request.id = "DONE"
      <4>1. done = 1 /\ t = 1
        BY <2>2, <2>3, <3>1
      <4>2. t - 1 = 0
        BY ONLY <4>1, SMT
      <4>3. toD' = << >>
        BY <2>2, <4>2, SeqFacts
      <4> QED BY <1>1, <2>3, <3>1, <4>1, <4>3 DEF Answered
    <3>2. CASE Request.id # "DONE"
      <4>1. ~(done = 1 /\ 1 = t)
        BY <2>2, <2>3, <3>2
      <4>2. t - 1 >= done /\ \A i \in 1 .. t - 1 : i + 1 = t <=> i = t - 1
        <5>1. t \in Nat \ {0} /\ done \in {0, 1}
          BY <2>2, <2>3
        <5> QED BY ONLY <4>1, <5>1, SMT
      <4>3. ASSUME NEW i \in 1 .. t - 1 PROVE toD'[i].id = IF done = 1 /\ i = t - 1 THEN "DONE" ELSE "DATA"
        <5>1. toD'[i] = toD[i + 1] /\ i + 1 \in 1 .. t /\ (i + 1 = t <=> i = t - 1)
          BY <2>2, <4>2
        <5>2. toD[i + 1].id = IF done = 1 /\ i + 1 = t THEN "DONE" ELSE "DATA"
          BY <2>3, <5>1
        <5> QED BY ONLY <5>1, <5>2
      <4>4. Doing("skip")' /\ fromD' = << Msg("FAIL", f, None) >>
        BY <1>1, <2>3, <3>2 DEF Doing
      <4> QED BY <2>2, <4>2, <4>3, <4>4 DEF Skipping
    <3> QED BY <3>1, <3>2
  <2>5. Sending'
    BY <1>1, <1>5, <2>4, SendingKept
  <2>6. Wire' /\ Discovery'
    BY <1>1, <1>5, <2>5 DEF Wire, Discovery, StatStages, ListStages
  <2> QED BY <1>1, <1>2, <1>3, <2>6, ServiceStepKept
<1> QED
  BY <1>1, <1>4, <1>5, WorkPhase

---------------------------------------------------------------------------
(* The connection is lost: nothing of it is left.                          *)
LEMMA LostStep ==
  ASSUME IInv, Lost
  PROVE  IInv'
<1>1. /\ link' = FALSE /\ toD' = << >> /\ fromD' = << >> /\ dmn' = Idle /\ pc # "end"
      /\ UNCHANGED <<cmd, pc, todo, left, flag, dirs, unread, result, runs, refused, dst>>
      /\ Types /\ Control /\ Progress /\ SkippedIsCurrent
  BY DEF Lost, IInv
<1>2. ConnTypes'
  <2>1. 1 .. Len(toD') = {} /\ Len(<< >>) <= Cap
    <3>1. 0 <= Cap
      BY CapAssumption, SMT
    <3> QED BY <1>1, <3>1, EmptyFacts, ZeroOne
  <2> QED BY <1>1, <2>1, EmptyFacts DEF ConnTypes
<1>3. Types'
  BY <1>1, <1>2, TypesKept, ServiceTurns DEF Types
<1>4. Wire' /\ Discovery'
  BY <1>1 DEF Wire, Quiet, Discovery
<1>5. Control' /\ Progress' /\ SkippedIsCurrent'
  <2>1. Control'
    BY <1>1 DEF Control
  <2>2. Progress'
    BY <1>1 DEF Progress, Target, Copied
  <2> QED BY <1>1, <2>1, <2>2, SkippedKept
<1>6. Success'
  BY <1>1 DEF Success, Control
<1> QED
  BY <1>3, <1>4, <1>5, <1>6 DEF IInv

(* Another command starts from the copies the last one left.               *)
LEMMA AgainStep ==
  ASSUME IInv, Again
  PROVE  IInv'
<1>1. /\ cmd' \in Commands /\ pc' = "start" /\ result' = "none" /\ dst' = dst
      /\ todo' = << >> /\ left' = << >> /\ flag' = {} /\ dirs' = << >> /\ unread' = {}
      /\ toD' = << >> /\ fromD' = << >> /\ link' = TRUE /\ dmn' = Idle /\ refused' = {}
      /\ runs < MaxRuns /\ runs' = runs + 1 /\ Types
  BY DEF Again, IInv
<1>2. runs' \in 1 .. MaxRuns
  <2>1. runs \in 1 .. MaxRuns
    BY <1>1 DEF Types, ClientTypes
  <2> QED BY ONLY <1>1, <2>1, KnownCommands, SMT
<1>3. ClientTypes'
  BY <1>1, <1>2, EmptyFacts DEF ClientTypes, Stages
<1>4. ConnTypes'
  <2>1. 1 .. Len(toD') = {} /\ Len(<< >>) <= Cap
    <3>1. 0 <= Cap
      BY CapAssumption, SMT
    <3> QED BY <1>1, <3>1, EmptyFacts, ZeroOne
  <2> QED BY <1>1, <2>1, EmptyFacts DEF ConnTypes
<1>5. DmnTypes'
  <2>1. dmn' = [does |-> "idle", file |-> None, rest |-> << >>]
    BY <1>1 DEF Idle
  <2> QED BY <1>1, <2>1, IdleFields, EmptyFacts DEF DmnTypes, Doing
<1>6. Types'
  BY <1>1, <1>3, <1>4, <1>5, TypesKept DEF Types
<1>7. Wire' /\ Discovery' /\ Success' /\ SkippedIsCurrent'
  BY <1>1 DEF Wire, Quiet, Discovery, Success, SkippedIsCurrent, StatStages, ListStages
<1>8. Control' /\ Progress'
  BY <1>1, EmptyFacts DEF Control, Progress, Copying, StatStages, ListStages, SendStages, RecvStages
<1> QED
  BY <1>6, <1>7, <1>8 DEF IInv

(* Every step keeps the invariant.                                         *)
LEMMA StepIInv ==
  IInv /\ [Next]_vars => IInv'
<1> SUFFICES ASSUME IInv, [Next]_vars PROVE IInv'
  OBVIOUS
<1>1. CASE Client
  BY <1>1, IoFailsStep, BeginStep, PushNothingStep, LocalBuildListStep, StatWriteStep, StatReadStep, NextStep,
     ApkInvalidStep, SendReqStep, SendDataStep, SendEofStep, SendDoneStep, SendStatusStep, RecvReqStep,
     RecvReplyStep, ListWriteStep, ListReadStep, SyncQuitStep DEF Client
<1>2. CASE Daemon
  BY <1>2, DStatStep, DOpenStep, DNextStep, DUnreadableStep, DStoreStep, DStoreFailsStep, DStoredStep, DSkipStep
     DEF Daemon
<1>3. CASE Lost \/ Again
  BY <1>3, LostStep, AgainStep
<1>4. CASE UNCHANGED vars
  <2>1. /\ UNCHANGED <<cmd, pc, todo, left, flag, dirs, unread, result, runs>> /\ UNCHANGED <<toD, fromD, link>>
        /\ UNCHANGED <<dmn, refused>> /\ dst' = dst
    BY <1>4 DEF vars, conn, device
  <2>2. Types'
    BY <2>1, TypesKept DEF IInv, Types, conn, device
  <2>3. Control' /\ Progress' /\ Success' /\ SkippedIsCurrent'
    <3>1. Control'
      BY <2>1 DEF IInv, Control
    <3>2. Progress'
      BY <2>1 DEF IInv, Progress, Target, Copied
    <3>3. Success' /\ SkippedIsCurrent'
      BY <2>1 DEF IInv, Success, SkippedIsCurrent, Target, Copied
    <3> QED BY ONLY <3>1, <3>2, <3>3
  <2>4. Wire'
    <3>1. Quiet' <=> Quiet
      BY <2>1 DEF Quiet
    <3>2. Asked' = Asked /\ \A f : Stat(f)' = Stat(f)
      BY <2>1 DEF Asked, Stat
    <3>3. Asking => Asking'
      BY <2>1, <3>2 DEF Asking
    <3>4. \A f, h, k, n, e : OnTheWay(f, h, k, n, e) => OnTheWay(f, h, k, n, e)'
      BY <2>1, SMT DEF OnTheWay
    <3>5. \A f, n, e : Offered(f, n, e) => Offered(f, n, e)'
      BY <2>1, <3>4 DEF Offered
    <3>6. \A f, n, e : Storing(f, n, e) => Storing(f, n, e)'
      BY <2>1, <3>4 DEF Storing, Doing
    <3>7. \A f, e : Skipping(f, e) => Skipping(f, e)'
      BY <2>1, SMT DEF Skipping, Doing
    <3>8. \A f, n, e : Answered(f, n, e) => Answered(f, n, e)'
      BY <2>1 DEF Answered
    <3>9. Sending => Sending'
      BY <2>1, <3>5, <3>6, <3>7, <3>8 DEF Sending
    <3>10. \A f, g : /\ Called(f) => Called(f)'
                     /\ Served(f, g) => Served(f, g)'
                     /\ Ended(f, g) => Ended(f, g)'
      BY <2>1 DEF Called, Served, Ended, Arriving, Doing
    <3>11. Receiving => Receiving'
      BY <2>1, <3>10 DEF Receiving
    <3>12. Listing => Listing'
      BY <2>1 DEF Listing, Dents, Doing
    <3> QED BY <2>1, <3>1, <3>3, <3>9, <3>11, <3>12 DEF IInv, Wire
  <2>5. Discovery'
    <3>1. Dent' = Dent /\ Rest' = Rest /\ ToList' = ToList
      BY <2>1 DEF Dent, Rest, ToList
    <3>2. Coming' = Coming
      BY <2>1, <3>1 DEF Coming
    <3>3. Finding => Finding'
      BY <2>1, <3>1, <3>2, FindingMoved DEF Finding
    <3> QED BY <2>1, <3>3 DEF IInv, Discovery
  <2> QED BY <2>2, <2>3, <2>4, <2>5 DEF IInv
<1> QED
  BY <1>1, <1>2, <1>3, <1>4 DEF Next


---------------------------------------------------------------------------
(* From the invariant to the properties.                                   *)

IsFinal(m) == m.id \in {"STAT", "OKAY", "FAIL", "DONE"}
IsAsking(m) == m.id \in {"STAT", "SEND", "RECV", "LIST"}
AtWork == dmn.does \in {"LIST", "RECV", "SEND"}
NoFinal == \A i \in 1 .. Len(fromD) : ~IsFinal(fromD[i])
NoAsking == \A i \in 1 .. Len(toD) : ~IsAsking(toD[i])

(* One reply is owed: it is on its way, being prepared, or asked for.      *)
OneOwed ==
  \/ NoFinal /\ AtWork /\ NoAsking
  \/ /\ ~AtWork /\ NoAsking
     /\ \E k \in 1 .. Len(fromD) : \A i \in 1 .. Len(fromD) : IsFinal(fromD[i]) <=> i = k
  \/ /\ ~AtWork /\ NoFinal
     /\ \E k \in 1 .. Len(toD) : \A i \in 1 .. Len(toD) : IsAsking(toD[i]) <=> i = k

(* A connection with no message, or with one.                              *)
LEMMA OneMessage ==
  /\ toD = << >> => NoAsking
  /\ fromD = << >> => NoFinal
  /\ \A m : toD = << m >> /\ IsAsking(m) => \E k \in 1 .. Len(toD) : \A i \in 1 .. Len(toD) : IsAsking(toD[i]) <=> i = k
  /\ \A m : fromD = << m >> /\ IsFinal(m) => \E k \in 1 .. Len(fromD) : \A i \in 1 .. Len(fromD) : IsFinal(fromD[i]) <=> i = k
<1>1. toD = << >> => NoAsking
  BY EmptyFacts, ZeroOne DEF NoAsking
<1>2. fromD = << >> => NoFinal
  BY EmptyFacts, ZeroOne DEF NoFinal
<1>3. \A m : Len(<< m >>) = 1 /\ << m >>[1] = m
  BY OneFacts
<1> QED
  <2>1. ASSUME NEW m, toD = << m >>, IsAsking(m)
        PROVE  \E k \in 1 .. Len(toD) : \A i \in 1 .. Len(toD) : IsAsking(toD[i]) <=> i = k
    <3>1. Len(toD) = 1 /\ IsAsking(toD[1])
      BY <1>3, <2>1
    <3> QED BY <3>1, ZeroOne
  <2>2. ASSUME NEW m, fromD = << m >>, IsFinal(m)
        PROVE  \E k \in 1 .. Len(fromD) : \A i \in 1 .. Len(fromD) : IsFinal(fromD[i]) <=> i = k
    <3>1. Len(fromD) = 1 /\ IsFinal(fromD[1])
      BY <1>3, <2>2
    <3> QED BY <3>1, ZeroOne
  <2> QED BY <1>1, <1>2, <2>1, <2>2

(* What follows ID_SEND is no request of its own.                          *)
LEMMA WayIsData ==
  ASSUME NEW f, NEW h \in {0, 1}, NEW k \in Nat, NEW n \in Nat, NEW done \in {0, 1}, OnTheWay(f, h, k, n, done)
  PROVE  \A i \in 1 .. Len(toD) : (h = 1 /\ i = 1) \/ toD[i].id \in {"DATA", "DONE"}
<1>1. PICK t : t = Len(toD)
  OBVIOUS
<1>2. /\ k <= n /\ t = h + (n - k) + done /\ \A i \in 1 .. n - k : toD[h + i] = Msg("DATA", f, Content[f][k + i])
      /\ done = 1 => toD[t] = Msg("DONE", f, 1)
  BY <1>1 DEF OnTheWay
<1>3. t = h + (n - k) + done /\ k <= n
  BY <1>2
<1>4. \A i \in 1 .. t : \/ h = 1 /\ i = 1
                        \/ done = 1 /\ i = t
                        \/ i - h \in 1 .. n - k /\ h + (i - h) = i
  BY ONLY <1>3, h \in {0, 1}, k \in Nat, n \in Nat, done \in {0, 1}, SMT
<1>5. ASSUME NEW i \in 1 .. t, ~(h = 1 /\ i = 1) PROVE toD[i].id \in {"DATA", "DONE"}
  <2>1. toD[i] = Msg("DONE", f, 1) \/ toD[i] = Msg("DATA", f, Content[f][k + (i - h)])
    BY <1>2, <1>4, <1>5
  <2> QED BY ONLY <2>1, MsgFields
<1> QED
  BY <1>1, <1>5


(* A file that is sent is owed one answer.                                 *)
LEMMA SendingOwesOne ==
  ASSUME IInv, link, pc \in {"send_data", "send_done", "send_status"}, Sending
  PROVE  OneOwed
<1>1. Types /\ ConnTypes /\ Control /\ Wire /\ DmnTypes
  BY DEF IInv, Types
<1>2. PICK f, n, done : SendsOf(f, n, done)
  BY <1>1, SendingFacts DEF SendsOf
<1>3. n \in Nat /\ done \in {0, 1}
  BY <1>2 DEF SendsOf
<1>4. Offered(f, n, done) \/ Storing(f, n, done) \/ Skipping(f, done) \/ Answered(f, n, done)
  BY <1>2 DEF Sending, SendsOf
<1>5. CASE Offered(f, n, done)
  <2>1. dmn = Idle /\ fromD = << >> /\ OnTheWay(f, 1, 0, n, done) /\ toD[1] = Msg("SEND", f, None)
    BY <1>5 DEF Offered
  <2>2. toD[1].id = "SEND"
    BY ONLY <2>1, MsgFields
  <2>3. \A i \in 1 .. Len(toD) : i = 1 \/ toD[i].id \in {"DATA", "DONE"}
    <3>1. \A i \in 1 .. Len(toD) : (1 = 1 /\ i = 1) \/ toD[i].id \in {"DATA", "DONE"}
      BY ONLY <1>3, <2>1, 0 \in Nat, WayIsData
    <3> QED BY ONLY <3>1
  <2>4. 1 \in 1 .. Len(toD)
    <3>1. Len(toD) = 1 + (n - 0) + done
      BY <2>1 DEF OnTheWay
    <3> QED BY ONLY <1>3, <3>1, SMT
  <2>5. \A i \in 1 .. Len(toD) : IsAsking(toD[i]) <=> i = 1
    BY <2>2, <2>3 DEF IsAsking
  <2>6. ~AtWork /\ NoFinal
    BY <2>1, IdleFields, OneMessage DEF AtWork
  <2> QED BY <2>4, <2>5, <2>6 DEF OneOwed
<1>6. CASE Storing(f, n, done)
  <2>1. PICK k \in Nat : OnTheWay(f, 0, k, n, done)
    BY <1>6, SeqFacts DEF Storing
  <2>2. \A i \in 1 .. Len(toD) : toD[i].id \in {"DATA", "DONE"}
    <3>1. \A i \in 1 .. Len(toD) : (0 = 1 /\ i = 1) \/ toD[i].id \in {"DATA", "DONE"}
      BY ONLY <1>3, <2>1, WayIsData
    <3> QED BY ONLY <3>1, ZeroOne
  <2>3. NoAsking
    BY <2>2 DEF NoAsking, IsAsking
  <2>4. NoFinal /\ AtWork
    BY <1>6, OneMessage, DoingDoes DEF AtWork, Storing
  <2> QED BY <2>3, <2>4 DEF OneOwed
<1>7. CASE Skipping(f, done)
  <2>1. \A i \in 1 .. Len(toD) : toD[i].id \in {"DATA", "DONE"}
    BY <1>7 DEF Skipping
  <2>2. NoAsking /\ ~AtWork
    BY <1>7, <2>1, DoingDoes DEF NoAsking, IsAsking, Skipping, AtWork
  <2>3. PICK m : fromD = << m >> /\ m = Msg("FAIL", f, None)
    BY <1>7 DEF Skipping
  <2>4. IsFinal(m)
    <3>1. m.id = "FAIL"
      BY ONLY <2>3, MsgFields
    <3> QED BY <3>1 DEF IsFinal
  <2> QED BY <2>2, <2>3, <2>4, OneMessage DEF OneOwed
<1>8. CASE Answered(f, n, done)
  <2>1. NoAsking /\ ~AtWork
    BY <1>8, IdleFields, OneMessage DEF Answered, AtWork
  <2>2. PICK m : fromD = << m >> /\ (m = Msg("FAIL", f, None) \/ m = Msg("OKAY", f, None))
    BY <1>8 DEF Answered
  <2>3. IsFinal(m)
    <3>1. m.id \in {"FAIL", "OKAY"}
      BY ONLY <2>2, MsgFields
    <3> QED BY <3>1 DEF IsFinal
  <2> QED BY <2>1, <2>2, <2>3, OneMessage DEF OneOwed
<1> QED
  BY <1>4, <1>5, <1>6, <1>7, <1>8

(* The last of several replies is the final one.                           *)
LEMMA LastIsFinal ==
  ASSUME ConnTypes, fromD # << >>, \A i \in 1 .. Len(fromD) - 1 : ~IsFinal(fromD[i]), IsFinal(fromD[Len(fromD)])
  PROVE  \E k \in 1 .. Len(fromD) : \A i \in 1 .. Len(fromD) : IsFinal(fromD[i]) <=> i = k
<1>1. PICK l : l = Len(fromD)
  OBVIOUS
<1>2. l \in Nat \ {0}
  BY <1>1, Tailed DEF ConnTypes
<1>3. l \in 1 .. l /\ \A i \in 1 .. l : i = l \/ i \in 1 .. l - 1
  BY ONLY <1>2, SMT
<1> QED
  BY <1>1, <1>3

(* A file that is received is owed one end.                                *)
LEMMA ReceivingOwesOne ==
  ASSUME IInv, link, pc \in {"recv_first", "recv_data"}, Receiving
  PROVE  OneOwed
<1>1. ConnTypes
  BY DEF IInv, Types
<1>2. PICK f, g : Called(f) \/ Served(f, g) \/ Ended(f, g)
  BY DEF Receiving
<1>3. CASE Called(f)
  <2>1. PICK m : toD = << m >> /\ m = Msg("RECV", f, None)
    BY <1>3 DEF Called
  <2>2. IsAsking(m) /\ NoFinal /\ ~AtWork
    <3>1. m.id = "RECV"
      BY ONLY <2>1, MsgFields
    <3> QED BY <1>3, <3>1, IdleFields, OneMessage DEF Called, IsAsking, AtWork
  <2> QED BY <2>1, <2>2, OneMessage DEF OneOwed
<1>4. CASE Served(f, g)
  <2>1. NoAsking /\ AtWork
    BY <1>4, DoingDoes, OneMessage DEF Served, AtWork
  <2>2. \A i \in 1 .. Len(fromD) : fromD[i] = Msg("DATA", f, Content[f][g + i])
    BY <1>4 DEF Served, Arriving
  <2>3. \A i \in 1 .. Len(fromD) : fromD[i].id = "DATA"
    BY ONLY <2>2, MsgFields
  <2>4. NoFinal
    BY <2>3 DEF NoFinal, IsFinal
  <2> QED BY <2>1, <2>4 DEF OneOwed
<1>5. CASE Ended(f, g)
  <2>1. NoAsking /\ ~AtWork /\ fromD # << >>
    BY <1>5, IdleFields, OneMessage DEF Ended, AtWork
  <2>2. \A i \in 1 .. Len(fromD) - 1 : fromD[i] = Msg("DATA", f, Content[f][g + i])
    BY <1>5 DEF Ended, Arriving
  <2>3. \A i \in 1 .. Len(fromD) - 1 : fromD[i].id = "DATA"
    BY ONLY <2>2, MsgFields
  <2>4. fromD[Len(fromD)] = Msg("DONE", f, None) \/ fromD[Len(fromD)] = Msg("FAIL", f, None)
    BY <1>5 DEF Ended
  <2>5. fromD[Len(fromD)].id \in {"DONE", "FAIL"}
    BY ONLY <2>4, MsgFields
  <2>6. \E k \in 1 .. Len(fromD) : \A i \in 1 .. Len(fromD) : IsFinal(fromD[i]) <=> i = k
    BY <1>1, <2>1, <2>3, <2>5, LastIsFinal DEF IsFinal
  <2> QED BY <2>1, <2>6 DEF OneOwed
<1> QED
  BY <1>2, <1>3, <1>4, <1>5

(* A directory that is listed is owed one end.                             *)
LEMMA ListingOwesOne ==
  ASSUME IInv, link, pc = "list_read", Listing
  PROVE  OneOwed
<1>1. ConnTypes
  BY DEF IInv, Types
<1>2. \A k : Dents(k) => \A i \in 1 .. k : fromD[i].id = "DENT"
  <2>1. ASSUME NEW k, Dents(k), NEW i \in 1 .. k PROVE fromD[i].id = "DENT"
    <3>1. fromD[i] = Msg("DENT", fromD[i].file, None)
      BY <2>1 DEF Dents
    <3> QED BY ONLY <3>1, MsgFields
  <2> QED BY <2>1
<1>3. CASE dmn = Idle /\ fromD = << >> /\ \E d \in Dirs : toD = << Msg("LIST", d, None) >>
  <2>1. PICK d, m : toD = << m >> /\ m = Msg("LIST", d, None)
    BY <1>3
  <2>2. IsAsking(m) /\ NoFinal /\ ~AtWork
    <3>1. m.id = "LIST"
      BY ONLY <2>1, MsgFields
    <3> QED BY <1>3, <3>1, IdleFields, OneMessage DEF IsAsking, AtWork
  <2> QED BY <2>1, <2>2, OneMessage DEF OneOwed
<1>4. CASE Doing("LIST") /\ toD = << >> /\ Dents(Len(fromD))
  <2>1. NoAsking /\ AtWork
    BY <1>4, DoingDoes, OneMessage DEF AtWork
  <2>2. NoFinal
    BY <1>2, <1>4 DEF NoFinal, IsFinal
  <2> QED BY <2>1, <2>2 DEF OneOwed
<1>5. CASE dmn = Idle /\ toD = << >> /\ fromD # << >> /\ Dents(Len(fromD) - 1) /\ fromD[Len(fromD)].id = "DONE"
  <2>1. NoAsking /\ ~AtWork
    BY <1>5, IdleFields, OneMessage DEF AtWork
  <2>2. \E k \in 1 .. Len(fromD) : \A i \in 1 .. Len(fromD) : IsFinal(fromD[i]) <=> i = k
    BY <1>1, <1>2, <1>5, LastIsFinal DEF IsFinal
  <2> QED BY <2>1, <2>2 DEF OneOwed
<1> QED
  BY <1>3, <1>4, <1>5 DEF Listing


Finite == INSTANCE FiniteSetTheorems

(* The library's facts are about this module's Cardinality.                *)
LEMMA SameCardinality ==
  ASSUME NEW S
  PROVE  Cardinality(S) = Finite!Cardinality(S)
BY DEF Cardinality, Finite!Cardinality

(* What Owed counts: nothing, one reply, or all messages.                  *)
LEMMA OwedCounts ==
  ASSUME ConnTypes
  PROVE  /\ NoFinal /\ ~AtWork /\ NoAsking => Owed = 0
         /\ OneOwed => Owed = 1
         /\ ~AtWork /\ (\A i \in 1 .. Len(fromD) : IsFinal(fromD[i])) /\ (\A i \in 1 .. Len(toD) : IsAsking(toD[i])) =>
              Owed = Len(fromD) + Len(toD)
<1>1. PICK F, T, a, b :
        /\ F = {i \in 1 .. Len(fromD) : IsFinal(fromD[i])} /\ T = {i \in 1 .. Len(toD) : IsAsking(toD[i])}
        /\ a = Len(fromD) /\ b = Len(toD)
  OBVIOUS
<1>2. a \in Nat /\ b \in Nat /\ DOMAIN fromD = 1 .. a /\ DOMAIN toD = 1 .. b
  BY <1>1, SeqFacts DEF ConnTypes
<1>3. Owed = Cardinality(F) + (IF AtWork THEN 1 ELSE 0) + Cardinality(T)
  BY <1>1, <1>2 DEF Owed, IsFinal, IsAsking, AtWork
<1>4. Cardinality({}) = 0 /\ \A k : Cardinality({k}) = 1
  BY SameCardinality, Finite!FS_EmptySet, Finite!FS_Singleton
<1>5. Cardinality(1 .. a) = a /\ Cardinality(1 .. b) = b
  <2>1. \A c \in Nat : Cardinality(1 .. c) = IF 1 > c THEN 0 ELSE c - 1 + 1
    <3>1. 1 \in Int /\ \A c \in Nat : c \in Int
      BY ONLY SMT
    <3> QED BY <3>1, SameCardinality, Finite!FS_Interval
  <2>2. \A c \in Nat : (IF 1 > c THEN 0 ELSE c - 1 + 1) = c
    BY ONLY SMT
  <2> QED BY <1>2, <2>1, <2>2
<1>6. 0 + 0 + 0 = 0 /\ 0 + 1 + 0 = 1 /\ 1 + 0 + 0 = 1 /\ 0 + 0 + 1 = 1 /\ a + 0 + b = a + b
  BY ONLY <1>2, SMT
<1>7. ASSUME NoFinal, ~AtWork, NoAsking PROVE Owed = 0
  <2>1. F = {} /\ T = {}
    BY <1>1, <1>7 DEF NoFinal, NoAsking
  <2> QED BY <1>3, <1>4, <1>6, <1>7, <2>1
<1>8. ASSUME NoFinal, AtWork, NoAsking PROVE Owed = 1
  <2>1. F = {} /\ T = {}
    BY <1>1, <1>8 DEF NoFinal, NoAsking
  <2> QED BY <1>3, <1>4, <1>6, <1>8, <2>1
<1>9. ASSUME ~AtWork, NoAsking, NEW k \in 1 .. Len(fromD), \A i \in 1 .. Len(fromD) : IsFinal(fromD[i]) <=> i = k PROVE Owed = 1
  <2>1. F = {k} /\ T = {}
    BY <1>1, <1>9 DEF NoAsking
  <2> QED BY <1>3, <1>4, <1>6, <1>9, <2>1
<1>10. ASSUME ~AtWork, NoFinal, NEW k \in 1 .. Len(toD), \A i \in 1 .. Len(toD) : IsAsking(toD[i]) <=> i = k PROVE Owed = 1
  <2>1. F = {} /\ T = {k}
    BY <1>1, <1>10 DEF NoFinal
  <2> QED BY <1>3, <1>4, <1>6, <1>10, <2>1
<1>11. ASSUME ~AtWork, \A i \in 1 .. Len(fromD) : IsFinal(fromD[i]), \A i \in 1 .. Len(toD) : IsAsking(toD[i])
       PROVE  Owed = Len(fromD) + Len(toD)
  <2>1. F = 1 .. a /\ T = 1 .. b
    BY <1>1, <1>11
  <2> QED BY <1>1, <1>3, <1>5, <1>6, <1>11, <2>1
<1> QED
  BY <1>7, <1>8, <1>9, <1>10, <1>11 DEF OneOwed

(* The invariant implies the properties.                                   *)
LEMMA IInvImplies ==
  IInv => InStep /\ SkippedIsCurrent /\ SuccessIsCopied
<1> SUFFICES ASSUME IInv PROVE InStep /\ SuccessIsCopied
  BY DEF IInv
<1>1. Types /\ ClientTypes /\ ConnTypes /\ DmnTypes /\ DstTypes
  BY DEF IInv, Types
<1>2. TypeOK
  <2>1. \A f \in Files : dst[f] = None \/ dst[f].time \in {0, 1}
    BY <1>1 DEF DstTypes, IsCopy
  <2> QED BY <1>1, <2>1 DEF TypeOK, ClientTypes, ConnTypes, DmnTypes
<1>3. ASSUME link, pc # "end" PROVE Owed = Awaited
  <2>1. CASE pc \in {"start", "next", "send_req", "recv_req", "list_write", "quit"} /\ Quiet
    <3>1. NoFinal /\ NoAsking /\ ~AtWork
      BY <2>1, QuietFacts, OneMessage DEF Quiet, AtWork
    <3>2. Owed = 0
      BY <1>1, <3>1, OwedCounts
    <3>3. Awaited = 0
      BY <2>1, SMT DEF Awaited
    <3> QED BY <3>2, <3>3
  <2>2. CASE pc \in StatStages /\ Asking
    <3>1. /\ dmn.does = "idle"
          /\ \A i \in 1 .. Len(fromD) : fromD[i].id = "STAT"
          /\ \A i \in 1 .. Len(toD) : toD[i].id = "STAT"
      BY <1>1, <2>2, AskingFacts
    <3>2. /\ ~AtWork
          /\ \A i \in 1 .. Len(fromD) : IsFinal(fromD[i])
          /\ \A i \in 1 .. Len(toD) : IsAsking(toD[i])
      BY <3>1 DEF IsFinal, IsAsking, AtWork
    <3>3. Owed = Len(fromD) + Len(toD)
      BY <1>1, <3>2, OwedCounts
    <3>4. CASE pc = "stat_write"
      <4>1. Owed = Len(todo \o dirs) - Len(left)
        BY <2>2, <3>3, <3>4 DEF Asking, Asked
      <4>2. Awaited = Len(todo \o dirs) - Len(left)
        BY ONLY <3>4, SMT DEF Awaited
      <4> QED BY <4>1, <4>2
    <3>5. CASE pc = "stat_read"
      <4>1. Owed = Len(left) - 0
        BY <2>2, <3>3, <3>5 DEF Asking, Asked
      <4>2. Len(left) \in Nat
        BY <1>1, SeqFacts DEF ClientTypes
      <4>3. Owed = Len(left)
        BY ONLY <4>1, <4>2, SMT
      <4>4. Awaited = Len(left)
        BY ONLY <3>5, SMT DEF Awaited
      <4> QED BY <4>3, <4>4
    <3> QED BY <2>2, <3>4, <3>5 DEF StatStages
  <2>3. CASE \/ pc \in {"send_data", "send_done", "send_status"} /\ Sending
             \/ pc \in {"recv_first", "recv_data"} /\ Receiving
             \/ pc = "list_read" /\ Listing
    <3>1. Owed = 1
      BY <1>1, <1>3, <2>3, SendingOwesOne, ReceivingOwesOne, ListingOwesOne, OwedCounts
    <3>2. pc \in {"send_data", "send_done", "send_status", "recv_first", "recv_data", "list_read"}
      BY <2>3
    <3>3. Awaited = 1
      BY ONLY <3>2, SMT DEF Awaited
    <3> QED BY <3>1, <3>3
  <2> QED BY <1>3, <2>1, <2>2, <2>3, Phases
<1>4. InStep
  BY <1>2, <1>3 DEF InStep
<1>5. SuccessIsCopied
  <2>1. ASSUME result = "success", cmd \notin {"ls", "list"} PROVE \A f \in Target : Copied(f)
    BY <2>1 DEF IInv, Success
  <2>2. cmd \in {"push", "install", "pull", "pulldir", "ls", "pushdir", "sync", "list"}
    BY <1>1, CommandFacts DEF ClientTypes
  <2>3. CASE cmd \in {"ls", "list"}
    BY <2>3, SMT DEF SuccessIsCopied
  <2>4. CASE cmd \in {"pull", "pulldir"}
    <3>1. result = "success" =>
            \A f \in Target : IF f \in refused THEN dst[f] = None ELSE dst[f] # None /\ dst[f].data = Content[f]
      BY <2>1, <2>4 DEF Copied, Pulls
    <3> QED BY ONLY <2>4, <3>1, SMT DEF SuccessIsCopied, Target
  <2>5. CASE cmd \notin {"ls", "list", "pull", "pulldir"}
    <3>1. result = "success" => \A f \in Target : f \in unread \/ dst[f] = New(f)
      BY <2>1, <2>5 DEF Copied, Pulls
    <3> QED BY ONLY <2>5, <3>1, SMT DEF SuccessIsCopied, Target
  <2> QED BY <2>3, <2>4, <2>5
<1> QED
  BY <1>4, <1>5

(* The invariant holds in every reachable state.                           *)
THEOREM Invariance ==
  Spec => []IInv
<1>1. Init => IInv
  BY InitIInv
<1> QED
  BY <1>1, StepIInv, PTL DEF Spec

(* The replies of the sync service carry no name, and client and device    *)
(* stay in step all the same: at every moment the device owes exactly the  *)
(* replies that sync_readmode, sync_finish_readtime, sync_send, sync_recv  *)
(* and sync_ls will still read, whatever is refused, cut short or lost.    *)
THEOREM RepliesInStep ==
  Spec => []InStep
BY Invariance, IInvImplies, PTL

(* sync's comparison of size and time skips no file that differs from the  *)
(* source, whatever earlier commands left on the device.                   *)
THEOREM SkippedFilesAreCurrent ==
  Spec => []SkippedIsCurrent
BY Invariance, IInvImplies, PTL

(* A push, pull or sync that reports success has copied every file of the  *)
(* tree, but for the files one of the sides could not read.                *)
THEOREM SuccessMeansCopied ==
  Spec => []SuccessIsCopied
BY Invariance, IInvImplies, PTL

=============================================================================
