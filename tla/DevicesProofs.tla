---------------------------- MODULE DevicesProofs ----------------------------
(* The safety of the server's device list and of what depends on it, for   *)
(* any number of transports, forwards, connections, trackers and waiters   *)
(* (without host:disconnect, after which the list is not right).           *)
EXTENDS Devices, TLAPS

(* A leaf that names no prover is Zenon's.                                *)
USE Zenon

Messages == [action : {0, 1}, transport : Transports]

(* The types of a transport's own state.                                   *)
CoreTypes ==
  /\ life \in [Transports -> {"none", "posted", "live", "freed"}]
  /\ kind \in [Transports -> {None, "usb", "emu", "tcp"}]
  /\ connection_state \in [Transports -> {"OFFLINE", "DEVICE", "HOST", "NOPERM"}]
  /\ ref_count \in [Transports -> 0..2]
  /\ registration \in Seq(Messages)
  /\ sync \in [Transports -> {"no", "main", "input"}]
  /\ running \subseteq Transports \X {"in", "out"}
  /\ closed \cup unplugged \cup local_transports \subseteq Transports
  /\ cut = {}

One(t, which) == IF <<t, which>> \in running THEN 1 ELSE 0

(* The references of a transport are its running threads.                  *)
Refs ==
  \A t \in Transports :
    /\ ref_count[t] = One(t, "in") + One(t, "out")
    /\ life[t] # "live" \/ connection_state[t] = "NOPERM" => ref_count[t] = 0

(* What waits in the registration socket: a transport is added once, and   *)
(* removed once, when nobody refers to it.                                 *)
Queue ==
  /\ \A i, j \in DOMAIN registration : registration[i] = registration[j] => i = j
  /\ \A i \in DOMAIN registration :
       LET t == registration[i].transport
       IN  IF registration[i].action = 1 THEN life[t] = "posted"
           ELSE life[t] = "live" /\ ref_count[t] = 0 /\ connection_state[t] # "NOPERM"

States ==
  \A t \in Transports :
    /\ connection_state[t] = "NOPERM" => kind[t] = "usb" /\ life[t] # "none"
    /\ t \in unplugged => connection_state[t] = "NOPERM"

(* Where the SYNC(0,0) of a transport is.                                  *)
Syncs ==
  \A t \in Transports :
    /\ \/ life[t] \in {"none", "posted"} \/ connection_state[t] = "NOPERM"
       \/ <<t, "out">> \in running
       => sync[t] = "no"
    /\ sync[t] = "input" => connection_state[t] = "OFFLINE"
    /\ t \in closed => sync[t] = "input"

(* An emulator in the table has both its threads still to run.             *)
Table ==
  /\ \A t, u \in local_transports : Port[t] = Port[u] => t = u
  /\ \A t \in local_transports :
       /\ kind[t] = "emu"
       /\ \/ life[t] = "posted"
          \/ life[t] = "live" /\ {<<t, "in">>, <<t, "out">>} \subseteq running

Core == CoreTypes /\ Refs /\ Queue /\ States /\ Syncs /\ Table

(* The list: the links agree in both directions.                           *)
L == Listed \cup {Master}

Ring ==
  /\ next \in [Nodes -> Nodes] /\ prev \in [Nodes -> Nodes]
  /\ \A n \in L : prev[n] \in L /\ prev[next[n]] = n /\ next[prev[n]] = n

List == Ring /\ ConnectedIsListed

(* A listener is on the disconnect list of the device it is bound to.      *)
Bonds ==
  /\ fwd \in [Forwards -> Transports \cup {None}] /\ dis = fwd
  /\ conn \in [Conns -> Transports \cup {None}] /\ open \subseteq Conns
  /\ ForwardIsOnline /\ NothingLeftOpen

(* What the trackers have been sent.                                       *)
Told ==
  /\ seen = [k \in Trackers |-> seen[k]]
  /\ \A k \in Trackers : seen[k] # None =>
       seen[k] \subseteq Transports \X {"OFFLINE", "DEVICE", "HOST", "NOPERM"}
  /\ TrackersTold

Waits == wait \in [Waiters -> Transports \cup {"idle", "look", "OKAY", "FAIL"}]

(* The inductive invariant.                                                *)
IInv == Core /\ List /\ Bonds /\ Told /\ Waits

---------------------------------------------------------------------------
(* The linked list.                                                        *)

(* The links never lead out of the list.                                   *)
LEMMA NextListed ==
  ASSUME next \in [Nodes -> Nodes]
  PROVE  /\ L \subseteq Nodes
         /\ \A n \in L : next[n] \in L
         /\ \A S \in SUBSET Nodes : Master \in S /\ (\A n \in S : next[n] \in S) => L \subseteq S
<1>1. L \subseteq Nodes
  BY DEF L, Listed, Walk, Nodes
<1>2. ASSUME NEW S \in SUBSET Nodes, Master \in S, \A n \in S : next[n] \in S
      PROVE  L \subseteq S
  BY <1>2 DEF L, Listed, Walk
<1>3. ASSUME NEW n \in L, next[n] # Master PROVE next[n] \in Listed
  <2>1. next[n] \in Transports
    BY <1>1, <1>3 DEF Nodes
  <2>2. ASSUME NEW S \in SUBSET Nodes, Master \in S, \A m \in S : next[m] \in S
        PROVE  next[n] \in S
    BY <1>2, <2>2
  <2> QED BY <2>1, <2>2 DEF Listed, Walk
<1> QED
  BY <1>1, <1>2, <1>3 DEF L

(* Taking a transport off the list (registration_remove,                   *)
(* unregister_usb_transport) leaves the others on it.                      *)
LEMMA UnlinkOne ==
  ASSUME Ring, NEW t \in Listed, Unlink(t)
  PROVE  Ring' /\ Listed' = Listed \ {t}
<1> DEFINE p == prev[t]
           s == next[t]
           M == L \ {t}
<1>1. /\ next \in [Nodes -> Nodes] /\ prev \in [Nodes -> Nodes] /\ L \subseteq Nodes
      /\ \A n \in L : next[n] \in L /\ prev[n] \in L /\ prev[next[n]] = n /\ next[prev[n]] = n
  BY NextListed DEF Ring
<1>2. t \in L /\ t \in Nodes /\ t # Master /\ Master \in L
  BY <1>1, MasterIsNoTransport DEF L, Listed, Walk
<1>3. \A n \in L : next[n] = t => n = p
  BY <1>1
<1>4. s # t
  <2> SUFFICES ASSUME s = t PROVE FALSE
    OBVIOUS
  <2>1. p = t
    BY <1>1, <1>2
  <2>2. M \in SUBSET Nodes /\ Master \in M /\ \A n \in M : next[n] \in M
    BY <1>1, <1>2, <1>3, <2>1
  <2> QED BY <1>1, <1>2, <2>2, NextListed
<1>5. p # t /\ p \in M /\ s \in M
  BY <1>1, <1>2, <1>4
<1>6. /\ next' \in [Nodes -> Nodes] /\ prev' \in [Nodes -> Nodes]
      /\ next'[p] = s /\ \A n \in Nodes : n # p => next'[n] = next[n]
      /\ prev'[s] = p /\ \A n \in Nodes : n # s => prev'[n] = prev[n]
  BY <1>1, <1>2 DEF Unlink
<1>7. M \in SUBSET Nodes /\ Master \in M /\ \A n \in M : next'[n] \in M
  BY <1>1, <1>2, <1>3, <1>5, <1>6
<1>8. Listed' \subseteq M
  BY <1>7 DEF Listed, Walk
<1>9. ASSUME NEW S \in SUBSET Nodes, Master \in S, \A n \in S : next'[n] \in S PROVE M \subseteq S
  <2>1. CASE p \in S
    <3>1. S \cup {t} \in SUBSET Nodes /\ Master \in S \cup {t} /\ \A n \in S \cup {t} : next[n] \in S \cup {t}
      BY <1>1, <1>2, <1>6, <1>9, <2>1
    <3>2. L \subseteq S \cup {t}
      BY <3>1, <1>1, NextListed
    <3> QED BY <3>2
  <2>2. CASE p \notin S
    BY <1>1, <1>6, <1>9, <2>2, NextListed, SMT
  <2> QED BY <2>1, <2>2
<1>10. Listed' = Listed \ {t}
  <2>1. Listed' \subseteq Listed \ {t}
    BY <1>8, MasterIsNoTransport DEF L, Listed, Walk
  <2>2. ASSUME NEW u \in Listed, u # t PROVE u \in Listed'
    BY <2>2, <1>9 DEF L, Listed, Walk
  <2> QED BY <2>1, <2>2
<1>11. L' = M
  BY <1>2, <1>10 DEF L
<1>12. \A n \in M : prev'[n] \in M /\ prev'[next'[n]] = n /\ next'[prev'[n]] = n
  BY <1>1, <1>2, <1>3, <1>5, <1>6, SMT
<1> QED
  BY <1>6, <1>10, <1>11, <1>12 DEF Ring

(* Adding one at the end (registration_add) keeps all of it.               *)
LEMMA LinkOne ==
  ASSUME Ring, NEW t \in Transports, t \notin Listed,
         next' = [next EXCEPT ![t] = Master, ![prev[Master]] = t],
         prev' = [prev EXCEPT ![t] = prev[Master], ![Master] = t]
  PROVE  Ring' /\ Listed' = Listed \cup {t}
<1> DEFINE p == prev[Master]
           M == L \cup {t}
<1>1. /\ next \in [Nodes -> Nodes] /\ prev \in [Nodes -> Nodes] /\ L \subseteq Nodes
      /\ \A n \in L : next[n] \in L /\ prev[n] \in L /\ prev[next[n]] = n /\ next[prev[n]] = n
  BY NextListed DEF Ring
<1>2. /\ t \in Nodes /\ t # Master /\ t \notin L /\ Master \in L /\ p \in L /\ p # t
      /\ next[p] = Master
  BY <1>1, MasterIsNoTransport, SMT DEF L, Nodes
<1>3. /\ next' \in [Nodes -> Nodes] /\ prev' \in [Nodes -> Nodes]
      /\ next'[t] = Master /\ next'[p] = t /\ \A n \in Nodes \ {t, p} : next'[n] = next[n]
      /\ prev'[t] = p /\ prev'[Master] = t /\ \A n \in Nodes \ {t, Master} : prev'[n] = prev[n]
  BY <1>1, <1>2
<1>4. M \in SUBSET Nodes /\ Master \in M /\ \A n \in M : next'[n] \in M
  BY <1>1, <1>2, <1>3, SMT
<1>5. Listed' \subseteq M
  BY <1>4 DEF Listed, Walk
<1>6. ASSUME NEW S \in SUBSET Nodes, Master \in S, \A n \in S : next'[n] \in S PROVE M \subseteq S
  <2>1. S \cap L \in SUBSET Nodes /\ Master \in S \cap L /\ \A n \in S \cap L : next[n] \in S \cap L
    BY <1>1, <1>2, <1>3, <1>6, SMT
  <2>2. L \subseteq S \cap L
    BY <1>1, <2>1, NextListed
  <2> QED BY <1>2, <1>3, <1>6, <2>2, SMT
<1>7. Listed' = Listed \cup {t}
  <2>1. Listed' \subseteq Listed \cup {t}
    BY <1>5, MasterIsNoTransport DEF L, Listed, Walk
  <2>2. ASSUME NEW u \in Listed \cup {t} PROVE u \in Listed'
    BY <1>6 DEF L, Listed, Walk
  <2> QED BY <2>1, <2>2
<1>8. L' = M
  BY <1>7 DEF L
<1>9. ASSUME NEW n \in M PROVE prev'[n] \in M /\ prev'[next'[n]] = n /\ next'[prev'[n]] = n
  <2>1. CASE n = t
    BY <1>2, <1>3, <2>1
  <2>2. CASE n \in L
    <3>1. next[n] = Master => n = p
      BY <1>1, <1>2, <2>2
    <3>2. prev[n] = p => n = Master
      BY <1>1, <1>2, <2>2
    <3> QED BY <1>1, <1>2, <1>3, <2>2, <3>1, <3>2, SMT
  <2> QED BY <2>1, <2>2
<1>10. \A n \in L' : prev'[n] \in L' /\ prev'[next'[n]] = n /\ next'[prev'[n]] = n
  <2> HIDE DEF M
  <2> QED BY <1>8, <1>9
<1> QED
  BY <1>3, <1>7, <1>10 DEF Ring

---------------------------------------------------------------------------
(* The registration socket.                                                *)

(* What the registration socket holds after a write.                       *)
LEMMA QueueAppend ==
  ASSUME NEW q \in Seq(Messages), NEW m \in Messages
  PROVE  /\ Append(q, m) \in Seq(Messages) /\ DOMAIN q = 1 .. Len(q) /\ Len(q) \in Nat
         /\ DOMAIN Append(q, m) = 1 .. Len(q) + 1
         /\ \A i \in 1 .. Len(q) : Append(q, m)[i] = q[i]
         /\ Append(q, m)[Len(q) + 1] = m
  BY SMT

(* What it holds after a read.                                             *)
LEMMA QueueTail ==
  ASSUME NEW q \in Seq(Messages), q # << >>
  PROVE  /\ Tail(q) \in Seq(Messages) /\ Head(q) \in Messages /\ Head(q) = q[1]
         /\ DOMAIN q = 1 .. Len(q) /\ 1 \in DOMAIN q
         /\ \A i \in DOMAIN Tail(q) : i \in Nat /\ i + 1 \in DOMAIN q /\ Tail(q)[i] = q[i + 1]
  BY SMT

(* A message about t is added, of a kind that is not there.                *)
LEMMA Posting ==
  ASSUME CoreTypes, Queue, NEW m \in Messages, registration' = Append(registration, m),
         \A i \in DOMAIN registration : registration[i] # m,
         \A i \in DOMAIN registration :
           LET t == registration[i].transport
           IN  life'[t] = life[t] /\ ref_count'[t] = ref_count[t] /\ connection_state'[t] = connection_state[t],
         IF m.action = 1 THEN life'[m.transport] = "posted"
         ELSE /\ life'[m.transport] = "live" /\ ref_count'[m.transport] = 0
              /\ connection_state'[m.transport] # "NOPERM"
  PROVE  registration' \in Seq(Messages) /\ Queue'
<1>1. /\ registration' \in Seq(Messages) /\ DOMAIN registration = 1 .. Len(registration)
      /\ Len(registration) \in Nat /\ DOMAIN registration' = 1 .. Len(registration) + 1
      /\ \A i \in 1 .. Len(registration) : registration'[i] = registration[i]
      /\ registration'[Len(registration) + 1] = m
  BY QueueAppend, SMT DEF CoreTypes
<1>2. \A i, j \in DOMAIN registration' : registration'[i] = registration'[j] => i = j
  BY <1>1, SMT DEF Queue
<1>3. ASSUME NEW i \in DOMAIN registration'
      PROVE  LET t == registration'[i].transport
             IN  IF registration'[i].action = 1 THEN life'[t] = "posted"
                 ELSE life'[t] = "live" /\ ref_count'[t] = 0 /\ connection_state'[t] # "NOPERM"
  <2>1. CASE i \in DOMAIN registration
    BY <1>1, <2>1, SMT DEF Queue
  <2>2. CASE i = Len(registration) + 1
    BY <1>1, <2>2
  <2> QED BY <1>1, <2>1, <2>2, SMT
<1> QED
  BY <1>1, <1>2, <1>3 DEF Queue

(* The head is taken, and concerns its own transport only.                 *)
LEMMA Taking ==
  ASSUME CoreTypes, Queue, registration # << >>, registration' = Tail(registration),
         NEW t, t = Head(registration).transport,
         life[t] = "posted" \/ life[t] = "live",
         \A u \in Transports \ {t} : /\ life'[u] = life[u] /\ ref_count'[u] = ref_count[u]
                                     /\ connection_state'[u] = connection_state[u]
  PROVE  registration' \in Seq(Messages) /\ Queue'
<1>1. /\ registration' \in Seq(Messages) /\ Head(registration) \in Messages
      /\ Head(registration) = registration[1] /\ 1 \in DOMAIN registration
      /\ \A i \in DOMAIN registration' :
           i \in Nat /\ i + 1 \in DOMAIN registration /\ registration'[i] = registration[i + 1]
  BY QueueTail DEF CoreTypes
<1>2. \A i, j \in DOMAIN registration' : registration'[i] = registration'[j] => i = j
  BY <1>1, SMT DEF Queue
<1>3. ASSUME NEW i \in DOMAIN registration'
      PROVE  registration'[i] \in Messages /\ registration'[i].transport # t
  <2>1. registration'[i] \in Messages
    BY <1>1, SMT
  <2>2. ASSUME registration'[i].transport = t PROVE FALSE
    <3>1. registration'[i].action = registration[1].action
      BY <1>1, <2>1, <2>2, SMT DEF Queue, Messages
    <3>2. registration'[i] = registration[1]
      BY <1>1, <2>1, <2>2, <3>1, SMT DEF Messages
    <3>3. i + 1 = 1
      BY <1>1, <3>2, SMT DEF Queue
    <3> QED BY <1>1, <3>3, SMT
  <2> QED BY <2>1, <2>2
<1>4. ASSUME NEW i \in DOMAIN registration'
      PROVE  LET u == registration'[i].transport
             IN  IF registration'[i].action = 1 THEN life'[u] = "posted"
                 ELSE life'[u] = "live" /\ ref_count'[u] = 0 /\ connection_state'[u] # "NOPERM"
  BY <1>1, <1>3, SMT DEF Queue, Messages
<1> QED
  BY <1>1, <1>2, <1>4 DEF Queue

---------------------------------------------------------------------------
(* Each step keeps Core.                                                   *)

(* A transport that is posted (register_transport) keeps the core.         *)
LEMMA PostCore ==
  ASSUME Core, NEW t \in Transports, NEW k \in {"usb", "emu", "tcp"}, NEW state \in {"OFFLINE", "NOPERM"},
         Post(t, k, state), state = "NOPERM" => k = "usb",
         \/ local_transports' = local_transports
         \/ k = "emu" /\ CanTakeSlot(t) /\ local_transports' = local_transports \cup {t}
  PROVE  Core'
<1> DEFINE m == [action |-> 1, transport |-> t]
<1>1. /\ life[t] = "none" /\ life' = [life EXCEPT ![t] = "posted"]
      /\ kind' = [kind EXCEPT ![t] = k]
      /\ connection_state' = [connection_state EXCEPT ![t] = state]
      /\ registration' = Append(registration, m)
      /\ UNCHANGED <<ref_count, sync, running, closed, unplugged, cut>>
  BY DEF Post, Fresh, thread
<1>2. m \in Messages
  BY DEF Messages
<1>3. ASSUME NEW i \in DOMAIN registration
      PROVE  registration[i] \in Messages /\ registration[i].transport \in Transports
             /\ registration[i].transport # t
  <2>1. registration[i] \in Messages
    BY SMT DEF Core, CoreTypes
  <2> QED BY <1>1, <2>1 DEF Core, Queue, Messages
<1>4. registration' \in Seq(Messages) /\ Queue'
  <2>1. \A i \in DOMAIN registration : registration[i] # m
    BY <1>3, SMT
  <2>2. \A i \in DOMAIN registration :
           LET u == registration[i].transport
           IN  life'[u] = life[u] /\ ref_count'[u] = ref_count[u] /\ connection_state'[u] = connection_state[u]
    BY <1>1, <1>3 DEF Core, CoreTypes
  <2>3. m.action = 1 /\ m.transport = t /\ life'[t] = "posted"
    BY <1>1 DEF Core, CoreTypes
  <2> HIDE DEF m
  <2> QED BY <1>1, <1>2, <2>1, <2>2, <2>3, Posting DEF Core
<1>5. CoreTypes'
  BY <1>1, <1>4 DEF Core, CoreTypes
<1>6. Refs'
  BY <1>1 DEF Core, CoreTypes, Refs, One
<1>7. States' /\ Syncs'
  BY <1>1, SMT DEF Core, CoreTypes, States, Syncs
<1>8. Table'
  <2>1. Table /\ local_transports \subseteq Transports
    BY DEF Core, CoreTypes
  <2>2. t \notin local_transports
    BY <1>1, <2>1 DEF Table
  <2>3. ASSUME NEW u \in local_transports
        PROVE  u # t /\ kind'[u] = kind[u] /\ life'[u] = life[u]
    BY <1>1, <2>1, <2>2 DEF Core, CoreTypes
  <2>4. CASE local_transports' = local_transports
    BY <1>1, <2>1, <2>3, <2>4 DEF Table
  <2>5. CASE k = "emu" /\ CanTakeSlot(t) /\ local_transports' = local_transports \cup {t}
    <3>1. life'[t] = "posted" /\ kind'[t] = "emu"
      BY <1>1, <2>5 DEF Core, CoreTypes
    <3>2. \A u, v \in local_transports' : Port[u] = Port[v] => u = v
      BY <2>1, <2>5 DEF Table, CanTakeSlot
    <3>3. ASSUME NEW u \in local_transports'
          PROVE  /\ kind'[u] = "emu"
                 /\ \/ life'[u] = "posted"
                    \/ life'[u] = "live" /\ {<<u, "in">>, <<u, "out">>} \subseteq running'
      <4>1. CASE u = t
        BY <3>1, <4>1
      <4>2. CASE u \in local_transports
        BY <1>1, <2>1, <2>3, <4>2 DEF Table
      <4> QED BY <2>5, <4>1, <4>2
    <3> QED BY <3>2, <3>3 DEF Table
  <2> QED BY <2>4, <2>5
<1> QED
  BY <1>4, <1>5, <1>6, <1>7, <1>8 DEF Core

(* So does the registration of one,                                        *)
LEMMA AddCore ==
  ASSUME Core, registration_add
  PROVE  Core'
<1>0. PICK t \in Transports : t = Head(registration).transport
  BY QueueTail DEF registration_add, Core, CoreTypes, Messages
<1> DEFINE threads == connection_state[t] # "NOPERM"
<1>1. /\ registration # <<>> /\ Head(registration).action = 1
      /\ life' = [life EXCEPT ![t] = "live"]
      /\ ref_count' = [ref_count EXCEPT ![t] = IF threads THEN InitialRefs ELSE @]
      /\ running' = IF threads THEN running \cup {<<t, "in">>, <<t, "out">>} ELSE running
      /\ registration' = Tail(registration)
      /\ UNCHANGED <<connection_state, kind, sync, closed, unplugged, cut, local_transports>>
  BY <1>0 DEF registration_add
<1>2. life[t] = "posted" /\ ref_count[t] = 0
  BY <1>0, <1>1, QueueTail, SMT DEF Core, CoreTypes, Queue, Messages, Refs
<1>3. registration' \in Seq(Messages) /\ Queue'
  BY <1>0, <1>1, <1>2, Taking DEF Core, CoreTypes
<1>4. CoreTypes'
  BY <1>1, <1>2, <1>3, SMT DEF Core, CoreTypes, InitialRefs
<1>5. Refs'
  <2>1. <<t, "in">> \notin running /\ <<t, "out">> \notin running
    BY <1>2, SMT DEF Core, Refs, One
  <2>2. ASSUME NEW u \in Transports, u # t PROVE One(u, "in")' = One(u, "in") /\ One(u, "out")' = One(u, "out")
    BY <1>1, <2>2 DEF One
  <2>3. One(t, "in")' + One(t, "out")' = IF threads THEN 2 ELSE 0
    <3>1. CASE threads
      BY <1>1, <3>1, SMT DEF One
    <3>2. CASE ~threads
      BY <1>1, <2>1, <3>2, SMT DEF One
    <3> QED BY <3>1, <3>2
  <2>4. ref_count'[t] = IF threads THEN 2 ELSE 0
    BY <1>1, <1>2 DEF Core, CoreTypes, InitialRefs
  <2>5. ASSUME NEW u \in Transports
        PROVE  /\ ref_count'[u] = One(u, "in")' + One(u, "out")'
               /\ life'[u] # "live" \/ connection_state'[u] = "NOPERM" => ref_count'[u] = 0
    <3>1. CASE u = t
      BY <1>1, <1>2, <2>3, <2>4, <3>1 DEF Core, CoreTypes, One
    <3>2. CASE u # t
      BY <1>1, <1>2, <2>2, <3>2 DEF Core, CoreTypes, Refs
    <3> QED BY <3>1, <3>2
  <2> QED BY <2>5 DEF Refs
<1>6. States' /\ Syncs'
  BY <1>1, <1>2, SMT DEF Core, CoreTypes, States, Syncs
<1>7. Table'
  BY <1>1, <1>2, SMT DEF Core, CoreTypes, States, Table
<1> QED
  BY <1>3, <1>4, <1>5, <1>6, <1>7 DEF Core

(* the removal of one,                                                     *)
LEMMA RemoveCore ==
  ASSUME Core, registration_remove
  PROVE  Core'
<1>0. PICK t \in Transports : t = Head(registration).transport
  BY QueueTail DEF registration_remove, Core, CoreTypes, Messages
<1>1. /\ registration # <<>> /\ Head(registration).action = 0
      /\ life' = [life EXCEPT ![t] = "freed"]
      /\ registration' = Tail(registration)
      /\ UNCHANGED <<connection_state, kind, ref_count, sync, running, closed, unplugged, cut, local_transports>>
  BY <1>0 DEF registration_remove, thread
<1>2. life[t] = "live" /\ ref_count[t] = 0 /\ connection_state[t] # "NOPERM"
  BY <1>0, <1>1, QueueTail, SMT DEF Core, CoreTypes, Queue, Messages
<1>3. registration' \in Seq(Messages) /\ Queue'
  BY <1>0, <1>1, <1>2, Taking DEF Core, CoreTypes
<1>4. CoreTypes' /\ Refs'
  BY <1>1, <1>2, <1>3 DEF Core, CoreTypes, Refs, One
<1>5. States' /\ Syncs'
  <2>1. ASSUME NEW u \in Transports
        PROVE  (life'[u] \in {"none", "posted"} => life[u] \in {"none", "posted"})
               /\ (life[u] # "none" => life'[u] # "none")
    BY <1>1 DEF Core, CoreTypes
  <2>2. States'
    BY <1>1, <2>1 DEF Core, States
  <2>3. Syncs'
    BY <1>1, <2>1 DEF Core, Syncs
  <2> QED BY <2>2, <2>3
<1>6. Table'
  <2>1. t \notin local_transports
    <3>1. One(t, "in") + One(t, "out") = 0
      BY <1>2 DEF Core, Refs
    <3>2. <<t, "in">> \notin running
      BY <3>1, SMT DEF One
    <3> QED BY <1>2, <3>2 DEF Core, Table
  <2> QED BY <1>1, <1>2, <2>1, SMT DEF Core, CoreTypes, Table
<1> QED
  BY <1>3, <1>4, <1>5, <1>6 DEF Core

(* One of a transport's two threads ends: kick and unref.                  *)
LEMMA EndCore ==
  ASSUME Core, NEW t \in Transports, NEW w \in {"in", "out"}, <<t, w>> \in running,
         running' = running \ {<<t, w>>}, Kick(t), Unref(t),
         UNCHANGED <<connection_state, closed, unplugged, cut>>,
         \/ sync' = sync
         \/ w = "out" /\ sync' = [sync EXCEPT ![t] = "main"]
  PROVE  Core'
<1> DEFINE m == [action |-> 0, transport |-> t]
<1>1. /\ local_transports' = local_transports \ {t}
      /\ ref_count' = [ref_count EXCEPT ![t] = @ - 1]
      /\ registration' = IF ref_count[t] = 1 THEN Append(registration, m) ELSE registration
      /\ UNCHANGED <<life, kind>>
  BY DEF Kick, Unref
<1>2. One(t, w) = 1
  BY DEF One
<1>3. /\ ref_count[t] \in 1..2 /\ life[t] = "live" /\ connection_state[t] # "NOPERM"
      /\ ref_count'[t] = ref_count[t] - 1
  <2>1. ref_count[t] \in 0..2 /\ ref_count[t] = One(t, "in") + One(t, "out")
    BY DEF Core, CoreTypes, Refs
  <2>2. One(t, "in") \in {0, 1} /\ One(t, "out") \in {0, 1}
    BY DEF One
  <2>3. ref_count[t] # 0
    BY <1>2, <2>1, <2>2, SMT
  <2> QED BY <1>1, <2>1, <2>3, SMT DEF Core, CoreTypes, Refs
<1>4. ASSUME NEW i \in DOMAIN registration
      PROVE  /\ registration[i] \in Messages /\ registration[i].transport \in Transports
             /\ registration[i].transport # t
  <2>1. registration[i] \in Messages
    BY SMT DEF Core, CoreTypes
  <2> QED BY <1>3, <2>1, SMT DEF Core, Queue, Messages
<1>5. registration' \in Seq(Messages) /\ Queue'
  <2>1. \A i \in DOMAIN registration :
           LET u == registration[i].transport
           IN  life'[u] = life[u] /\ ref_count'[u] = ref_count[u] /\ connection_state'[u] = connection_state[u]
    BY <1>1, <1>4 DEF Core, CoreTypes
  <2>2. CASE ref_count[t] = 1
    <3>1. m \in Messages /\ m.action = 0 /\ m.transport = t /\ \A i \in DOMAIN registration : registration[i] # m
      BY <1>4, SMT DEF Messages
    <3> HIDE DEF m
    <3> QED BY <1>1, <1>3, <2>1, <2>2, <3>1, Posting, SMT DEF Core
  <2>3. CASE ref_count[t] # 1
    <3>1. registration' = registration /\ registration \in Seq(Messages)
      BY <1>1, <2>3 DEF Core, CoreTypes
    <3>2. Queue
      BY DEF Core
    <3>3. ASSUME NEW i \in DOMAIN registration
          PROVE  LET u == registration[i].transport
                 IN  IF registration[i].action = 1 THEN life'[u] = "posted"
                     ELSE life'[u] = "live" /\ ref_count'[u] = 0 /\ connection_state'[u] # "NOPERM"
      <4>1. CASE registration[i].action = 1
        BY <2>1, <3>2, <4>1 DEF Queue
      <4>2. CASE registration[i].action # 1
        BY <2>1, <3>2, <4>2 DEF Queue
      <4> QED BY <4>1, <4>2
    <3> QED BY <3>1, <3>2, <3>3 DEF Queue
  <2> QED BY <2>2, <2>3
<1>6. CoreTypes'
  BY <1>1, <1>3, <1>5, SMT DEF Core, CoreTypes
<1>7. Refs'
  <2>1. ASSUME NEW u \in Transports, u # t PROVE One(u, "in")' = One(u, "in") /\ One(u, "out")' = One(u, "out")
    BY <2>1 DEF One
  <2>2. One(t, "in")' + One(t, "out")' = One(t, "in") + One(t, "out") - 1
    <3>1. CASE w = "in"
      BY <3>1, SMT DEF One
    <3>2. CASE w = "out"
      BY <3>2, SMT DEF One
    <3> QED BY <3>1, <3>2
  <2>3. ASSUME NEW u \in Transports
        PROVE  /\ ref_count'[u] = One(u, "in")' + One(u, "out")'
               /\ life'[u] # "live" \/ connection_state'[u] = "NOPERM" => ref_count'[u] = 0
    <3>1. CASE u = t
      BY <1>1, <1>3, <2>2, <3>1, SMT DEF Core, Refs, One
    <3>2. CASE u # t
      BY <1>1, <2>1, <3>2 DEF Core, CoreTypes, Refs
    <3> QED BY <3>1, <3>2
  <2> QED BY <2>3 DEF Refs
<1>8. States'
  BY <1>1 DEF Core, States
<1>9. Syncs'
  <2>1. w = "out" => sync[t] = "no" /\ t \notin closed
    BY DEF Core, Syncs
  <2>2. ASSUME NEW u \in Transports, u # t PROVE sync'[u] = sync[u]
    BY <2>2 DEF Core, CoreTypes
  <2>3. w = "out" => <<t, "out">> \notin running'
    OBVIOUS
  <2>4. sync'[t] = sync[t] \/ (w = "out" /\ sync'[t] = "main")
    <3>1. sync \in [Transports -> {"no", "main", "input"}]
      BY DEF Core, CoreTypes
    <3> QED BY <3>1
  <2>5. ASSUME NEW u \in Transports
        PROVE  /\ \/ life'[u] \in {"none", "posted"} \/ connection_state'[u] = "NOPERM"
                  \/ <<u, "out">> \in running'
                  => sync'[u] = "no"
               /\ sync'[u] = "input" => connection_state'[u] = "OFFLINE"
               /\ u \in closed' => sync'[u] = "input"
    <3>1. CASE u = t
      BY <1>1, <1>3, <2>1, <2>3, <2>4, <3>1 DEF Core, Syncs
    <3>2. CASE u # t
      BY <1>1, <2>2, <3>2 DEF Core, Syncs
    <3> QED BY <3>1, <3>2
  <2> QED BY <2>5 DEF Syncs
<1>10. Table'
  BY <1>1, SMT DEF Core, CoreTypes, Table
<1> QED
  BY <1>5, <1>6, <1>7, <1>8, <1>9, <1>10 DEF Core

(* A state changes by a packet of the device or its loss.                  *)
LEMMA PacketCore ==
  ASSUME Core, NEW t \in Transports, NEW state \in {"OFFLINE", "DEVICE", "HOST"}, life[t] = "live",
         connection_state' = [connection_state EXCEPT ![t] = state],
         \/ sync[t] = "no" /\ <<t, "in">> \in running /\ sync' = sync
         \/ sync[t] = "main" /\ state = "OFFLINE" /\ sync' = [sync EXCEPT ![t] = "input"],
         UNCHANGED <<struct, running, closed, unplugged, cut, local_transports>>
  PROVE  Core'
<1>1. UNCHANGED <<life, kind, ref_count, registration, running, closed, unplugged, cut, local_transports>>
  BY DEF struct
<1>2. CoreTypes'
  BY <1>1, SMT DEF Core, CoreTypes
<1>3. connection_state[t] # "NOPERM"
  <2>1. <<t, "in">> \in running => One(t, "in") = 1 /\ One(t, "out") \in {0, 1}
    BY DEF One
  <2>2. <<t, "in">> \in running => ref_count[t] # 0
    BY <2>1, SMT DEF Core, Refs
  <2> QED BY <2>2 DEF Core, Refs, Syncs
<1>4. Refs' /\ Queue' /\ States' /\ Table'
  BY <1>1, <1>3, SMT DEF Core, CoreTypes, Refs, One, Queue, States, Table, Messages
<1>5. Syncs'
  <2>1. ASSUME NEW u \in Transports
        PROVE  /\ \/ life'[u] \in {"none", "posted"} \/ connection_state'[u] = "NOPERM"
                  \/ <<u, "out">> \in running'
                  => sync'[u] = "no"
               /\ sync'[u] = "input" => connection_state'[u] = "OFFLINE"
               /\ u \in closed' => sync'[u] = "input"
    <3>1. CASE u = t
      <4>1. connection_state'[t] = state
        BY DEF Core, CoreTypes
      <4>2. CASE sync[t] = "no" /\ sync' = sync
        BY <1>1, <1>3, <3>1, <4>1, <4>2 DEF Core, Syncs
      <4>3. CASE sync[t] = "main" /\ state = "OFFLINE" /\ sync'[t] = "input"
        BY <1>1, <1>3, <3>1, <4>1, <4>3 DEF Core, Syncs
      <4> QED BY <4>2, <4>3 DEF Core, CoreTypes
    <3>2. CASE u # t
      <4>1. sync'[u] = sync[u] /\ connection_state'[u] = connection_state[u]
        BY <3>2 DEF Core, CoreTypes
      <4> QED BY <1>1, <4>1 DEF Core, Syncs
    <3> QED BY <3>1, <3>2
  <2> QED BY <2>1 DEF Syncs
<1> QED
  BY <1>2, <1>4, <1>5 DEF Core

(* close_all_sockets of its input thread,                                  *)
LEMMA CloseCore ==
  ASSUME Core, NEW t \in Transports, input_close_all(t)
  PROVE  Core' /\ sync[t] = "input"
<1>1. /\ closed' = closed \cup {t} /\ <<t, "in">> \in running
      /\ sync[t] = "input" \/ life[t] = "freed"
      /\ UNCHANGED <<life, kind, ref_count, registration, connection_state, sync, running, unplugged, cut, local_transports>>
  BY DEF input_close_all, struct
<1>2. sync[t] = "input"
  <2>1. One(t, "in") = 1 /\ One(t, "out") \in {0, 1}
    BY <1>1 DEF One
  <2> QED BY <1>1, <2>1, SMT DEF Core, Refs
<1> QED
  BY <1>1, <1>2, SMT DEF Core, CoreTypes, Refs, One, Queue, States, Syncs, Table

(* unregister_usb_transport,                                               *)
LEMMA UnplugCore ==
  ASSUME Core, NEW t \in Transports, unregister_usb_transport(t)
  PROVE  Core'
<1>1. /\ unplugged' = unplugged \cup {t} /\ connection_state[t] = "NOPERM"
      /\ UNCHANGED <<life, kind, ref_count, registration, connection_state, sync, running, closed, cut, local_transports>>
  BY DEF unregister_usb_transport, struct, thread
<1> QED
  BY <1>1, SMT DEF Core, CoreTypes, Refs, One, Queue, States, Syncs, Table

(* and a step that concerns no transport.                                  *)
LEMMA QuietCore ==
  ASSUME Core, UNCHANGED <<struct, connection_state, thread, unplugged, cut, local_transports>>
  PROVE  Core'
  BY SMT DEF Core, CoreTypes, Refs, One, Queue, States, Syncs, Table, struct, thread

(* Core is kept by every step.                                             *)
LEMMA CoreKept ==
  ASSUME Core, [Next]_vars
  PROVE  Core'
<1>1. ASSUME NEW t \in Transports, NEW writeable \in BOOLEAN, register_usb_transport(t, writeable) PROVE Core'
  <2>1. PICK state \in {"OFFLINE", "NOPERM"} : Post(t, "usb", state) /\ local_transports' = local_transports
    BY <1>1 DEF register_usb_transport
  <2>2. PICK k \in {"usb"} : Post(t, k, state)
    BY <2>1
  <2> QED BY <2>1, <2>2, PostCore
<1>2. ASSUME NEW t \in Transports, local_connect(t) \/ connect_device(t) PROVE Core'
  <2>1. PICK k \in {"emu", "tcp"}, state \in {"OFFLINE"} :
          /\ Post(t, k, state)
          /\ \/ local_transports' = local_transports
             \/ k = "emu" /\ CanTakeSlot(t) /\ local_transports' = local_transports \cup {t}
    BY <1>2 DEF local_connect, connect_device
  <2> QED BY <2>1, PostCore
<1>3. ASSUME NEW t \in Transports, output_ends(t) PROVE Core'
  <2>1. PICK w \in {"out"} : <<t, w>> \in running /\ running' = running \ {<<t, w>>}
    BY <1>3 DEF output_ends
  <2>2. sync' = sync \/ sync' = [sync EXCEPT ![t] = "main"]
    BY <1>3 DEF output_ends, Core, CoreTypes
  <2> QED BY <1>3, <2>1, <2>2, EndCore DEF output_ends
<1>4. ASSUME NEW t \in Transports, input_ends(t) PROVE Core'
  <2>1. PICK w \in {"in"} : <<t, w>> \in running /\ running' = running \ {<<t, w>>}
    BY <1>4 DEF input_ends
  <2> QED BY <1>4, <2>1, EndCore DEF input_ends
<1>5. ASSUME NEW t \in Transports, packet_offline(t) PROVE Core'
  <2>1. PICK state \in {"OFFLINE"} : connection_state' = [connection_state EXCEPT ![t] = state]
    BY <1>5 DEF packet_offline
  <2> QED BY <1>5, <2>1, PacketCore DEF packet_offline
<1>6. ASSUME NEW t \in Transports, NEW banner \in {"DEVICE", "HOST"}, packet_cnxn(t, banner) PROVE Core'
  BY <1>6, PacketCore DEF packet_cnxn, thread
<1>7. ASSUME UNCHANGED <<struct, connection_state, thread, unplugged, cut, local_transports>> PROVE Core'
  BY <1>7, QuietCore
<1>8. ASSUME NEW n \in Forwards, NEW r \in Requests, install_listener(n, r) \/ remove_listener(n, r) PROVE Core'
  BY <1>7, <1>8 DEF install_listener, remove_listener, Quiet
<1>9. ASSUME NEW n \in Forwards, NEW x \in Conns, listener_event_func(n, x) PROVE Core'
  BY <1>7, <1>9 DEF listener_event_func, Quiet
<1>10. ASSUME NEW x \in Conns, packet_okay(x) \/ socket_close(x) PROVE Core'
  BY <1>7, <1>10 DEF packet_okay, socket_close, Quiet
<1>11. ASSUME NEW k \in Trackers, create_device_tracker(k) \/ device_tracker_close(k) PROVE Core'
  BY <1>7, <1>11 DEF create_device_tracker, device_tracker_close, Quiet
<1>12. ASSUME NEW w \in Waiters, wait_for_state(w) \/ Wait(w) PROVE Core'
  BY <1>7, <1>12 DEF wait_for_state, Wait, wait_look, wait_test, Quiet
<1>13. CASE UNCHANGED vars
  BY <1>7, <1>13 DEF vars
<1>14. CASE transport_registration_func
  BY <1>14, AddCore, RemoveCore DEF transport_registration_func
<1> QED
  BY <1>1, <1>2, <1>3, <1>4, <1>5, <1>6, <1>8, <1>9, <1>10, <1>11, <1>12, <1>13, <1>14,
     CloseCore, UnplugCore DEF Next

---------------------------------------------------------------------------
(* The list is kept.                                                       *)

(* A transport that is only posted does not change the list.               *)
LEMMA ListFrame ==
  ASSUME List, UNCHANGED <<list, unplugged, cut>>,
         \A t \in Transports : life'[t] = life[t] \/ (life[t] = "none" /\ life'[t] = "posted")
  PROVE  List' /\ Listed' = Listed
<1>1. Listed' = Listed /\ L' = L
  BY DEF L, Listed, Walk, list
<1>2. Listed \subseteq Transports
  BY DEF Listed, Walk
<1> QED
  BY <1>1, <1>2 DEF List, Ring, ConnectedIsListed, list

(* Registration keeps the list right,                                      *)
LEMMA AddList ==
  ASSUME Core, List, registration_add
  PROVE  List'
<1>1. PICK t \in Transports : t = Head(registration).transport
  BY QueueTail DEF registration_add, Core, CoreTypes, Messages
<1>2. life[t] = "posted"
  BY <1>1, QueueTail, SMT DEF registration_add, Core, CoreTypes, Queue
<1>3. /\ next' = [next EXCEPT ![t] = Master, ![prev[Master]] = t]
      /\ prev' = [prev EXCEPT ![t] = prev[Master], ![Master] = t]
      /\ life' = [life EXCEPT ![t] = "live"] /\ UNCHANGED <<unplugged, cut>>
  BY <1>1 DEF registration_add
<1>4. t \notin Listed
  BY <1>2 DEF List, ConnectedIsListed
<1>5. Ring' /\ Listed' = Listed \cup {t}
  BY <1>3, <1>4, LinkOne DEF List
<1> QED
  BY <1>3, <1>5, SMT DEF List, ConnectedIsListed, Core, CoreTypes

(* and so does removal,                                                    *)
LEMMA RemoveList ==
  ASSUME Core, List, registration_remove
  PROVE  List'
<1>1. PICK t \in Transports : t = Head(registration).transport
  BY QueueTail DEF registration_remove, Core, CoreTypes, Messages
<1>2. life[t] = "live" /\ connection_state[t] # "NOPERM"
  <2>1. registration # <<>> /\ Head(registration).action = 0
    BY DEF registration_remove
  <2> QED BY <1>1, <2>1, QueueTail, SMT DEF Core, CoreTypes, Queue, Messages
<1>3. /\ Unlink(t) /\ life' = [life EXCEPT ![t] = "freed"] /\ UNCHANGED <<unplugged, cut>>
  BY <1>1 DEF registration_remove
<1>4. t \in Listed
  BY <1>2 DEF List, ConnectedIsListed, Core, CoreTypes, States
<1>5. Ring' /\ Listed' = Listed \ {t}
  BY <1>3, <1>4, UnlinkOne DEF List
<1> QED
  BY <1>3, <1>5, SMT DEF List, ConnectedIsListed, Core, CoreTypes

(* and unregister_usb_transport.                                           *)
LEMMA UnplugList ==
  ASSUME Core, List, NEW t \in Transports, unregister_usb_transport(t)
  PROVE  List' /\ Listed' \subseteq Listed
<1>1. unplugged' = unplugged \cup {t} /\ UNCHANGED <<life, cut>>
  BY DEF unregister_usb_transport, struct
<1>2. CASE t \in Listed
  <2>1. Ring' /\ Listed' = Listed \ {t}
    BY <1>2, UnlinkOne DEF List, unregister_usb_transport
  <2> QED BY <1>1, <2>1 DEF List, ConnectedIsListed
<1>3. CASE t \notin Listed
  <2>1. UNCHANGED <<next, prev>>
    BY <1>3 DEF unregister_usb_transport, list
  <2>2. Listed' = Listed /\ L' = L
    BY <2>1 DEF L, Listed, Walk
  <2> QED BY <1>1, <2>1, <2>2 DEF List, Ring, ConnectedIsListed
<1> QED
  BY <1>2, <1>3

(* Every step keeps the list right.                                        *)
LEMMA ListKept ==
  ASSUME Core, List, [Next]_vars
  PROVE  List'
<1>1. ASSUME NEW t \in Transports, NEW k, NEW state, Post(t, k, state) PROVE List'
  BY <1>1, ListFrame DEF Post, Fresh, Core, CoreTypes
<1>2. ASSUME UNCHANGED <<list, life, unplugged, cut>> PROVE List'
  BY <1>2, ListFrame
<1>3. CASE transport_registration_func
  BY <1>3, AddList, RemoveList DEF transport_registration_func
<1>4. ASSUME Quiet PROVE List'
  BY <1>2, <1>4 DEF Quiet, struct
<1>5. ASSUME NEW t \in Transports,
             \/ \E writeable \in BOOLEAN : register_usb_transport(t, writeable)
             \/ local_connect(t) \/ connect_device(t)
      PROVE  List'
  BY <1>1, <1>5 DEF register_usb_transport, local_connect, connect_device
<1>6. ASSUME NEW t \in Transports,
             \/ output_ends(t) \/ input_close_all(t) \/ input_ends(t) \/ packet_offline(t)
             \/ \E banner \in {"DEVICE", "HOST"} : packet_cnxn(t, banner)
      PROVE  List'
  BY <1>2, <1>6 DEF output_ends, input_close_all, input_ends, packet_offline, packet_cnxn, Unref, struct
<1>7. CASE UNCHANGED vars
  BY <1>2, <1>7 DEF vars, struct
<1> QED
  BY <1>3, <1>4, <1>5, <1>6, <1>7, UnplugList
     DEF Next, install_listener, remove_listener, listener_event_func, packet_okay, socket_close,
         create_device_tracker, device_tracker_close, wait_for_state, Wait, wait_look, wait_test

---------------------------------------------------------------------------
(* Forwards and connections.                                               *)

(* A device is taken only from the list, and only when it is online.       *)
LEMMA AcquireOnline ==
  ASSUME List, NEW r, NEW t \in Acquire(r)
  PROVE  t \in Transports /\ life[t] = "live" /\ connection_state[t] # "OFFLINE"
<1>1. t \in Found(r) /\ connection_state[t] # "OFFLINE"
  BY DEF Acquire
<1>2. t \in Matching(r)
  BY <1>1 DEF Found, First
<1> QED
  BY <1>1, <1>2 DEF Matching, List, ConnectedIsListed, Listed, Walk

(* Nothing online goes offline, is freed or is closed.                     *)
LEMMA BondsFrame ==
  ASSUME Bonds, UNCHANGED <<forward, closed>>,
         \A t \in Transports :
           life[t] = "live" /\ connection_state[t] # "OFFLINE"
             => life'[t] = "live" /\ connection_state'[t] # "OFFLINE"
  PROVE  Bonds'
  BY DEF Bonds, ForwardIsOnline, NothingLeftOpen, forward

(* The device of a forward may change in any way, once its disconnect list *)
(* is run.                                                                 *)
LEMMA BondsCut ==
  ASSUME Core, Bonds, NEW t \in Transports, run_transport_disconnects(t), closed' = closed,
         \A u \in Transports : u # t =>
           life'[u] = life[u] /\ connection_state'[u] = connection_state[u]
  PROVE  Bonds'
<1>1. /\ fwd' \in [Forwards -> Transports \cup {None}] /\ dis' = fwd'
      /\ conn' \in [Conns -> Transports \cup {None}] /\ open' \subseteq Conns
  BY DEF Bonds, run_transport_disconnects
<1>2. \A n \in Forwards : fwd'[n] # None => fwd'[n] = fwd[n] /\ fwd[n] # t /\ fwd[n] \in Transports
  BY DEF Bonds, run_transport_disconnects
<1>3. ForwardIsOnline'
  BY <1>2, SMT DEF Bonds, ForwardIsOnline
<1>4. None \notin closed
  BY MasterIsNoTransport DEF Core, CoreTypes
<1>5. NothingLeftOpen'
  BY <1>4 DEF Bonds, NothingLeftOpen, run_transport_disconnects
<1> QED
  BY <1>1, <1>3, <1>5 DEF Bonds

(* Every step keeps listeners and connections with live devices.           *)
LEMMA BondsKept ==
  ASSUME Core, List, Bonds, [Next]_vars
  PROVE  Bonds'
<1>1. ASSUME NEW t \in Transports, NEW k, NEW state, Post(t, k, state) PROVE Bonds'
  BY <1>1, BondsFrame DEF Post, Fresh, thread, Core, CoreTypes
<1>2. ASSUME UNCHANGED <<life, connection_state, closed, forward>> PROVE Bonds'
  BY <1>2, BondsFrame
<1>3. CASE registration_add
  <2>1. PICK t \in Transports : t = Head(registration).transport
    BY <1>3, QueueTail DEF registration_add, Core, CoreTypes, Messages
  <2> QED BY <1>3, <2>1, BondsFrame DEF registration_add, Core, CoreTypes
<1>4. CASE registration_remove
  <2>1. PICK t \in Transports : t = Head(registration).transport
    BY <1>4, QueueTail DEF registration_remove, Core, CoreTypes, Messages
  <2>2. /\ run_transport_disconnects(t) /\ life' = [life EXCEPT ![t] = "freed"]
        /\ closed' = closed /\ connection_state' = connection_state
    BY <1>4, <2>1 DEF registration_remove, thread
  <2> QED BY <2>2, BondsCut DEF Core, CoreTypes
<1>5. ASSUME NEW t \in Transports, NEW state, run_transport_disconnects(t),
             connection_state' = [connection_state EXCEPT ![t] = state],
             UNCHANGED <<life, closed>>
      PROVE  Bonds'
  BY <1>5, BondsCut DEF Core, CoreTypes
<1>6. ASSUME NEW t \in Transports, NEW banner \in {"DEVICE", "HOST"}, packet_cnxn(t, banner)
      PROVE  Bonds'
  <2>1. CASE connection_state[t] # "OFFLINE"
    BY <1>5, <1>6, <2>1 DEF packet_cnxn, struct, thread
  <2>2. CASE connection_state[t] = "OFFLINE"
    BY <1>6, <2>2, BondsFrame DEF packet_cnxn, struct, thread, Core, CoreTypes
  <2> QED BY <2>1, <2>2
<1>7. ASSUME NEW t \in Transports, input_close_all(t) PROVE Bonds'
  <2>1. sync[t] = "input"
    BY <1>7, CloseCore
  <2>2. None \notin closed \cup {t}
    BY MasterIsNoTransport DEF Core, CoreTypes
  <2>3. /\ closed' = closed \cup {t}
        /\ conn' = [x \in Conns |-> IF conn[x] = t THEN None ELSE conn[x]]
        /\ open' = {x \in open : conn[x] # t}
        /\ UNCHANGED <<life, connection_state, fwd, dis>>
    BY <1>7 DEF input_close_all, struct
  <2>4. NothingLeftOpen'
    BY <2>2, <2>3 DEF Bonds, NothingLeftOpen
  <2> QED BY <2>3, <2>4 DEF Bonds, ForwardIsOnline
<1>8. ASSUME NEW n \in Forwards, NEW r \in Requests, install_listener(n, r) PROVE Bonds'
  <2>0. PICK t \in Acquire(r) : fwd' = [fwd EXCEPT ![n] = t] /\ dis' = [dis EXCEPT ![n] = t]
    BY <1>8 DEF install_listener
  <2>1. t \in Transports /\ life[t] = "live" /\ connection_state[t] # "OFFLINE"
    BY <2>0, AcquireOnline
  <2>2. /\ fwd' = [fwd EXCEPT ![n] = t] /\ dis' = [dis EXCEPT ![n] = t]
        /\ UNCHANGED <<conn, open, life, connection_state, closed>>
    BY <1>8, <2>0 DEF install_listener, Quiet, struct, thread
  <2> QED BY <2>1, <2>2 DEF Bonds, ForwardIsOnline, NothingLeftOpen
<1>9. ASSUME NEW n \in Forwards, NEW r \in Requests, remove_listener(n, r) PROVE Bonds'
  <2>1. /\ fwd' = [fwd EXCEPT ![n] = None] /\ dis' = [dis EXCEPT ![n] = None]
        /\ UNCHANGED <<conn, open, life, connection_state, closed>>
    BY <1>9 DEF remove_listener, Quiet, struct, thread
  <2> QED BY <2>1 DEF Bonds, ForwardIsOnline, NothingLeftOpen
<1>10. ASSUME NEW n \in Forwards, NEW x \in Conns, listener_event_func(n, x) PROVE Bonds'
  <2>1. /\ fwd[n] # None /\ conn' = [conn EXCEPT ![x] = fwd[n]]
        /\ UNCHANGED <<fwd, dis, open, life, connection_state, closed>>
    BY <1>10 DEF listener_event_func, Quiet, struct, thread
  <2>2. fwd[n] \in Transports /\ fwd[n] \notin closed
    <3>1. PICK t \in Transports : t = fwd[n]
      BY <2>1 DEF Bonds
    <3>2. connection_state[t] # "OFFLINE"
      BY <2>1, <3>1 DEF Bonds, ForwardIsOnline
    <3> QED BY <3>1, <3>2 DEF Core, Syncs
  <2> QED BY <2>1, <2>2 DEF Bonds, ForwardIsOnline, NothingLeftOpen
<1>11. ASSUME NEW x \in Conns, packet_okay(x) PROVE Bonds'
  <2>1. open' = open \cup {x} /\ UNCHANGED <<fwd, dis, conn, life, connection_state, closed>>
    BY <1>11 DEF packet_okay, Quiet, struct, thread
  <2> QED BY <2>1 DEF Bonds, ForwardIsOnline, NothingLeftOpen
<1>12. ASSUME NEW x \in Conns, socket_close(x) PROVE Bonds'
  <2>1. /\ conn' = [conn EXCEPT ![x] = None] /\ open' = open \ {x}
        /\ UNCHANGED <<fwd, dis, life, connection_state, closed>>
    BY <1>12 DEF socket_close, Quiet, struct, thread
  <2>2. None \notin closed
    BY MasterIsNoTransport DEF Core, CoreTypes
  <2> QED BY <2>1, <2>2 DEF Bonds, ForwardIsOnline, NothingLeftOpen
<1>13. ASSUME Quiet, UNCHANGED forward PROVE Bonds'
  BY <1>2, <1>13 DEF Quiet, struct, thread
<1>14. ASSUME NEW t \in Transports,
              \/ \E writeable \in BOOLEAN : register_usb_transport(t, writeable)
              \/ local_connect(t) \/ connect_device(t)
       PROVE  Bonds'
  BY <1>1, <1>14 DEF register_usb_transport, local_connect, connect_device
<1>15. ASSUME NEW t \in Transports,
              \/ output_ends(t) \/ input_ends(t) \/ unregister_usb_transport(t)
       PROVE  Bonds'
  BY <1>2, <1>15 DEF output_ends, input_ends, unregister_usb_transport, Unref, struct, thread
<1>16. ASSUME NEW t \in Transports, packet_offline(t) PROVE Bonds'
  BY <1>5, <1>16 DEF packet_offline, struct
<1>17. CASE UNCHANGED vars
  BY <1>2, <1>17 DEF vars, struct, thread
<1>18. ASSUME NEW k \in Trackers, create_device_tracker(k) \/ device_tracker_close(k) PROVE Bonds'
  BY <1>13, <1>18 DEF create_device_tracker, device_tracker_close
<1>19. ASSUME NEW w \in Waiters, wait_for_state(w) \/ Wait(w) PROVE Bonds'
  BY <1>13, <1>19 DEF wait_for_state, Wait, wait_look, wait_test
<1> QED
  BY <1>3, <1>4, <1>6, <1>7, <1>8, <1>9, <1>10, <1>11, <1>12, <1>14, <1>15, <1>16, <1>17, <1>18, <1>19
     DEF Next, transport_registration_func

---------------------------------------------------------------------------
(* Trackers and waiters.                                                   *)

(* Nothing becomes a device or is freed without a new list being sent.     *)
LEMMA ToldFrame ==
  ASSUME Told, seen' = seen, Listed' \subseteq Listed,
         \A t \in Transports :
           /\ connection_state'[t] = "DEVICE" => connection_state[t] = "DEVICE"
           /\ life[t] = "live" => life'[t] = "live"
  PROVE  Told'
<1>1. Listed \subseteq Transports
  BY DEF Listed, Walk
<1>2. ASSUME NEW k \in Trackers, seen[k] # None, NEW shown \in seen[k]
      PROVE  shown[1] \in Transports /\ life[shown[1]] = "live"
  BY <1>2 DEF Told, TrackersTold
<1>3. TrackersTold'
  BY <1>1, <1>2 DEF Told, TrackersTold
<1> QED
  BY <1>3 DEF Told

(* A list shows what is in the master list, with its state: a device that  *)
(* is left out is not shown at all, and the buffer was full.               *)
LEMMA ListShows ==
  ASSUME NEW nx, NEW st, NEW shown \in list_transports(nx, st)
  PROVE  /\ \A x \in shown : \E t \in Walk(nx) : x = <<t, st[t]>>
         /\ \A t \in Walk(nx) : \/ <<t, st[t]>> \in shown
                                \/ Cardinality(shown) >= Room /\ \A x \in shown : x[1] # t
<1> DEFINE lines == {<<t, st[t]>> : t \in Walk(nx)}
<1>1. shown \subseteq lines /\ (shown = lines \/ Cardinality(shown) >= Room)
  BY DEF list_transports
<1>2. \A x \in shown : \E t \in Walk(nx) : x = <<t, st[t]>>
  BY <1>1
<1>3. ASSUME NEW t \in Walk(nx), <<t, st[t]>> \notin shown
      PROVE  Cardinality(shown) >= Room /\ \A x \in shown : x[1] # t
  <2>1. Cardinality(shown) >= Room
    BY <1>1, <1>3
  <2>2. ASSUME NEW x \in shown PROVE x[1] # t
    <3>1. PICK u \in Walk(nx) : x = <<u, st[u]>>
      BY <1>2
    <3>2. x[1] = u
      BY <3>1, SMT
    <3> QED BY <1>3, <3>1, <3>2
  <2> QED BY <2>1, <2>2
<1> QED
  BY <1>2, <1>3

(* The list that update_transports sends.                                  *)
LEMMA ToldUpdate ==
  ASSUME Told, update_transports, List', CoreTypes'
  PROVE  Told'
<1>0. PICK nx, st, lf : nx = next' /\ st = connection_state' /\ lf = life'
  OBVIOUS
<1>1. Listed' = Walk(nx) /\ Walk(nx) \subseteq Transports
  BY <1>0 DEF Listed, Walk
<1>3. \A t \in Walk(nx) : st[t] \in {"OFFLINE", "DEVICE", "HOST", "NOPERM"} /\ lf[t] = "live"
  BY <1>0, <1>1 DEF CoreTypes, List, ConnectedIsListed
<1>2. PICK sent \in list_transports(nx, st) :
        seen' = [k \in Trackers |-> IF seen[k] = None THEN None ELSE sent]
  BY <1>0 DEF update_transports
<1>4. /\ \A x \in sent : \E t \in Walk(nx) : x = <<t, st[t]>>
      /\ \A t \in Walk(nx) : \/ <<t, st[t]>> \in sent
                             \/ Cardinality(sent) >= Room /\ \A x \in sent : x[1] # t
  BY <1>2, ListShows
<1>5. \A x \in sent : /\ x \in Transports \X {"OFFLINE", "DEVICE", "HOST", "NOPERM"}
                     /\ lf[x[1]] = "live"
  BY <1>1, <1>3, <1>4, SMT
<1>6. \A k \in Trackers : seen'[k] = None \/ seen'[k] = sent
  BY <1>2
<1>7. TrackersTold'
  <2> SUFFICES ASSUME NEW k \in Trackers, seen'[k] # None
               PROVE  /\ \A t \in Listed' : connection_state'[t] = "DEVICE" =>
                           \/ <<t, "DEVICE">> \in seen'[k]
                           \/ Cardinality(seen'[k]) >= Room /\ \A x \in seen'[k] : x[1] # t
                      /\ \A x \in seen'[k] : life'[x[1]] = "live"
    BY DEF TrackersTold
  <2>1. seen'[k] = sent
    BY <1>6
  <2>2. ASSUME NEW t \in Listed', connection_state'[t] = "DEVICE"
        PROVE  \/ <<t, "DEVICE">> \in sent
               \/ Cardinality(sent) >= Room /\ \A x \in sent : x[1] # t
    <3>1. t \in Walk(nx) /\ st[t] = "DEVICE"
      BY <1>0, <1>1, <2>2
    <3> QED BY <1>4, <3>1
  <2> QED BY <1>0, <1>5, <2>1, <2>2
<1> QED
  BY <1>2, <1>5, <1>6, <1>7 DEF Told

(* Every step that could make a tracker's list wrong sends a new one.      *)
LEMMA ToldKept ==
  ASSUME Core, List, Told, [Next]_vars
  PROVE  Told'
<1>1. Core' /\ List'
  BY CoreKept, ListKept
<1>2. ASSUME UNCHANGED <<next, life, connection_state, seen>> PROVE Told'
  BY <1>2, ToldFrame DEF Listed
<1>3. ASSUME NEW t \in Transports, NEW k, NEW state, state # "DEVICE", Post(t, k, state) PROVE Told'
  <2>1. Listed' = Listed
    BY <1>3 DEF Post, list, Listed
  <2> QED BY <1>3, <2>1, ToldFrame DEF Post, Fresh, Core, CoreTypes
<1>4. CASE transport_registration_func
  BY <1>1, <1>4, ToldUpdate DEF transport_registration_func, registration_add, registration_remove, Core
<1>5. ASSUME NEW t \in Transports, NEW state, state # "DEVICE",
             connection_state' = [connection_state EXCEPT ![t] = state], UNCHANGED <<next, life, seen>>
      PROVE  Told'
  <2>1. Listed' = Listed
    BY <1>5 DEF Listed
  <2> QED BY <1>5, <2>1, ToldFrame DEF Core, CoreTypes
<1>6. ASSUME NEW t \in Transports, NEW banner \in {"DEVICE", "HOST"}, packet_cnxn(t, banner)
      PROVE  Told'
  <2>1. CASE banner = "HOST"
    BY <1>5, <1>6, <2>1 DEF packet_cnxn, struct, list
  <2>2. CASE banner # "HOST"
    BY <1>1, <1>6, <2>2, ToldUpdate DEF packet_cnxn, Core
  <2> QED BY <2>1, <2>2
<1>7. ASSUME NEW t \in Transports, unregister_usb_transport(t) PROVE Told'
  BY <1>7, UnplugList, ToldFrame DEF unregister_usb_transport, struct
<1>8. ASSUME NEW k \in Trackers, create_device_tracker(k) PROVE Told'
  <2>0. PICK sent \in list_transports(next, connection_state) : seen' = [seen EXCEPT ![k] = sent]
    BY <1>8 DEF create_device_tracker
  <2>1. UNCHANGED <<next, life, connection_state>>
    BY <1>8 DEF create_device_tracker, Quiet, list, struct
  <2>2. Listed' = Listed /\ Listed \subseteq Transports /\ Listed = Walk(next)
    BY <2>1 DEF Listed, Walk
  <2>3. \A t \in Listed : connection_state[t] \in {"OFFLINE", "DEVICE", "HOST", "NOPERM"} /\ life[t] = "live"
    BY <2>2 DEF Core, CoreTypes, List, ConnectedIsListed
  <2>4. /\ \A x \in sent : \E t \in Listed : x = <<t, connection_state[t]>>
        /\ \A t \in Listed : \/ <<t, connection_state[t]>> \in sent
                             \/ Cardinality(sent) >= Room /\ \A x \in sent : x[1] # t
    <3>1. PICK nx, st : nx = next /\ st = connection_state
      OBVIOUS
    <3>2. /\ \A x \in sent : \E t \in Walk(nx) : x = <<t, st[t]>>
          /\ \A t \in Walk(nx) : \/ <<t, st[t]>> \in sent
                                 \/ Cardinality(sent) >= Room /\ \A x \in sent : x[1] # t
      <4>1. sent \in list_transports(nx, st)
        BY <2>0, <3>1
      <4> QED BY <4>1, ListShows
    <3> QED BY <2>2, <3>1, <3>2
  <2>5. \A x \in sent : /\ x \in Transports \X {"OFFLINE", "DEVICE", "HOST", "NOPERM"}
                       /\ life[x[1]] = "live"
    BY <2>2, <2>3, <2>4, SMT
  <2>6. seen' = [j \in Trackers |-> IF j = k THEN sent ELSE seen[j]]
    BY <2>0 DEF Told
  <2>7. TrackersTold'
    <3> SUFFICES ASSUME NEW j \in Trackers, seen'[j] # None
                 PROVE  /\ \A t \in Listed : connection_state[t] = "DEVICE" =>
                             \/ <<t, "DEVICE">> \in seen'[j]
                             \/ Cardinality(seen'[j]) >= Room /\ \A x \in seen'[j] : x[1] # t
                        /\ \A x \in seen'[j] : life[x[1]] = "live"
      BY <2>1, <2>2 DEF TrackersTold
    <3>1. CASE j = k
      <4>1. seen'[j] = sent
        BY <2>6, <3>1
      <4>2. ASSUME NEW t \in Listed, connection_state[t] = "DEVICE"
            PROVE  \/ <<t, "DEVICE">> \in sent
                   \/ Cardinality(sent) >= Room /\ \A x \in sent : x[1] # t
        BY <2>4, <4>2
      <4> QED BY <2>5, <4>1, <4>2
    <3>2. CASE j # k
      <4>1. seen'[j] = seen[j] /\ seen[j] # None
        BY <2>6, <3>2
      <4>2. /\ \A t \in Listed : connection_state[t] = "DEVICE" =>
                 \/ <<t, "DEVICE">> \in seen[j]
                 \/ Cardinality(seen[j]) >= Room /\ \A x \in seen[j] : x[1] # t
            /\ \A x \in seen[j] : life[x[1]] = "live"
        BY <4>1 DEF Told, TrackersTold
      <4> QED BY ONLY <4>1, <4>2, SMT
    <3> QED BY <3>1, <3>2
  <2> QED BY <2>5, <2>6, <2>7 DEF Told
<1>9. ASSUME NEW k \in Trackers, device_tracker_close(k) PROVE Told'
  <2>1. seen' = [seen EXCEPT ![k] = None] /\ UNCHANGED <<next, life, connection_state>>
    BY <1>9 DEF device_tracker_close, Quiet, list, struct
  <2>2. Listed' = Listed
    BY <2>1 DEF Listed
  <2>3. seen' = [j \in Trackers |-> IF j = k THEN None ELSE seen[j]]
    BY <2>1 DEF Told
  <2>4. \A j \in Trackers : seen'[j] = None \/ seen'[j] = seen[j]
    BY <2>3
  <2>5. TrackersTold'
    <3> SUFFICES ASSUME NEW j \in Trackers, seen'[j] # None
                 PROVE  /\ \A t \in Listed : connection_state[t] = "DEVICE" =>
                             \/ <<t, "DEVICE">> \in seen'[j]
                             \/ Cardinality(seen'[j]) >= Room /\ \A x \in seen'[j] : x[1] # t
                        /\ \A x \in seen'[j] : life[x[1]] = "live"
      BY <2>1, <2>2 DEF TrackersTold
    <3>1. seen'[j] = seen[j] /\ seen[j] # None
      BY <2>4
    <3>2. /\ \A t \in Listed : connection_state[t] = "DEVICE" =>
               \/ <<t, "DEVICE">> \in seen[j]
               \/ Cardinality(seen[j]) >= Room /\ \A x \in seen[j] : x[1] # t
          /\ \A x \in seen[j] : life[x[1]] = "live"
      BY <3>1 DEF Told, TrackersTold
    <3> QED BY ONLY <3>1, <3>2, SMT
  <2> QED BY <2>3, <2>4, <2>5 DEF Told
<1>10. ASSUME Quiet, UNCHANGED seen PROVE Told'
  BY <1>2, <1>10 DEF Quiet, struct, list
<1>11. ASSUME NEW t \in Transports,
              \/ \E writeable \in BOOLEAN : register_usb_transport(t, writeable)
              \/ local_connect(t) \/ connect_device(t)
       PROVE  Told'
  BY <1>3, <1>11 DEF register_usb_transport, local_connect, connect_device
<1>12. ASSUME NEW t \in Transports, output_ends(t) \/ input_ends(t) \/ input_close_all(t)
       PROVE  Told'
  BY <1>2, <1>12 DEF output_ends, input_ends, input_close_all, Unref, struct, list
<1>13. ASSUME NEW t \in Transports, packet_offline(t) PROVE Told'
  BY <1>5, <1>13 DEF packet_offline, struct, list
<1>14. CASE UNCHANGED vars
  BY <1>2, <1>14 DEF vars, struct, list
<1> QED
  BY <1>4, <1>6, <1>7, <1>8, <1>9, <1>10, <1>11, <1>12, <1>13, <1>14
     DEF Next, install_listener, remove_listener, listener_event_func, packet_okay, socket_close,
         wait_for_state, Wait, wait_look, wait_test

(* Every step keeps the types of the waiters.                              *)
LEMMA WaitsKept ==
  ASSUME Waits, [Next]_vars
  PROVE  Waits'
<1>1. Found(AnyDevice) \subseteq Transports
  BY DEF Found, First, Matching, Listed, Walk
<1>2. ASSUME NEW w \in Waiters, wait_for_state(w) \/ Wait(w) PROVE Waits'
  BY <1>1, <1>2 DEF wait_for_state, Wait, wait_look, wait_test, Waits
<1>3. ASSUME wait' = wait PROVE Waits'
  BY <1>3 DEF Waits
<1>4. ASSUME NEW t \in Transports,
             \/ \E writeable \in BOOLEAN : register_usb_transport(t, writeable)
             \/ local_connect(t) \/ connect_device(t)
             \/ output_ends(t) \/ input_close_all(t) \/ input_ends(t)
             \/ unregister_usb_transport(t)
             \/ packet_offline(t)
             \/ \E banner \in {"DEVICE", "HOST"} : packet_cnxn(t, banner)
      PROVE  Waits'
  BY <1>3, <1>4 DEF register_usb_transport, local_connect, connect_device, Post, output_ends,
     input_close_all, input_ends, unregister_usb_transport, packet_offline, packet_cnxn
<1> QED
  BY <1>2, <1>3, <1>4
     DEF Next, vars, transport_registration_func, registration_add, registration_remove, install_listener,
         remove_listener, listener_event_func, packet_okay, socket_close, create_device_tracker,
         device_tracker_close

---------------------------------------------------------------------------
(* The results.                                                            *)

(* The invariant holds at the start.                                       *)
LEMMA InitIInv ==
  ASSUME Init
  PROVE  IInv
<1>1. Listed = {}
  <2>1. {Master} \in SUBSET Nodes /\ Master \in {Master} /\ \A n \in {Master} : next[n] \in {Master}
    BY DEF Init, Nodes
  <2> QED BY <2>1, MasterIsNoTransport DEF Listed, Walk
<1>2. CoreTypes
  BY SMT DEF Init, CoreTypes
<1>3. Refs /\ Queue /\ States /\ Syncs /\ Table
  BY SMT DEF Init, Refs, One, Queue, States, Syncs, Table
<1>4. List
  BY <1>1 DEF Init, List, L, Ring, Nodes, ConnectedIsListed
<1>5. Bonds
  BY DEF Init, Bonds, ForwardIsOnline, NothingLeftOpen
<1>6. Told /\ Waits
  BY DEF Init, Told, TrackersTold, Waits
<1> QED
  BY <1>2, <1>3, <1>4, <1>5, <1>6 DEF IInv, Core

(* The inductive invariant of the device list, for every number of         *)
(* transports, forwards, connections, trackers and waiters, and every      *)
(* assignment of ports: transport_registration_func, the hot-plug and      *)
(* emulator scans, the ends of the I/O threads, handle_packet and the      *)
(* host: services keep it in every order.                                  *)
THEOREM Invariance == Spec => []IInv
<1>1. ASSUME IInv, [Next]_vars PROVE IInv'
  BY <1>1, CoreKept, ListKept, BondsKept, ToldKept, WaitsKept DEF IInv
<1> QED
  BY <1>1, InitIInv, PTL DEF Spec

(* The links of the master list are never lost: a transport that has been  *)
(* registered and not removed is found by every walk over transport_list,  *)
(* and no walk comes to a freed one (registration, removal and             *)
(* unregister_usb_transport in any order, adb.c:1203).                     *)
THEOREM ListIsRight == Spec => []ConnectedIsListed
<1>1. IInv => ConnectedIsListed
  BY DEF IInv, List
<1> QED
  BY <1>1, Invariance, PTL

(* The table of emulators holds no two transports of one port, and nothing *)
(* freed: remote_kick comes before the removal on every path               *)
(* (init_socket_transport, remote_kick).                                   *)
THEOREM PortsAreUnique == Spec => []OnePerPort
<1>1. IInv => TypeOK
  BY SMT DEF IInv, Core, CoreTypes, List, Ring, Bonds, Waits, TypeOK
<1>2. IInv => OnePerPort
  BY <1>1 DEF IInv, Core, Table, OnePerPort
<1> QED
  BY <1>2, Invariance, PTL

(* A forward never outlives the connection to its device, because a        *)
(* listener that is bound again moves to the disconnect list of its new    *)
(* device (install_listener, run_transport_disconnects).                   *)
THEOREM ForwardsAreOnline == Spec => []ForwardIsOnline
<1>1. IInv => ForwardIsOnline
  BY DEF IInv, Bonds
<1> QED
  BY <1>1, Invariance, PTL

(* After close_all_sockets nothing is bound to the transport: it is        *)
(* offline by then, so no listener refers to it.                           *)
THEOREM ClosedStaysEmpty == Spec => []NothingLeftOpen
<1>1. IInv => NothingLeftOpen
  BY DEF IInv, Bonds
<1> QED
  BY <1>1, Invariance, PTL

(* The last list a tracker has been sent shows every device in the list as *)
(* one, unless it is full and ends before it, and nothing freed            *)
(* (update_transports is called by each step that could make it wrong).    *)
THEOREM TrackersAreTold == Spec => []TrackersTold
<1>1. IInv => TrackersTold
  BY DEF IInv, Told
<1> QED
  BY <1>1, Invariance, PTL
=============================================================================
