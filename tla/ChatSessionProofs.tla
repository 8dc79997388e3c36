------------------------- MODULE ChatSessionProofs -------------------------
(* For any number of clients, sessions and statements: what a member of a  *)
(* chat is sent is on the record of its session, once unless the queue was *)
(* changed by two threads at once, and a client that left is sent nothing. *)
EXTENDS ChatSession, TLAPS

(* A leaf that names no prover is Zenon's.                                *)
USE Zenon

Joined == {"chat", "say_check", "say_name", "say_defer", "leave_check"}
Locking == {"say_name", "leave_name"}
Saying == {"say_check", "say_name", "say_defer"}

(* A listener of a session chats in it and is not yet past Unadvise's      *)
(* removal; a client that has found no session has no events; one that is  *)
(* saying something has counted it.                                        *)
Seated ==
  /\ \A s \in Objects : \A c \in m_Listeners[s] : my[c] = s /\ at[c] \in Joined
  /\ \A c \in Clients : at[c] # "start" => my[c] \in Objects
  /\ \A c \in Clients : at[c] = "start" => sent[c] = <<>>
  /\ \A c \in Clients : at[c] \in Saying => said[c] # 0
  /\ \A x \in posted : at[x[1]] # "start"

(* The advise lock of a session is held by a thread that is asking a sink  *)
(* of this session for its name, and by no other.                          *)
Locked ==
  /\ \A s \in Objects : advise[s] # None => my[advise[s]] = s /\ at[advise[s]] \in Locking
  /\ \A c \in Clients : at[c] \in Locking => advise[my[c]] = c

Written(s, x) == x \in Range(m_statements[s])
SentWritten == \A c \in Clients : \A i \in Told(c) : Written(my[c], sent[c][i][2])

(* A statement is recorded before it is queued, taken or sent.             *)
Recorded ==
  /\ \A c \in Clients : at[c] = "say_defer" => Written(my[c], <<c, said[c]>>)
  /\ \A i \in DOMAIN work : Written(work[i].cs, work[i].stmt)
  /\ worker.pc = "fire" => worker.data \in Items /\ Written(worker.data.cs, worker.data.stmt)
  /\ SentWritten
  /\ worker.pc = "take" => work # <<>>

Meant(x) == x \in posted \/ (at[x[1]] \in Saying /\ x[2] = said[x[1]])
Queued(x) == \E i \in DOMAIN work : work[i].stmt = x
Sending(x) == worker.pc = "fire" /\ worker.data.stmt = x
Got(x) == \E c \in Clients : \E i \in DOMAIN sent[c] : sent[c][i] = <<"statement", x>>

(* A statement is in one place at a time, and there once.                  *)
InOnePlace(x) ==
  /\ Meant(x) \/ Queued(x) \/ Sending(x) \/ Got(x) => x[2] <= said[x[1]]
  /\ at[x[1]] \in Saying /\ x[2] = said[x[1]] => x \notin posted
  /\ Meant(x) => ~Queued(x) /\ ~Sending(x) /\ ~Got(x)
  /\ Queued(x) => ~Sending(x) /\ ~Got(x)
  /\ Sending(x) => ~Got(x)

QueuedOnce == \A i, j \in DOMAIN work : work[i].stmt = work[j].stmt => i = j
SentOnce == \A c \in Clients : \A i, j \in Told(c) : sent[c][i] = sent[c][j] => i = j

Once == raced \/ (QueuedOnce /\ SentOnce /\ \A x \in Stmts : InOnePlace(x))

IInv == TypeOK /\ Seated /\ Locked /\ Recorded /\ Once

---------------------------------------------------------------------------
(* What an addition to a sequence holds.                                   *)
LEMMA Appended ==
  ASSUME NEW S, NEW q \in Seq(S), NEW x \in S
  PROVE  /\ Append(q, x) \in Seq(S)
         /\ DOMAIN Append(q, x) = DOMAIN q \cup {Len(q) + 1}
         /\ Len(q) + 1 \notin DOMAIN q
         /\ \A i \in DOMAIN q : Append(q, x)[i] = q[i]
         /\ Append(q, x)[Len(q) + 1] = x
BY SMT

(* What is left of a sequence once its head is taken.                      *)
LEMMA Taken ==
  ASSUME NEW S, NEW q \in Seq(S), q # <<>>
  PROVE  /\ Head(q) = q[1] /\ Head(q) \in S /\ 1 \in DOMAIN q
         /\ Tail(q) \in Seq(S)
         /\ \A i \in DOMAIN Tail(q) : i + 1 \in DOMAIN q /\ i + 1 # 1 /\ Tail(q)[i] = q[i + 1]
         /\ DOMAIN Tail(q) \subseteq Nat
BY SMT

(* A sequence with its head in front of it, and perhaps an addition behind *)
(* it, holds nothing else that is new.                                     *)
LEMMA Doubled ==
  ASSUME NEW S, NEW q \in Seq(S), q # <<>>
  PROVE  /\ <<Head(q)>> \o q \in Seq(S) /\ <<Head(q)>> \o q # <<>>
         /\ \A i \in DOMAIN (<<Head(q)>> \o q) : \E j \in DOMAIN q : (<<Head(q)>> \o q)[i] = q[j]
BY SMT

LEMMA DoubledAnd ==
  ASSUME NEW S, NEW q \in Seq(S), q # <<>>, NEW x \in S
  PROVE  LET w == <<Head(q)>> \o Append(q, x)
         IN  /\ w \in Seq(S) /\ w # <<>>
             /\ \A i \in DOMAIN w : w[i] = x \/ \E j \in DOMAIN q : w[i] = q[j]
BY SMT

(* The Fire_ methods send the event to listeners and to no others.         *)
LEMMA Fires ==
  ASSUME TypeOK, NEW s \in Objects, NEW ev \in Events, Fire(s, ev)
  PROVE  /\ sent' \in [Clients -> Seq(Events)]
         /\ \A d \in Clients : \/ sent'[d] = sent[d]
                               \/ d \in m_Listeners[s] /\ sent'[d] = Append(sent[d], ev)
<1>1. sent \in [Clients -> Seq(Events)]
  BY DEF TypeOK
<1>2. \A d \in Clients : Append(sent[d], ev) \in Seq(Events)
  BY <1>1, Appended
<1> QED
  BY <1>1, <1>2 DEF Fire

(* Defer_OnNewStatement puts nothing in the queue but the new item and     *)
(* items that are there, and once more only in a race.                     *)
LEMMA Defers ==
  ASSUME TypeOK, worker.pc = "take" => work # <<>>, NEW item \in Items, Defer(item)
  PROVE  /\ work' \in Seq(Items) /\ raced' \in BOOLEAN /\ up' \in BOOLEAN
         /\ worker' \in [pc : {"look", "wait", "take", "fire"}, data : Items \cup {<<>>}]
         /\ worker'.pc = "fire" => worker' = worker
         /\ worker.pc = "fire" => worker' = worker
         /\ worker'.pc = "take" => work' # <<>>
         /\ \A i \in DOMAIN work' : work'[i] = item \/ \E j \in DOMAIN work : work'[i] = work[j]
         /\ raced' \/ (~raced /\ work' \in {work, Append(work, item)})
<1>1. /\ work \in Seq(Items) /\ raced \in BOOLEAN /\ up \in BOOLEAN
      /\ worker \in [pc : {"look", "wait", "take", "fire"}, data : Items \cup {<<>>}]
  BY DEF TypeOK
<1>2. worker' = worker \/ worker' = Idle
  BY DEF Defer
<1>3. Idle \in [pc : {"look", "wait", "take", "fire"}, data : Items \cup {<<>>}] /\ Idle.pc = "look"
  BY DEF Idle
<1>4. /\ worker' \in [pc : {"look", "wait", "take", "fire"}, data : Items \cup {<<>>}]
      /\ worker'.pc = "fire" => worker' = worker
      /\ worker.pc = "fire" => worker' = worker
      /\ worker'.pc = "take" => worker.pc = "take"
  <2>1. worker' = IF worker.pc = "wait" THEN Idle ELSE worker
    BY DEF Defer
  <2> QED
    BY <1>1, <1>2, <1>3, <2>1
<1>5. CASE work' = Append(work, item) /\ UNCHANGED <<raced, up>>
  <2>1. work' # <<>>
    BY <1>1, <1>5, SMT
  <2> QED
    BY <1>1, <1>4, <1>5, <2>1, Appended, SMT
<1>6. CASE /\ worker.pc = "take" /\ raced' = TRUE /\ up' = up
           /\ work' \in {work, <<Head(work)>> \o work, <<Head(work)>> \o Append(work, item)}
  <2>1. work # <<>>
    BY <1>6
  <2>2. /\ work' \in Seq(Items) /\ work' # <<>>
        /\ \A i \in DOMAIN work' : work'[i] = item \/ \E j \in DOMAIN work : work'[i] = work[j]
    <3>1. CASE work' = work
      BY <1>1, <2>1, <3>1
    <3>2. CASE work' = <<Head(work)>> \o work
      BY ONLY <1>1, <2>1, <3>2, Doubled
    <3>3. CASE work' = <<Head(work)>> \o Append(work, item)
      BY ONLY <1>1, <2>1, <3>3, item \in Items, DoubledAnd
    <3> QED
      BY <1>6, <3>1, <3>2, <3>3
  <2> QED
    BY <1>1, <1>4, <1>6, <2>2
<1>7. CASE up' = FALSE /\ UNCHANGED <<work, raced>>
  BY <1>1, <1>4, <1>7
<1> QED
  BY <1>5, <1>6, <1>7 DEF Defer

(* Every step keeps the types.                                             *)
LEMMA TypesKept ==
  ASSUME IInv, Next
  PROVE  TypeOK'
<1> USE Distinct, SayBound DEF IInv, sessionVars, workVars, clientVars
<1>1. TypeOK /\ Seated /\ (worker.pc = "take" => work # <<>>)
  BY DEF Recorded
<1>2. \A c \in Clients : at[c] # "start" => my[c] \in Objects
  BY <1>1 DEF Seated
<1>3. CASE worker_look
  BY <1>1, <1>2, <1>3 DEF worker_look, TypeOK, Goto, InCall
<1>4. CASE worker_take
  <2>1. work \in Seq(Items) /\ work # <<>>
    BY <1>1, <1>4 DEF worker_take, TypeOK
  <2>2. Head(work) \in Items /\ Tail(work) \in Seq(Items)
    BY <2>1, Taken
  <2> QED
    BY <1>1, <2>2, <1>4 DEF worker_take, TypeOK
<1>5. CASE Fire_OnNewStatement
  <2>1. worker.data \in Items
    BY <1>5 DEF Recorded, Fire_OnNewStatement
  <2>2. /\ worker.data.cs \in Objects
        /\ <<"statement", worker.data.stmt>> \in Events
    BY <2>1 DEF Items, Events
  <2>3. sent' \in [Clients -> Seq(Events)]
    BY <1>1, <2>2, <1>5, Fires DEF Fire_OnNewStatement
  <2> QED
    BY <1>1, <2>3, <1>5 DEF Fire_OnNewStatement, TypeOK, Idle
<1>6. ASSUME NEW c \in Clients, NEW n \in Names, FindSession(c, n) PROVE TypeOK'
  BY <1>1, <1>2, <1>6, SMT DEF FindSession, TypeOK, Goto, InCall
<1>7. ASSUME NEW c \in Clients, AdviseCall(c) PROVE TypeOK'
  BY <1>1, <1>2, <1>7 DEF AdviseCall, TypeOK, Goto, InCall
<1>8. ASSUME NEW c \in Clients, AdviseFire(c) PROVE TypeOK'
  <2>1. my[c] \in Objects /\ <<"new", c>> \in Events
    BY <1>2, <1>8 DEF AdviseFire, Events
  <2>2. sent' \in [Clients -> Seq(Events)]
    BY <1>1, <2>1, <1>8, Fires DEF AdviseFire
  <2> QED
    BY <1>1, <2>2, <1>8 DEF AdviseFire, TypeOK, Goto, InCall
<1>9. ASSUME NEW c \in Clients, AdviseAdd(c) PROVE TypeOK'
  BY <1>1, <1>2, <1>9, SMT DEF AdviseAdd, TypeOK, Goto, InCall
<1>10. ASSUME NEW c \in Clients, SayCall(c) PROVE TypeOK'
  BY <1>1, <1>2, <1>10, SMT DEF SayCall, TypeOK, Goto, InCall
<1>11. ASSUME NEW c \in Clients, SayCheck(c) PROVE TypeOK'
  <2>1. my[c] \in Objects
    BY <1>2, <1>11 DEF SayCheck
  <2>2. advise' \in [Objects -> Clients \cup {None}]
    <3>1. advise' \in {advise, [advise EXCEPT ![my[c]] = c]}
      BY <1>11 DEF SayCheck
    <3> QED
      BY <1>1, <2>1, <3>1 DEF TypeOK
  <2>3. at' \in [Clients -> {"start", "found", "chat", "left"} \cup InCall]
    BY <1>1, <1>11 DEF SayCheck, TypeOK, Goto, InCall
  <2> QED
    BY <1>1, <2>2, <2>3, <1>11 DEF SayCheck, TypeOK
<1>12. ASSUME NEW c \in Clients, SayNamed(c) PROVE TypeOK'
  <2>1. my[c] \in Objects /\ <<c, said[c]>> \in Stmts
    BY <1>1, <1>2, <1>12, SMT DEF SayNamed, Seated, Saying, TypeOK, Stmts
  <2>2. advise' \in [Objects -> Clients \cup {None}]
    BY <1>1, <2>1, <1>12 DEF SayNamed, TypeOK
  <2>3. at' \in [Clients -> {"start", "found", "chat", "left"} \cup InCall]
    BY <1>1, <1>12 DEF SayNamed, TypeOK, Goto, InCall
  <2>4. m_statements' \in [Objects -> Seq(Stmts)]
    <3>1. m_statements \in [Objects -> Seq(Stmts)]
      BY <1>1 DEF TypeOK
    <3>2. Append(m_statements[my[c]], <<c, said[c]>>) \in Seq(Stmts)
      BY <2>1, <3>1, Appended
    <3> QED
      BY <2>1, <3>1, <3>2, <1>12 DEF SayNamed
  <2> QED
    BY <1>1, <2>2, <2>3, <2>4, <1>12 DEF SayNamed, TypeOK
<1>13. ASSUME NEW c \in Clients, SayDefer(c) PROVE TypeOK'
  <2>1. [cs |-> my[c], stmt |-> <<c, said[c]>>] \in Items
    BY <1>1, <1>2, <1>13, SMT DEF SayDefer, Seated, Saying, TypeOK, Stmts, Items
  <2>2. /\ work' \in Seq(Items) /\ raced' \in BOOLEAN /\ up' \in BOOLEAN
        /\ worker' \in [pc : {"look", "wait", "take", "fire"}, data : Items \cup {<<>>}]
    BY <1>1, <2>1, <1>13, Defers DEF SayDefer
  <2> QED
    BY <1>1, <2>2, <1>13 DEF SayDefer, TypeOK, Goto, InCall
<1>14. ASSUME NEW c \in Clients, AsyncCall(c) PROVE TypeOK'
  <2>1. said[c] + 1 \in 1 .. MaxSay
    BY <1>1, <1>14, SMT DEF AsyncCall, TypeOK
  <2>2. said' \in [Clients -> 0 .. MaxSay]
    BY <1>1, <2>1, <1>14, SMT DEF AsyncCall, TypeOK
  <2>3. posted' \subseteq Stmts
    BY <1>1, <2>1, <1>14, SMT DEF AsyncCall, TypeOK, Stmts
  <2> QED
    BY <1>1, <2>2, <2>3, <1>14 DEF AsyncCall, TypeOK
<1>15. ASSUME NEW c \in Clients, NEW k \in 1 .. MaxSay, AsyncSay(c, k) PROVE TypeOK'
  <2>1. my[c] \in Objects /\ <<c, k>> \in Stmts
    BY <1>1, <1>2, <1>15 DEF AsyncSay, Seated, Stmts
  <2>2. [cs |-> my[c], stmt |-> <<c, k>>] \in Items
    BY <2>1 DEF Items
  <2>3. /\ work' \in Seq(Items) /\ raced' \in BOOLEAN /\ up' \in BOOLEAN
        /\ worker' \in [pc : {"look", "wait", "take", "fire"}, data : Items \cup {<<>>}]
    BY <1>1, <2>2, <1>15, Defers DEF AsyncSay
  <2>4. m_statements' \in [Objects -> Seq(Stmts)]
    <3>1. m_statements \in [Objects -> Seq(Stmts)]
      BY <1>1 DEF TypeOK
    <3>2. Append(m_statements[my[c]], <<c, k>>) \in Seq(Stmts)
      BY <2>1, <3>1, Appended
    <3> QED
      BY <2>1, <3>1, <3>2, <1>15 DEF AsyncSay
  <2> QED
    BY <1>1, <2>3, <2>4, <1>15 DEF AsyncSay, TypeOK
<1>16. ASSUME NEW c \in Clients, UnadviseCall(c) PROVE TypeOK'
  BY <1>1, <1>2, <1>16 DEF UnadviseCall, TypeOK, Goto, InCall
<1>17. ASSUME NEW c \in Clients, UnadviseCheck(c) PROVE TypeOK'
  <2>1. my[c] \in Objects
    BY <1>2, <1>17 DEF UnadviseCheck
  <2>2. advise' \in [Objects -> Clients \cup {None}]
    <3>1. advise' \in {advise, [advise EXCEPT ![my[c]] = c]}
      BY <1>17 DEF UnadviseCheck
    <3> QED
      BY <1>1, <2>1, <3>1 DEF TypeOK
  <2>3. at' \in [Clients -> {"start", "found", "chat", "left"} \cup InCall]
    BY <1>1, <1>17 DEF UnadviseCheck, TypeOK, Goto, InCall
  <2>4. m_Listeners' \in [Objects -> SUBSET Clients]
    BY <1>1, <2>1, <1>17 DEF UnadviseCheck, TypeOK
  <2> QED
    BY <1>1, <2>2, <2>3, <2>4, <1>17 DEF UnadviseCheck, TypeOK
<1>18. ASSUME NEW c \in Clients, UnadviseNamed(c) PROVE TypeOK'
  BY <1>1, <1>2, <1>18 DEF UnadviseNamed, TypeOK, Goto, InCall
<1>19. ASSUME NEW c \in Clients, UnadviseFire(c) PROVE TypeOK'
  <2>1. my[c] \in Objects /\ <<"left", c>> \in Events
    BY <1>2, <1>19 DEF UnadviseFire, Events
  <2>2. sent' \in [Clients -> Seq(Events)]
    BY <1>1, <2>1, <1>19, Fires DEF UnadviseFire
  <2> QED
    BY <1>1, <2>2, <1>19 DEF UnadviseFire, TypeOK, Goto, InCall
<1>20. ASSUME NEW c \in Clients, Dies(c) PROVE TypeOK'
  BY <1>1, <1>2, <1>20 DEF Dies, TypeOK, Goto, InCall
<1>21. ASSUME NEW n \in Names, DeleteSession(n) PROVE TypeOK'
  BY <1>1, <1>2, <1>21 DEF DeleteSession, TypeOK, Goto, InCall
<1>22. CASE Damaged
  BY <1>1, <1>22 DEF Damaged, TypeOK
<1> QED
  BY <1>3, <1>4, <1>5, <1>6, <1>7, <1>8, <1>9, <1>10, <1>11, <1>12, <1>13, <1>14, <1>15, <1>16, <1>17, <1>18, <1>19, <1>20, <1>21, <1>22
  DEF Next, threadLoop, Serve, Client

(* Every step keeps the listeners in their session.                       *)
LEMMA SeatedKept ==
  ASSUME IInv, Next
  PROVE  Seated'
<1> USE Distinct, SayBound DEF IInv, sessionVars, workVars, clientVars
<1>1. Seated
  OBVIOUS
<1>2. /\ m_Listeners \in [Objects -> SUBSET Clients]
      /\ at \in [Clients -> {"start", "found", "chat", "left"} \cup InCall]
      /\ my \in [Clients -> Objects \cup {None}]
      /\ said \in [Clients -> 0 .. MaxSay]
      /\ posted \subseteq Stmts
      /\ sent \in [Clients -> Seq(Events)]
  BY DEF TypeOK
<1>3. CASE worker_look
  BY <1>1, <1>2, <1>3 DEF worker_look, Seated, Goto, Joined, Saying, Stmts
<1>4. CASE worker_take
  BY <1>1, <1>2, <1>4 DEF worker_take, Seated, Goto, Joined, Saying, Stmts
<1>5. CASE Fire_OnNewStatement
  <2>1. worker.data.cs \in Objects /\ <<"statement", worker.data.stmt>> \in Events
    BY <1>5 DEF Recorded, Fire_OnNewStatement, Items, Events
  <2>2. \A d \in Clients : \/ sent'[d] = sent[d]
                            \/ d \in m_Listeners[worker.data.cs]
    BY <2>1, <1>5, Fires DEF Fire_OnNewStatement
  <2>3. \A d \in Clients : at[d] = "start" => sent'[d] = <<>>
    BY <1>1, <2>1, <2>2 DEF Seated, Joined
  <2> QED
    BY <1>1, <1>2, <2>1, <2>3, <1>5 DEF Fire_OnNewStatement, Seated, Goto, Joined, Saying, Stmts
<1>6. ASSUME NEW c \in Clients, NEW n \in Names, FindSession(c, n) PROVE Seated'
  <2>1. PICK s \in Objects : my' = [my EXCEPT ![c] = s]
    BY <1>6 DEF FindSession
  <2>2. at[c] = "start" /\ at' = [at EXCEPT ![c] = "found"]
        /\ UNCHANGED <<m_Listeners, sent, posted, said>>
    BY <1>6 DEF FindSession, Goto
  <2>3. \A t \in Objects : c \notin m_Listeners[t]
    BY <1>1, <2>2 DEF Seated, Joined
  <2> QED
    BY <1>1, <1>2, <2>1, <2>2, <2>3, SMT DEF Seated, Joined, Saying, Stmts
<1>7. ASSUME NEW c \in Clients, AdviseCall(c) PROVE Seated'
  BY <1>1, <1>2, <1>7, SMT DEF AdviseCall, Seated, Goto, Joined, Saying, Stmts
<1>8. ASSUME NEW c \in Clients, AdviseFire(c) PROVE Seated'
  <2>1. my[c] \in Objects /\ <<"new", c>> \in Events
    BY <1>1, <1>8 DEF AdviseFire, Seated, Events
  <2>2. \A d \in Clients : \/ sent'[d] = sent[d]
                            \/ d \in m_Listeners[my[c]]
    BY <2>1, <1>8, Fires DEF AdviseFire
  <2>3. \A d \in Clients : at[d] = "start" => sent'[d] = <<>>
    BY <1>1, <2>1, <2>2 DEF Seated, Joined
  <2> QED
    BY <1>1, <1>2, <2>1, <2>3, <1>8, SMT DEF AdviseFire, Seated, Goto, Joined, Saying, Stmts
<1>9. ASSUME NEW c \in Clients, AdviseAdd(c) PROVE Seated'
  BY <1>1, <1>2, <1>9, SMT DEF AdviseAdd, Seated, Goto, Joined, Saying, Stmts
<1>10. ASSUME NEW c \in Clients, SayCall(c) PROVE Seated'
  BY <1>1, <1>2, <1>10, SMT DEF SayCall, Seated, Goto, Joined, Saying, Stmts
<1>11. ASSUME NEW c \in Clients, SayCheck(c) PROVE Seated'
  <2>1. PICK stage \in {"say_name", "chat"} : at' = [at EXCEPT ![c] = stage]
    BY <1>11 DEF SayCheck, Goto
  <2>2. at[c] = "say_check" /\ UNCHANGED <<m_Listeners, sent, posted, said, my>>
    BY <1>11 DEF SayCheck
  <2> QED
    BY <1>1, <1>2, <2>1, <2>2, SMT DEF Seated, Joined, Saying, Stmts
<1>12. ASSUME NEW c \in Clients, SayNamed(c) PROVE Seated'
  <2>1. PICK stage \in {"say_defer", "chat"} : at' = [at EXCEPT ![c] = stage]
    BY <1>12 DEF SayNamed, Goto
  <2>2. at[c] = "say_name" /\ UNCHANGED <<m_Listeners, sent, posted, said, my>>
    BY <1>12 DEF SayNamed
  <2> QED
    BY <1>1, <1>2, <2>1, <2>2, SMT DEF Seated, Joined, Saying, Stmts
<1>13. ASSUME NEW c \in Clients, SayDefer(c) PROVE Seated'
  BY <1>1, <1>2, <1>13, SMT DEF SayDefer, Seated, Goto, Joined, Saying, Stmts
<1>14. ASSUME NEW c \in Clients, AsyncCall(c) PROVE Seated'
  BY <1>1, <1>2, <1>14, SMT DEF AsyncCall, Seated, Goto, Joined, Saying, Stmts
<1>15. ASSUME NEW c \in Clients, NEW k \in 1 .. MaxSay, AsyncSay(c, k) PROVE Seated'
  BY <1>1, <1>2, <1>15 DEF AsyncSay, Seated, Goto, Joined, Saying, Stmts
<1>16. ASSUME NEW c \in Clients, UnadviseCall(c) PROVE Seated'
  BY <1>1, <1>2, <1>16, SMT DEF UnadviseCall, Seated, Goto, Joined, Saying, Stmts
<1>17. ASSUME NEW c \in Clients, UnadviseCheck(c) PROVE Seated'
  BY <1>1, <1>2, <1>17, SMT DEF UnadviseCheck, Seated, Goto, Joined, Saying, Stmts
<1>18. ASSUME NEW c \in Clients, UnadviseNamed(c) PROVE Seated'
  BY <1>1, <1>2, <1>18, SMT DEF UnadviseNamed, Seated, Goto, Joined, Saying, Stmts
<1>19. ASSUME NEW c \in Clients, UnadviseFire(c) PROVE Seated'
  <2>1. my[c] \in Objects /\ <<"left", c>> \in Events
    BY <1>1, <1>19 DEF UnadviseFire, Seated, Events
  <2>2. \A d \in Clients : \/ sent'[d] = sent[d]
                            \/ d \in m_Listeners[my[c]]
    BY <2>1, <1>19, Fires DEF UnadviseFire
  <2>3. \A d \in Clients : at[d] = "start" => sent'[d] = <<>>
    BY <1>1, <2>1, <2>2 DEF Seated, Joined
  <2> QED
    BY <1>1, <1>2, <2>1, <2>3, <1>19, SMT DEF UnadviseFire, Seated, Goto, Joined, Saying, Stmts
<1>20. ASSUME NEW c \in Clients, Dies(c) PROVE Seated'
  BY <1>1, <1>2, <1>20 DEF Dies, Seated, Goto, Joined, Saying, Stmts
<1>21. ASSUME NEW n \in Names, DeleteSession(n) PROVE Seated'
  BY <1>1, <1>2, <1>21 DEF DeleteSession, Seated, Goto, Joined, Saying, Stmts
<1>22. CASE Damaged
  BY <1>1, <1>2, <1>22 DEF Damaged, Seated
<1> QED
  BY <1>3, <1>4, <1>5, <1>6, <1>7, <1>8, <1>9, <1>10, <1>11, <1>12, <1>13, <1>14, <1>15, <1>16, <1>17, <1>18, <1>19, <1>20, <1>21, <1>22
  DEF Next, threadLoop, Serve, Client

(* Every step leaves a held advise lock to the thread that holds it.       *)
LEMMA LockedKept ==
  ASSUME IInv, Next
  PROVE  Locked'
<1> USE Distinct DEF IInv, sessionVars, workVars, clientVars
<1>1. /\ \A s \in Objects : advise[s] # None => my[advise[s]] = s /\ at[advise[s]] \in Locking
      /\ \A c \in Clients : at[c] \in Locking => advise[my[c]] = c
      /\ \A c \in Clients : at[c] # "start" => my[c] \in Objects
  BY DEF Locked, Seated
<1>2. /\ advise \in [Objects -> Clients \cup {None}]
      /\ at \in [Clients -> {"start", "found", "chat", "left"} \cup InCall]
      /\ my \in [Clients -> Objects \cup {None}]
  BY DEF TypeOK
<1>3. CASE worker_look
  BY <1>1, <1>2, <1>3 DEF worker_look, Locked, Goto, Locking
<1>4. CASE worker_take
  BY <1>1, <1>2, <1>4 DEF worker_take, Locked, Goto, Locking
<1>5. CASE Fire_OnNewStatement
  BY <1>1, <1>2, <1>5 DEF Fire_OnNewStatement, Locked, Goto, Locking
<1>6. ASSUME NEW c \in Clients, NEW n \in Names, FindSession(c, n) PROVE Locked'
  <2>1. PICK s \in Objects : my' = [my EXCEPT ![c] = s]
    BY <1>6 DEF FindSession
  <2>2. at[c] = "start" /\ at' = [at EXCEPT ![c] = "found"] /\ advise' = advise
    BY <1>6 DEF FindSession, Goto
  <2> QED
    BY <1>1, <1>2, <2>1, <2>2, SMT DEF Locked, Locking
<1>7. ASSUME NEW c \in Clients, AdviseCall(c) PROVE Locked'
  BY <1>1, <1>2, <1>7, SMT DEF AdviseCall, Locked, Goto, Locking
<1>8. ASSUME NEW c \in Clients, AdviseFire(c) PROVE Locked'
  BY <1>1, <1>2, <1>8, SMT DEF AdviseFire, Locked, Goto, Locking
<1>9. ASSUME NEW c \in Clients, AdviseAdd(c) PROVE Locked'
  BY <1>1, <1>2, <1>9, SMT DEF AdviseAdd, Locked, Goto, Locking
<1>10. ASSUME NEW c \in Clients, SayCall(c) PROVE Locked'
  BY <1>1, <1>2, <1>10, SMT DEF SayCall, Locked, Goto, Locking
<1>11. ASSUME NEW c \in Clients, SayCheck(c) PROVE Locked'
  <2>1. at[c] = "say_check" /\ advise[my[c]] = None /\ my' = my
    BY <1>11 DEF SayCheck
  <2>2. my[c] \in Objects
    BY <1>1, <2>1
  <2>3. CASE advise' = [advise EXCEPT ![my[c]] = c] /\ at' = [at EXCEPT ![c] = "say_name"]
    BY <1>1, <1>2, <2>1, <2>2, <2>3, SMT DEF Locked, Locking
  <2>4. CASE advise' = advise /\ at' = [at EXCEPT ![c] = "chat"]
    BY <1>1, <1>2, <2>1, <2>2, <2>4, SMT DEF Locked, Locking
  <2> QED
    BY <2>3, <2>4, <1>11 DEF SayCheck, Goto
<1>12. ASSUME NEW c \in Clients, SayNamed(c) PROVE Locked'
  <2>1. at[c] = "say_name" /\ my' = my /\ advise' = [advise EXCEPT ![my[c]] = None]
    BY <1>12 DEF SayNamed
  <2>2. PICK stage \in {"say_defer", "chat"} : at' = [at EXCEPT ![c] = stage]
    BY <1>12 DEF SayNamed, Goto
  <2>3. my[c] \in Objects /\ advise[my[c]] = c
    BY <1>1, <2>1 DEF Locking
  <2> QED
    BY <1>1, <1>2, <2>1, <2>2, <2>3, SMT DEF Locked, Locking
<1>13. ASSUME NEW c \in Clients, SayDefer(c) PROVE Locked'
  BY <1>1, <1>2, <1>13, SMT DEF SayDefer, Locked, Goto, Locking
<1>14. ASSUME NEW c \in Clients, AsyncCall(c) PROVE Locked'
  BY <1>1, <1>2, <1>14 DEF AsyncCall, Locked, Goto, Locking
<1>15. ASSUME NEW c \in Clients, NEW k \in 1 .. MaxSay, AsyncSay(c, k) PROVE Locked'
  BY <1>1, <1>2, <1>15 DEF AsyncSay, Locked, Goto, Locking
<1>16. ASSUME NEW c \in Clients, UnadviseCall(c) PROVE Locked'
  BY <1>1, <1>2, <1>16, SMT DEF UnadviseCall, Locked, Goto, Locking
<1>17. ASSUME NEW c \in Clients, UnadviseCheck(c) PROVE Locked'
  <2>1. at[c] = "leave_check" /\ advise[my[c]] = None /\ my' = my
    BY <1>17 DEF UnadviseCheck
  <2>2. my[c] \in Objects
    BY <1>1, <2>1
  <2>3. CASE advise' = [advise EXCEPT ![my[c]] = c] /\ at' = [at EXCEPT ![c] = "leave_name"]
    BY <1>1, <1>2, <2>1, <2>2, <2>3, SMT DEF Locked, Locking
  <2>4. CASE advise' = advise /\ at' = [at EXCEPT ![c] = "left"]
    BY <1>1, <1>2, <2>1, <2>2, <2>4, SMT DEF Locked, Locking
  <2> QED
    BY <2>3, <2>4, <1>17 DEF UnadviseCheck, Goto
<1>18. ASSUME NEW c \in Clients, UnadviseNamed(c) PROVE Locked'
  <2>1. at[c] = "leave_name" /\ my' = my /\ advise' = [advise EXCEPT ![my[c]] = None]
    BY <1>18 DEF UnadviseNamed
  <2>2. PICK stage \in {"leave_fire", "left"} : at' = [at EXCEPT ![c] = stage]
    BY <1>18 DEF UnadviseNamed, Goto
  <2>3. my[c] \in Objects /\ advise[my[c]] = c
    BY <1>1, <2>1 DEF Locking
  <2> QED
    BY <1>1, <1>2, <2>1, <2>2, <2>3, SMT DEF Locked, Locking
<1>19. ASSUME NEW c \in Clients, UnadviseFire(c) PROVE Locked'
  BY <1>1, <1>2, <1>19, SMT DEF UnadviseFire, Locked, Goto, Locking
<1>20. ASSUME NEW c \in Clients, Dies(c) PROVE Locked'
  BY <1>1, <1>2, <1>20 DEF Dies, Locked, Goto, Locking
<1>21. ASSUME NEW n \in Names, DeleteSession(n) PROVE Locked'
  BY <1>1, <1>2, <1>21 DEF DeleteSession, Locked, Goto, Locking
<1>22. CASE Damaged
  BY <1>1, <1>2, <1>22 DEF Damaged, Locked
<1> QED
  BY <1>3, <1>4, <1>5, <1>6, <1>7, <1>8, <1>9, <1>10, <1>11, <1>12, <1>13, <1>14, <1>15, <1>16, <1>17, <1>18, <1>19, <1>20, <1>21, <1>22
  DEF Next, threadLoop, Serve, Client

(* An addition keeps what is on a record, and is on it.                    *)
LEMMA Adds ==
  ASSUME NEW S, NEW q \in Seq(S), NEW x \in S
  PROVE  Range(q) \subseteq Range(Append(q, x)) /\ x \in Range(Append(q, x))
BY Appended, SMT DEF Range

(* A statement that is on the record of a session stays there.             *)
LEMMA RecordGrows ==
  ASSUME IInv, Next
  PROVE  \A s \in Objects : \A x : Written(s, x) => Written(s, x)'
<1> USE DEF sessionVars
<1>1. /\ m_statements \in [Objects -> Seq(Stmts)]
      /\ said \in [Clients -> 0 .. MaxSay]
      /\ \A c \in Clients : at[c] # "start" => my[c] \in Objects
      /\ \A c \in Clients : at[c] \in Saying => said[c] # 0
      /\ \A x \in posted : at[x[1]] # "start"
  BY DEF IInv, TypeOK, Seated
<1>2. CASE m_statements' = m_statements
  BY <1>2 DEF Written
<1>3. ASSUME NEW s \in Objects, NEW y \in Stmts,
             m_statements' = [m_statements EXCEPT ![s] = Append(@, y)]
      PROVE  \A t \in Objects : \A x : Written(t, x) => Written(t, x)'
  <2>1. m_statements'[s] = Append(m_statements[s], y)
    BY <1>1, <1>3
  <2>2. \A t \in Objects : t # s => m_statements'[t] = m_statements[t]
    BY <1>1, <1>3
  <2>3. Range(m_statements[s]) \subseteq Range(m_statements'[s])
    BY <1>1, <2>1, Adds
  <2> QED
    BY <2>2, <2>3 DEF Written
<1>4. ASSUME NEW c \in Clients, SayNamed(c), c \in alive
      PROVE  \A t \in Objects : \A x : Written(t, x) => Written(t, x)'
  <2>1. my[c] \in Objects /\ <<c, said[c]>> \in Stmts
    BY <1>1, <1>4, SayBound, SMT DEF SayNamed, Saying, Stmts
  <2> QED
    BY <1>3, <1>4, <2>1 DEF SayNamed
<1>5. ASSUME NEW c \in Clients, NEW k \in 1 .. MaxSay, AsyncSay(c, k)
      PROVE  \A t \in Objects : \A x : Written(t, x) => Written(t, x)'
  <2>1. my[c] \in Objects /\ <<c, k>> \in Stmts
    BY <1>1, <1>5 DEF AsyncSay, Stmts
  <2> QED
    BY <1>3, <1>5, <2>1 DEF AsyncSay
<1>6. \/ m_statements' = m_statements
      \/ \E c \in Clients : SayNamed(c) /\ c \in alive
      \/ \E c \in Clients, k \in 1 .. MaxSay : AsyncSay(c, k)
  <2>1. threadLoop \/ Damaged => m_statements' = m_statements
    BY DEF threadLoop, worker_look, worker_take, Fire_OnNewStatement, Damaged
  <2>2. \A c \in Clients : Client(c) \/ Dies(c) => m_statements' = m_statements
    BY DEF Client, FindSession, AdviseCall, SayCall, AsyncCall, UnadviseCall, Dies
  <2>3. \A c \in Clients : Serve(c) => m_statements' = m_statements \/ (SayNamed(c) /\ c \in alive)
    BY DEF Serve, AdviseFire, AdviseAdd, SayCheck, SayNamed, SayDefer, UnadviseCheck,
           UnadviseNamed, UnadviseFire
  <2>4. \A n \in Names : DeleteSession(n) => m_statements' = m_statements
    BY DEF DeleteSession
  <2> QED
    BY <2>1, <2>2, <2>3, <2>4 DEF Next
<1> QED
  BY <1>2, <1>4, <1>5, <1>6

(* An event's kind is the first thing in it, a statement the second.       *)
LEMMA EventFacts ==
  ASSUME NEW c \in Clients, NEW x
  PROVE  /\ <<"new", c>>[1] # "statement" /\ <<"left", c>>[1] # "statement"
         /\ <<"statement", x>>[1] = "statement" /\ <<"statement", x>>[2] = x
OBVIOUS

(* What was sent stays on the record when no event is sent.                *)
LEMMA QuietWritten ==
  ASSUME IInv, Next, sent' = sent, \A c \in Clients : at[c] # "start" => my'[c] = my[c]
  PROVE  SentWritten'
<1>1. SUFFICES ASSUME NEW c \in Clients, NEW i \in Told(c)
               PROVE  Written(my[c], sent[c][i][2])' /\ my'[c] = my[c]
  BY DEF SentWritten, Told
<1>2. sent[c] # <<>>
  BY <1>1, SMT DEF Told
<1>3. my[c] \in Objects /\ my'[c] = my[c]
  BY <1>2 DEF IInv, Seated
<1>4. Written(my[c], sent[c][i][2])
  BY <1>1 DEF IInv, Recorded, SentWritten
<1> QED
  BY <1>3, <1>4, RecordGrows DEF Written

(* An event that is no statement, or a recorded one, keeps what was sent   *)
(* on the record.                                                          *)
LEMMA FiredWritten ==
  ASSUME IInv, Next, NEW s \in Objects, NEW ev \in Events, Fire(s, ev), my' = my,
         ev[1] = "statement" => Written(s, ev[2])
  PROVE  SentWritten'
<1>1. SUFFICES ASSUME NEW c \in Clients, NEW i \in DOMAIN sent'[c], sent'[c][i][1] = "statement"
               PROVE  Written(my[c], sent[c][i][2])'
  BY DEF SentWritten, Told
<1>2. sent[c] \in Seq(Events)
  BY DEF IInv, TypeOK
<1>3. CASE i \in DOMAIN sent[c] /\ sent'[c][i] = sent[c][i]
  <2>1. sent[c] # <<>> /\ i \in Told(c)
    BY <1>1, <1>3, SMT DEF Told
  <2>2. my[c] \in Objects
    BY <2>1 DEF IInv, Seated
  <2>3. Written(my[c], sent[c][i][2])
    BY <2>1 DEF IInv, Recorded, SentWritten
  <2> QED
    BY <1>3, <2>2, <2>3, RecordGrows DEF Written
<1>4. CASE sent'[c][i] = ev /\ c \in m_Listeners[s]
  <2>1. my[c] = s
    BY <1>4 DEF IInv, Seated
  <2>2. Written(s, ev[2])
    BY <1>1, <1>4
  <2> QED
    BY <1>4, <2>1, <2>2, RecordGrows DEF Written
<1>5. \/ sent'[c] = sent[c]
      \/ c \in m_Listeners[s] /\ sent'[c] = Append(sent[c], ev)
  BY Fires DEF IInv
<1> QED
  BY <1>1, <1>2, <1>3, <1>4, <1>5, Appended, SMT

(* No statement is about to be deferred that was not before.               *)
NoNewDefer ==
  \A c \in Clients : at'[c] = "say_defer" =>
     at[c] = "say_defer" /\ my'[c] = my[c] /\ said'[c] = said[c]

(* The statements on their way to the queue stay recorded.                 *)
LEMMA DeferWritten ==
  ASSUME IInv, Next, NoNewDefer
  PROVE  \A c \in Clients : at'[c] = "say_defer" => Written(my[c], <<c, said[c]>>)'
<1> SUFFICES ASSUME NEW c \in Clients, at'[c] = "say_defer"
             PROVE  Written(my[c], <<c, said[c]>>)'
  OBVIOUS
<1>1. at[c] = "say_defer" /\ my'[c] = my[c] /\ said'[c] = said[c]
  BY DEF NoNewDefer
<1>2. my[c] \in Objects /\ Written(my[c], <<c, said[c]>>)
  BY <1>1 DEF IInv, Seated, Recorded
<1> QED
  BY <1>1, <1>2, RecordGrows DEF Written

(* A queue that holds what it held, or a recorded item, stays recorded.    *)
LEMMA WorkWritten ==
  ASSUME IInv, Next, NEW item \in Items, Written(item.cs, item.stmt)',
         \A i \in DOMAIN work' : work'[i] = item \/ \E j \in DOMAIN work : work'[i] = work[j]
  PROVE  \A i \in DOMAIN work' : Written(work[i].cs, work[i].stmt)'
<1> SUFFICES ASSUME NEW i \in DOMAIN work'
             PROVE  Written(work[i].cs, work[i].stmt)'
  OBVIOUS
<1>1. CASE work'[i] = item
  BY <1>1 DEF Written
<1>2. CASE \E j \in DOMAIN work : work'[i] = work[j]
  <2>1. PICK j \in DOMAIN work : work'[i] = work[j]
    BY <1>2
  <2>2. work[j] \in Items /\ Written(work[j].cs, work[j].stmt)
    BY SMT DEF IInv, TypeOK, Recorded
  <2>3. work[j].cs \in Objects
    BY <2>2 DEF Items
  <2> QED
    BY <2>1, <2>2, <2>3, RecordGrows DEF Written
<1> QED
  BY <1>1, <1>2

(* A step that leaves the queue and the worker alone keeps the record.     *)
LEMMA QuietRecorded ==
  ASSUME IInv, Next, work' = work, worker' = worker, SentWritten', NoNewDefer
  PROVE  Recorded'
<1>1. \A i \in DOMAIN work' : Written(work[i].cs, work[i].stmt)'
  <2> SUFFICES ASSUME NEW i \in DOMAIN work
               PROVE  Written(work[i].cs, work[i].stmt)'
    OBVIOUS
  <2>1. work[i] \in Items /\ Written(work[i].cs, work[i].stmt)
    BY SMT DEF IInv, TypeOK, Recorded
  <2>2. work[i].cs \in Objects
    BY <2>1 DEF Items
  <2> QED
    BY <2>1, <2>2, RecordGrows DEF Written
<1>2. worker'.pc = "fire" => worker'.data \in Items /\ Written(worker.data.cs, worker.data.stmt)'
  <2> SUFFICES ASSUME worker.pc = "fire"
               PROVE  worker.data \in Items /\ Written(worker.data.cs, worker.data.stmt)'
    OBVIOUS
  <2>1. worker.data \in Items /\ Written(worker.data.cs, worker.data.stmt)
    BY DEF IInv, Recorded
  <2>2. worker.data.cs \in Objects
    BY <2>1 DEF Items
  <2> QED
    BY <2>1, <2>2, RecordGrows DEF Written
<1>3. worker'.pc = "take" => work' # <<>>
  BY DEF IInv, Recorded
<1> QED
  BY <1>1, <1>2, <1>3, DeferWritten DEF Recorded

(* A recorded statement that is deferred keeps the record.                 *)
LEMMA DeferRecorded ==
  ASSUME IInv, Next, NEW item \in Items, Defer(item), Written(item.cs, item.stmt)',
         SentWritten', NoNewDefer
  PROVE  Recorded'
<1>1. TypeOK /\ (worker.pc = "take" => work # <<>>)
  BY DEF IInv, Recorded
<1>2. /\ worker'.pc = "fire" => worker' = worker
      /\ worker'.pc = "take" => work' # <<>>
      /\ \A i \in DOMAIN work' : work'[i] = item \/ \E j \in DOMAIN work : work'[i] = work[j]
  BY <1>1, Defers
<1>3. \A i \in DOMAIN work' : Written(work[i].cs, work[i].stmt)'
  BY <1>2, WorkWritten
<1>4. worker'.pc = "fire" => worker'.data \in Items /\ Written(worker.data.cs, worker.data.stmt)'
  <2> SUFFICES ASSUME worker'.pc = "fire"
               PROVE  worker'.data \in Items /\ Written(worker.data.cs, worker.data.stmt)'
    OBVIOUS
  <2>1. worker.data \in Items /\ Written(worker.data.cs, worker.data.stmt) /\ worker' = worker
    BY <1>2 DEF IInv, Recorded
  <2>2. worker.data.cs \in Objects
    BY <2>1 DEF Items
  <2> QED
    BY <2>1, <2>2, RecordGrows DEF Written
<1> QED
  BY <1>2, <1>3, <1>4, DeferWritten DEF Recorded

(* Every step keeps queued, taken and sent statements on the record.       *)
LEMMA RecordedKept ==
  ASSUME IInv, Next
  PROVE  Recorded'
<1> USE DEF sessionVars, workVars, clientVars
<1>1. /\ at \in [Clients -> {"start", "found", "chat", "left"} \cup InCall]
      /\ my \in [Clients -> Objects \cup {None}]
      /\ said \in [Clients -> 0 .. MaxSay]
      /\ m_statements \in [Objects -> Seq(Stmts)]
      /\ work \in Seq(Items) /\ TypeOK
  BY DEF IInv, TypeOK
<1>2. /\ \A c \in Clients : at[c] # "start" => my[c] \in Objects
      /\ \A c \in Clients : at[c] \in Saying => said[c] # 0
      /\ \A x \in posted : at[x[1]] # "start"
  BY DEF IInv, Seated
<1>3. CASE worker_look
  <2>1. work' = work /\ sent' = sent /\ my' = my /\ at' = at /\ said' = said
    BY <1>3 DEF worker_look
  <2>2. SentWritten' /\ NoNewDefer
    BY <2>1, QuietWritten DEF NoNewDefer
  <2>3. m_statements' = m_statements
    BY <1>3 DEF worker_look
  <2>4. worker'.pc # "fire" /\ (worker'.pc = "take" => work' # <<>>)
    BY <1>1, <1>3 DEF worker_look, TypeOK
  <2>5. \A i \in DOMAIN work : Written(work[i].cs, work[i].stmt)'
    BY <2>1, <2>3 DEF IInv, Recorded, Written
  <2> QED
    BY <2>1, <2>2, <2>4, <2>5, DeferWritten DEF Recorded
<1>4. CASE worker_take
  <2>1. sent' = sent /\ my' = my /\ at' = at /\ said' = said
    BY <1>4 DEF worker_take
  <2>2. SentWritten' /\ NoNewDefer
    BY <2>1, QuietWritten DEF NoNewDefer
  <2>3. m_statements' = m_statements /\ work' = Tail(work) /\ worker' = [pc |-> "fire", data |-> Head(work)]
    BY <1>4 DEF worker_take
  <2>4. work # <<>>
    BY <1>4 DEF worker_take, IInv, Recorded
  <2>5. /\ Head(work) = work[1] /\ Head(work) \in Items /\ 1 \in DOMAIN work
        /\ \A i \in DOMAIN Tail(work) : i + 1 \in DOMAIN work /\ Tail(work)[i] = work[i + 1]
    BY <1>1, <2>4, Taken
  <2>6. \A i \in DOMAIN work : Written(work[i].cs, work[i].stmt)
    BY DEF IInv, Recorded
  <2>7. \A i \in DOMAIN work' : Written(work[i].cs, work[i].stmt)'
    BY <2>3, <2>5, <2>6 DEF Written
  <2>8. worker'.pc = "fire" /\ worker'.data \in Items /\ Written(worker.data.cs, worker.data.stmt)'
    BY <2>3, <2>5, <2>6 DEF Written
  <2> QED
    BY <2>2, <2>7, <2>8, DeferWritten DEF Recorded
<1>5. CASE Fire_OnNewStatement
  <2>1. worker.data \in Items /\ Written(worker.data.cs, worker.data.stmt)
    BY <1>5 DEF Fire_OnNewStatement, IInv, Recorded
  <2>2. /\ worker.data.cs \in Objects
        /\ <<"statement", worker.data.stmt>> \in Events
        /\ <<"statement", worker.data.stmt>>[2] = worker.data.stmt
    BY <2>1 DEF Items, Events
  <2>3. SentWritten'
    BY <2>1, <2>2, <1>5, FiredWritten DEF Fire_OnNewStatement
  <2>4. work' = work /\ my' = my /\ at' = at /\ said' = said /\ m_statements' = m_statements /\ worker' = Idle
    BY <1>5 DEF Fire_OnNewStatement
  <2>5. NoNewDefer /\ worker'.pc # "fire" /\ worker'.pc # "take"
    BY <2>4 DEF NoNewDefer, Idle
  <2>6. \A i \in DOMAIN work : Written(work[i].cs, work[i].stmt)'
    BY <2>4 DEF IInv, Recorded, Written
  <2> QED
    BY <2>3, <2>4, <2>5, <2>6, DeferWritten DEF Recorded
<1>6. ASSUME NEW c \in Clients, NEW n \in Names, FindSession(c, n) PROVE Recorded'
  <2>1. PICK s \in Objects : my' = [my EXCEPT ![c] = s]
    BY <1>6 DEF FindSession
  <2>2. at[c] = "start" /\ at' = [at EXCEPT ![c] = "found"]
        /\ UNCHANGED <<work, worker, sent, said>>
    BY <1>6 DEF FindSession, Goto
  <2>3. \A d \in Clients : at[d] # "start" => my'[d] = my[d]
    BY <1>1, <2>1, <2>2
  <2>4. NoNewDefer
    BY <1>1, <2>2, <2>3 DEF NoNewDefer
  <2> QED
    BY <2>2, <2>3, <2>4, QuietWritten, QuietRecorded
<1>7. ASSUME NEW c \in Clients, AdviseCall(c) PROVE Recorded'
  <2>1. work' = work /\ worker' = worker /\ sent' = sent /\ my' = my
    BY <1>7 DEF AdviseCall
  <2>2. NoNewDefer
    BY <1>1, <1>7 DEF AdviseCall, Goto, NoNewDefer
  <2> QED
    BY <2>1, <2>2, QuietWritten, QuietRecorded
<1>8. ASSUME NEW c \in Clients, AdviseFire(c) PROVE Recorded'
  <2>1. my[c] \in Objects /\ <<"new", c>> \in Events /\ <<"new", c>>[1] # "statement"
    BY <1>2, <1>8, EventFacts DEF AdviseFire, Events
  <2>2. SentWritten'
    BY <2>1, <1>8, FiredWritten DEF AdviseFire
  <2>3. work' = work /\ worker' = worker /\ NoNewDefer
    BY <1>1, <1>8 DEF AdviseFire, Goto, NoNewDefer
  <2> QED
    BY <2>2, <2>3, QuietRecorded
<1>9. ASSUME NEW c \in Clients, AdviseAdd(c) PROVE Recorded'
  <2>1. work' = work /\ worker' = worker /\ sent' = sent /\ my' = my
    BY <1>9 DEF AdviseAdd
  <2>2. NoNewDefer
    BY <1>1, <1>9 DEF AdviseAdd, Goto, NoNewDefer
  <2> QED
    BY <2>1, <2>2, QuietWritten, QuietRecorded
<1>10. ASSUME NEW c \in Clients, SayCall(c) PROVE Recorded'
  <2>1. work' = work /\ worker' = worker /\ sent' = sent /\ my' = my
    BY <1>10 DEF SayCall
  <2>2. NoNewDefer
    BY <1>1, <1>10 DEF SayCall, Goto, NoNewDefer
  <2> QED
    BY <2>1, <2>2, QuietWritten, QuietRecorded
<1>11. ASSUME NEW c \in Clients, SayCheck(c) PROVE Recorded'
  <2>1. work' = work /\ worker' = worker /\ sent' = sent /\ my' = my
    BY <1>11 DEF SayCheck
  <2>2. NoNewDefer
    BY <1>1, <1>11 DEF SayCheck, Goto, NoNewDefer
  <2> QED
    BY <2>1, <2>2, QuietWritten, QuietRecorded
<1>12. ASSUME NEW c \in Clients, SayNamed(c) PROVE Recorded'
  <2>1. work' = work /\ worker' = worker /\ sent' = sent /\ my' = my /\ said' = said
    BY <1>12 DEF SayNamed
  <2>2. CASE c \notin alive
    <3>1. NoNewDefer
      BY <1>1, <2>1, <2>2, <1>12 DEF SayNamed, Goto, NoNewDefer
    <3> QED
      BY <2>1, <3>1, QuietWritten, QuietRecorded
  <2>3. CASE c \in alive
    <3>1. my[c] \in Objects /\ <<c, said[c]>> \in Stmts /\ at[c] = "say_name"
      BY <1>1, <1>2, <1>12, SayBound, SMT DEF SayNamed, Saying, Stmts
    <3>2. m_statements'[my[c]] = Append(m_statements[my[c]], <<c, said[c]>>)
      BY <1>1, <2>3, <3>1, <1>12 DEF SayNamed
    <3>3. Written(my[c], <<c, said[c]>>)'
      BY <1>1, <2>1, <3>1, <3>2, Adds DEF Written
    <3>4. \A d \in Clients : d # c => at'[d] = at[d]
      BY <1>1, <2>3, <1>12 DEF SayNamed, Goto
    <3>5. \A d \in Clients : at'[d] = "say_defer" => Written(my[d], <<d, said[d]>>)'
      <4> SUFFICES ASSUME NEW d \in Clients, d # c, at[d] = "say_defer"
                   PROVE  Written(my[d], <<d, said[d]>>)'
        BY <3>3, <3>4
      <4>1. my[d] \in Objects /\ Written(my[d], <<d, said[d]>>)
        BY <1>2 DEF IInv, Recorded
      <4> QED
        BY <2>1, <4>1, RecordGrows DEF Written
    <3>6. SentWritten'
      BY <2>1, QuietWritten
    <3>7. \A i \in DOMAIN work' : Written(work[i].cs, work[i].stmt)'
      <4> SUFFICES ASSUME NEW i \in DOMAIN work
                   PROVE  Written(work[i].cs, work[i].stmt)'
        BY <2>1
      <4>1. work[i] \in Items /\ Written(work[i].cs, work[i].stmt)
        BY <1>1, SMT DEF IInv, Recorded
      <4>2. work[i].cs \in Objects
        BY <4>1 DEF Items
      <4> QED
        BY <2>1, <4>1, <4>2, RecordGrows DEF Written
    <3>8. worker'.pc = "fire" => worker'.data \in Items /\ Written(worker.data.cs, worker.data.stmt)'
      <4> SUFFICES ASSUME worker.pc = "fire"
                   PROVE  worker.data \in Items /\ Written(worker.data.cs, worker.data.stmt)'
        BY <2>1
      <4>1. worker.data \in Items /\ Written(worker.data.cs, worker.data.stmt)
        BY DEF IInv, Recorded
      <4>2. worker.data.cs \in Objects
        BY <4>1 DEF Items
      <4> QED
        BY <2>1, <4>1, <4>2, RecordGrows DEF Written
    <3> QED
      BY <2>1, <3>5, <3>6, <3>7, <3>8 DEF Recorded, IInv
  <2> QED
    BY <2>2, <2>3
<1>13. ASSUME NEW c \in Clients, SayDefer(c) PROVE Recorded'
  <2>1. my[c] \in Objects /\ Written(my[c], <<c, said[c]>>) /\ <<c, said[c]>> \in Stmts
    BY <1>1, <1>2, <1>13, SayBound, SMT DEF SayDefer, Saying, Stmts, IInv, Recorded
  <2>2. PICK item \in Items : item.cs = my[c] /\ item.stmt = <<c, said[c]>> /\ Defer(item)
    BY <2>1, <1>13 DEF SayDefer, Items
  <2>3. Written(my[c], <<c, said[c]>>) /\ m_statements' = m_statements
    BY <2>1, <1>13 DEF SayDefer
  <2>4. Written(item.cs, item.stmt)'
    BY <2>2, <2>3 DEF Written
  <2>5. sent' = sent /\ my' = my /\ said' = said
    BY <1>13 DEF SayDefer
  <2>6. NoNewDefer
    BY <1>1, <2>5, <1>13 DEF SayDefer, Goto, NoNewDefer
  <2>7. SentWritten'
    BY <2>5, QuietWritten
  <2> QED
    BY <2>2, <2>4, <2>6, <2>7, DeferRecorded
<1>14. ASSUME NEW c \in Clients, AsyncCall(c) PROVE Recorded'
  <2>1. work' = work /\ worker' = worker /\ sent' = sent /\ my' = my
    BY <1>14 DEF AsyncCall
  <2>2. NoNewDefer
    BY <1>1, <1>14 DEF AsyncCall, Goto, NoNewDefer
  <2> QED
    BY <2>1, <2>2, QuietWritten, QuietRecorded
<1>15. ASSUME NEW c \in Clients, NEW k \in 1 .. MaxSay, AsyncSay(c, k) PROVE Recorded'
  <2>1. my[c] \in Objects /\ <<c, k>> \in Stmts
    BY <1>2, <1>15 DEF AsyncSay, Stmts
  <2>2. PICK item \in Items : item.cs = my[c] /\ item.stmt = <<c, k>> /\ Defer(item)
    BY <2>1, <1>15 DEF AsyncSay, Items
  <2>3. m_statements'[my[c]] = Append(m_statements[my[c]], <<c, k>>)
    BY <1>1, <2>1, <1>15 DEF AsyncSay
  <2>4. <<c, k>> \in Range(m_statements'[my[c]])
    BY <1>1, <2>1, <2>3, Adds
  <2>5. sent' = sent /\ my' = my /\ said' = said /\ at' = at
    BY <1>15 DEF AsyncSay
  <2>6. Written(item.cs, item.stmt)'
    BY <2>2, <2>4 DEF Written
  <2>7. NoNewDefer
    BY <2>5 DEF NoNewDefer
  <2>8. SentWritten'
    BY <2>5, QuietWritten
  <2> QED
    BY <2>2, <2>6, <2>7, <2>8, DeferRecorded
<1>16. ASSUME NEW c \in Clients, UnadviseCall(c) PROVE Recorded'
  <2>1. work' = work /\ worker' = worker /\ sent' = sent /\ my' = my
    BY <1>16 DEF UnadviseCall
  <2>2. NoNewDefer
    BY <1>1, <1>16 DEF UnadviseCall, Goto, NoNewDefer
  <2> QED
    BY <2>1, <2>2, QuietWritten, QuietRecorded
<1>17. ASSUME NEW c \in Clients, UnadviseCheck(c) PROVE Recorded'
  <2>1. work' = work /\ worker' = worker /\ sent' = sent /\ my' = my
    BY <1>17 DEF UnadviseCheck
  <2>2. NoNewDefer
    BY <1>1, <1>17 DEF UnadviseCheck, Goto, NoNewDefer
  <2> QED
    BY <2>1, <2>2, QuietWritten, QuietRecorded
<1>18. ASSUME NEW c \in Clients, UnadviseNamed(c) PROVE Recorded'
  <2>1. work' = work /\ worker' = worker /\ sent' = sent /\ my' = my
    BY <1>18 DEF UnadviseNamed
  <2>2. NoNewDefer
    BY <1>1, <1>18 DEF UnadviseNamed, Goto, NoNewDefer
  <2> QED
    BY <2>1, <2>2, QuietWritten, QuietRecorded
<1>19. ASSUME NEW c \in Clients, UnadviseFire(c) PROVE Recorded'
  <2>1. my[c] \in Objects /\ <<"left", c>> \in Events /\ <<"left", c>>[1] # "statement"
    BY <1>2, <1>19, EventFacts DEF UnadviseFire, Events
  <2>2. SentWritten'
    BY <2>1, <1>19, FiredWritten DEF UnadviseFire
  <2>3. work' = work /\ worker' = worker /\ NoNewDefer
    BY <1>1, <1>19 DEF UnadviseFire, Goto, NoNewDefer
  <2> QED
    BY <2>2, <2>3, QuietRecorded
<1>20. ASSUME NEW c \in Clients, Dies(c) PROVE Recorded'
  <2>1. work' = work /\ worker' = worker /\ sent' = sent /\ my' = my
    BY <1>20 DEF Dies
  <2>2. NoNewDefer
    BY <1>1, <1>20 DEF Dies, Goto, NoNewDefer
  <2> QED
    BY <2>1, <2>2, QuietWritten, QuietRecorded
<1>21. ASSUME NEW n \in Names, DeleteSession(n) PROVE Recorded'
  <2>1. work' = work /\ worker' = worker /\ sent' = sent /\ my' = my
    BY <1>21 DEF DeleteSession
  <2>2. NoNewDefer
    BY <1>1, <1>21 DEF DeleteSession, Goto, NoNewDefer
  <2> QED
    BY <2>1, <2>2, QuietWritten, QuietRecorded
<1>22. CASE Damaged
  <2>1. work' = work /\ worker' = worker /\ sent' = sent /\ my' = my
    BY <1>22 DEF Damaged
  <2>2. NoNewDefer
    BY <1>1, <1>22 DEF Damaged, NoNewDefer
  <2> QED
    BY <2>1, <2>2, QuietWritten, QuietRecorded
<1> QED
  BY <1>3, <1>4, <1>5, <1>6, <1>7, <1>8, <1>9, <1>10, <1>11, <1>12, <1>13, <1>14, <1>15, <1>16, <1>17, <1>18, <1>19, <1>20, <1>21, <1>22
  DEF Next, threadLoop, Serve, Client

(* A statement is the pair of its speaker and its number.                  *)
LEMMA StmtFacts ==
  ASSUME NEW x \in Stmts
  PROVE  x[1] \in Clients /\ x[2] \in Nat /\ x[2] \in 1 .. MaxSay /\ x = <<x[1], x[2]>>
BY SayBound, SMT DEF Stmts

(* No statement enters the queue, the worker's hands or an sent.          *)
NothingMoves ==
  /\ work' = work /\ sent' = sent /\ raced' = raced
  /\ worker'.pc = "fire" => worker' = worker

(* A step that moves no statement and starts none keeps them in one place. *)
LEMMA QuietOnce ==
  ASSUME IInv, NothingMoves, posted' \subseteq posted, said' = said,
         \A c \in Clients : at'[c] \in Saying => at[c] \in Saying
  PROVE  Once'
<1> SUFFICES ASSUME ~raced
             PROVE  (QueuedOnce /\ SentOnce /\ \A x \in Stmts : InOnePlace(x))'
  BY DEF Once, NothingMoves
<1>1. QueuedOnce /\ SentOnce /\ \A x \in Stmts : InOnePlace(x)
  BY DEF IInv, Once
<1>2. QueuedOnce' /\ SentOnce'
  BY <1>1, SMT DEF QueuedOnce, SentOnce, Told, NothingMoves
<1>3. ASSUME NEW x \in Stmts PROVE InOnePlace(x)'
  <2>1. x[1] \in Clients
    BY StmtFacts
  <2>2. /\ Meant(x)' => Meant(x)
        /\ Queued(x)' => Queued(x)
        /\ Sending(x)' => Sending(x)
        /\ Got(x)' => Got(x)
    BY <2>1 DEF Meant, Queued, Sending, Got, NothingMoves
  <2>3. InOnePlace(x)
    BY <1>1
  <2> QED
    BY <2>1, <2>2, <2>3 DEF InOnePlace
<1> QED
  BY <1>2, <1>3

(* A statement that has just been counted is nowhere yet.                  *)
LEMMA NewOnce ==
  ASSUME IInv, NothingMoves, worker' = worker, NEW c \in Clients, at[c] = "chat",
         said' = [said EXCEPT ![c] = @ + 1],
         \/ posted' = posted /\ at' = [at EXCEPT ![c] = "say_check"]
         \/ posted' = posted \cup {<<c, said[c] + 1>>} /\ at' = at
  PROVE  Once'
<1> SUFFICES ASSUME ~raced
             PROVE  (QueuedOnce /\ SentOnce /\ \A x \in Stmts : InOnePlace(x))'
  BY DEF Once, NothingMoves
<1>1. QueuedOnce /\ SentOnce /\ \A x \in Stmts : InOnePlace(x)
  BY DEF IInv, Once
<1>2. QueuedOnce' /\ SentOnce'
  BY <1>1, SMT DEF QueuedOnce, SentOnce, Told, NothingMoves
<1>3. said \in [Clients -> 0 .. MaxSay] /\ at \in [Clients -> {"start", "found", "chat", "left"} \cup InCall]
  BY DEF IInv, TypeOK
<1>4. ASSUME NEW x \in Stmts PROVE InOnePlace(x)'
  <2>1. x[1] \in Clients /\ x[2] \in Nat /\ x = <<x[1], x[2]>>
    BY StmtFacts
  <2>2. /\ Queued(x)' = Queued(x)
        /\ Sending(x)' = Sending(x)
        /\ Got(x)' = Got(x)
    BY DEF Queued, Sending, Got, NothingMoves
  <2>3. InOnePlace(x)
    BY <1>1
  <2>4. CASE x = <<c, said[c] + 1>>
    <3>1. x[1] = c /\ x[2] = said[c] + 1
      BY <2>4
    <3>2. ~(x[2] <= said[x[1]]) /\ said'[x[1]] = x[2]
      BY <1>3, <3>1, SayBound, SMT
    <3>3. ~Queued(x) /\ ~Sending(x) /\ ~Got(x) /\ x \notin posted
      BY <2>3, <3>2 DEF InOnePlace, Meant
    <3>4. at'[c] \in Saying => x \notin posted'
      BY <1>3, <3>3 DEF Saying
    <3> QED
      BY <2>1, <2>2, <3>1, <3>2, <3>3, <3>4, SMT DEF InOnePlace
  <2>5. CASE x # <<c, said[c] + 1>>
    <3>1. x[1] = c => x[2] # said'[x[1]]
      BY <1>3, <2>1, <2>5, SayBound
    <3>2. x \in posted' <=> x \in posted
      BY <2>5
    <3>3. x[1] # c => at'[x[1]] = at[x[1]] /\ said'[x[1]] = said[x[1]]
      BY <1>3, <2>1
    <3>4. at'[x[1]] \in Saying /\ x[2] = said'[x[1]] => at[x[1]] \in Saying /\ x[2] = said[x[1]]
      BY <3>1, <3>3
    <3>5. Meant(x)' => Meant(x)
      BY <3>2, <3>4 DEF Meant
    <3>6. x[2] <= said[x[1]] => x[2] <= said'[x[1]]
      BY <1>3, <2>1, SayBound, SMT
    <3> QED
      BY <2>2, <2>3, <3>2, <3>4, <3>5, <3>6 DEF InOnePlace
  <2> QED
    BY <2>4, <2>5
<1> QED
  BY <1>2, <1>4

(* A statement that is deferred leaves where it was for the queue.         *)
LEMMA DeferOnce ==
  ASSUME IInv, NEW item \in Items, Defer(item), Meant(item.stmt), ~Meant(item.stmt)',
         sent' = sent, said' = said, posted' \subseteq posted,
         \A c \in Clients : at'[c] \in Saying => at[c] \in Saying
  PROVE  Once'
<1> SUFFICES ASSUME ~raced'
             PROVE  (QueuedOnce /\ SentOnce /\ \A x \in Stmts : InOnePlace(x))'
  BY DEF Once
<1>1. TypeOK /\ (worker.pc = "take" => work # <<>>) /\ work \in Seq(Items)
  BY DEF IInv, Recorded, TypeOK
<1>2. /\ worker'.pc = "fire" => worker' = worker
      /\ ~raced /\ work' \in {work, Append(work, item)}
  BY <1>1, Defers
<1>3. QueuedOnce /\ SentOnce /\ \A x \in Stmts : InOnePlace(x)
  BY <1>2 DEF IInv, Once
<1>4. item.stmt \in Stmts
  BY DEF Items
<1>5. ~Queued(item.stmt) /\ ~Sending(item.stmt) /\ ~Got(item.stmt)
  BY <1>3, <1>4 DEF InOnePlace
<1>6. QueuedOnce'
  <2>1. CASE work' = work
    BY <1>3, <2>1 DEF QueuedOnce
  <2>2. CASE work' = Append(work, item)
    <3>1. /\ DOMAIN work' = DOMAIN work \cup {Len(work) + 1}
          /\ \A i \in DOMAIN work : work'[i] = work[i]
          /\ work'[Len(work) + 1] = item
      BY <1>1, <2>2, Appended, SMT
    <3>2. \A i \in DOMAIN work : work[i].stmt # item.stmt
      BY <1>5 DEF Queued
    <3> QED
      BY <1>3, <3>1, <3>2 DEF QueuedOnce
  <2> QED
    BY <1>2, <2>1, <2>2
<1>7. SentOnce'
  BY <1>3, SMT DEF SentOnce, Told
<1>8. ASSUME NEW x \in Stmts PROVE InOnePlace(x)'
  <2>1. x[1] \in Clients
    BY StmtFacts
  <2>2. /\ Meant(x)' => Meant(x)
        /\ Sending(x)' => Sending(x)
        /\ Got(x)' => Got(x)
    BY <1>2, <2>1 DEF Meant, Sending, Got
  <2>3. Queued(x)' => Queued(x) \/ x = item.stmt
    BY <1>1, <1>2, Appended, SMT DEF Queued
  <2>4. InOnePlace(x)
    BY <1>3
  <2>5. CASE x = item.stmt
    BY <1>5, <2>1, <2>2, <2>4, <2>5 DEF InOnePlace
  <2>6. CASE x # item.stmt
    BY <2>1, <2>2, <2>3, <2>4, <2>6 DEF InOnePlace
  <2> QED
    BY <2>5, <2>6
<1> QED
  BY <1>6, <1>7, <1>8

(* The statement the worker takes is no longer in the queue.               *)
LEMMA TakeOnce ==
  ASSUME IInv, worker_take
  PROVE  Once'
<1> USE DEF sessionVars, clientVars
<1> SUFFICES ASSUME ~raced
             PROVE  (QueuedOnce /\ SentOnce /\ \A x \in Stmts : InOnePlace(x))'
  BY DEF Once, worker_take
<1>1. QueuedOnce /\ SentOnce /\ \A x \in Stmts : InOnePlace(x)
  BY DEF IInv, Once
<1>2. /\ worker.pc = "take" /\ worker' = [pc |-> "fire", data |-> Head(work)] /\ work' = Tail(work)
      /\ sent' = sent /\ at' = at /\ said' = said /\ posted' = posted
  BY DEF worker_take
<1>3. work \in Seq(Items) /\ work # <<>>
  BY <1>2 DEF IInv, TypeOK, Recorded
<1>4. /\ Head(work) = work[1] /\ Head(work) \in Items /\ 1 \in DOMAIN work
      /\ \A i \in DOMAIN Tail(work) : i + 1 \in DOMAIN work /\ i + 1 # 1 /\ Tail(work)[i] = work[i + 1]
      /\ DOMAIN Tail(work) \subseteq Nat
  BY <1>3, Taken
<1>5. QueuedOnce'
  <2> SUFFICES ASSUME NEW i \in DOMAIN Tail(work), NEW j \in DOMAIN Tail(work),
                      Tail(work)[i].stmt = Tail(work)[j].stmt
               PROVE  i = j
    BY <1>2 DEF QueuedOnce
  <2>1. i + 1 = j + 1
    BY <1>1, <1>4, SMT DEF QueuedOnce
  <2> QED
    BY <1>4, <2>1, SMT
<1>6. SentOnce'
  BY <1>1, <1>2, SMT DEF SentOnce, Told
<1>7. ASSUME NEW x \in Stmts PROVE InOnePlace(x)'
  <2>1. Meant(x)' = Meant(x) /\ Got(x)' = Got(x) /\ ~Sending(x)
    BY <1>2 DEF Meant, Got, Sending
  <2>2. Queued(x)' => Queued(x) /\ x # Head(work).stmt
    <3> SUFFICES ASSUME NEW i \in DOMAIN Tail(work), Tail(work)[i].stmt = x
                 PROVE  Queued(x) /\ x # Head(work).stmt
      BY <1>2 DEF Queued
    <3>1. work[i + 1].stmt = x /\ i + 1 \in DOMAIN work /\ i + 1 # 1
      BY <1>4
    <3> QED
      BY <1>1, <1>4, <3>1 DEF Queued, QueuedOnce
  <2>3. Sending(x)' => Queued(x) /\ x = Head(work).stmt
    BY <1>2, <1>4 DEF Sending, Queued
  <2>4. InOnePlace(x)
    BY <1>1
  <2> QED
    BY <1>2, <2>1, <2>2, <2>3, <2>4 DEF InOnePlace
<1> QED
  BY <1>5, <1>6, <1>7

(* An event that is no statement, or one nobody has got, is new to every   *)
(* member, and is all that the members get.                                *)
LEMMA FiredOnce ==
  ASSUME IInv, SentOnce, NEW s \in Objects, NEW ev \in Events, Fire(s, ev),
         \A x \in Stmts : ev = <<"statement", x>> => ~Got(x)
  PROVE  /\ SentOnce'
         /\ \A x \in Stmts : Got(x)' => Got(x) \/ ev = <<"statement", x>>
<1>1. sent \in [Clients -> Seq(Events)]
  BY DEF IInv, TypeOK
<1>2. \A d \in Clients : \/ sent'[d] = sent[d]
                         \/ sent'[d] = Append(sent[d], ev)
  BY Fires DEF IInv
<1>3. ev[1] = "statement" => \E x \in Stmts : ev = <<"statement", x>>
  BY SMT DEF Events
<1>4. ASSUME NEW d \in Clients, NEW i \in DOMAIN sent'[d], NEW j \in DOMAIN sent'[d],
             sent'[d][i][1] = "statement", sent'[d][i] = sent'[d][j]
      PROVE  i = j
  <2>1. CASE sent'[d] = sent[d]
    BY <1>4, <2>1 DEF SentOnce, Told
  <2>2. CASE sent'[d] = Append(sent[d], ev)
    <3>1. /\ DOMAIN sent'[d] = DOMAIN sent[d] \cup {Len(sent[d]) + 1}
          /\ \A k \in DOMAIN sent[d] : sent'[d][k] = sent[d][k]
          /\ sent'[d][Len(sent[d]) + 1] = ev
      BY <1>1, <2>2, Appended, SMT
    <3>2. ev[1] = "statement" => \A k \in DOMAIN sent[d] : sent[d][k] # ev
      BY <1>3 DEF Got
    <3>3. \A k, l \in DOMAIN sent[d] : sent[d][k][1] = "statement" /\ sent[d][k] = sent[d][l] => k = l
      BY DEF SentOnce, Told
    <3> QED
      BY <1>4, <3>1, <3>2, <3>3
  <2> QED
    BY <1>2, <2>1, <2>2
<1>5. SentOnce'
  BY <1>4 DEF SentOnce, Told
<1>6. ASSUME NEW x \in Stmts, Got(x)' PROVE Got(x) \/ ev = <<"statement", x>>
  <2>1. PICK d \in Clients : \E i \in DOMAIN sent'[d] : sent'[d][i] = <<"statement", x>>
    BY <1>6 DEF Got
  <2>2. PICK i \in DOMAIN sent'[d] : sent'[d][i] = <<"statement", x>>
    BY <2>1
  <2>3. CASE sent'[d] = sent[d]
    BY <2>2, <2>3 DEF Got
  <2>4. CASE sent'[d] = Append(sent[d], ev)
    <3>1. /\ DOMAIN sent'[d] = DOMAIN sent[d] \cup {Len(sent[d]) + 1}
          /\ \A k \in DOMAIN sent[d] : sent'[d][k] = sent[d][k]
          /\ sent'[d][Len(sent[d]) + 1] = ev
      BY <1>1, <2>4, Appended, SMT
    <3> QED
      BY <2>2, <3>1 DEF Got
  <2> QED
    BY <1>2, <2>3, <2>4
<1> QED
  BY <1>5, <1>6

(* A step that sends an event which is no statement.                       *)
LEMMA TellOnce ==
  ASSUME IInv, NEW s \in Objects, NEW ev \in Events, Fire(s, ev), ev[1] # "statement",
         work' = work, worker' = worker, raced' = raced, posted' = posted, said' = said,
         \A c \in Clients : at'[c] \in Saying => at[c] \in Saying
  PROVE  Once'
<1> SUFFICES ASSUME ~raced
             PROVE  (QueuedOnce /\ SentOnce /\ \A x \in Stmts : InOnePlace(x))'
  BY DEF Once
<1>1. QueuedOnce /\ SentOnce /\ \A x \in Stmts : InOnePlace(x)
  BY DEF IInv, Once
<1>2. \A x : ev # <<"statement", x>>
  BY SMT
<1>3. SentOnce' /\ \A x \in Stmts : Got(x)' => Got(x)
  BY <1>1, <1>2, FiredOnce
<1>4. QueuedOnce'
  BY <1>1 DEF QueuedOnce
<1>5. ASSUME NEW x \in Stmts PROVE InOnePlace(x)'
  <2>1. x[1] \in Clients
    BY StmtFacts
  <2>2. /\ Meant(x)' => Meant(x)
        /\ Queued(x)' = Queued(x)
        /\ Sending(x)' = Sending(x)
    BY <2>1 DEF Meant, Queued, Sending
  <2> QED
    BY <1>1, <1>3, <2>1, <2>2 DEF InOnePlace
<1> QED
  BY <1>3, <1>4, <1>5

(* The statement the worker sends leaves its hands for the members.        *)
LEMMA SendOnce ==
  ASSUME IInv, Fire_OnNewStatement
  PROVE  Once'
<1> USE DEF sessionVars, clientVars
<1> SUFFICES ASSUME ~raced
             PROVE  (QueuedOnce /\ SentOnce /\ \A x \in Stmts : InOnePlace(x))'
  BY DEF Once, Fire_OnNewStatement
<1>1. QueuedOnce /\ SentOnce /\ \A x \in Stmts : InOnePlace(x)
  BY DEF IInv, Once
<1>2. /\ worker.pc = "fire" /\ worker' = Idle /\ work' = work
      /\ at' = at /\ said' = said /\ posted' = posted
      /\ worker.data \in Items
  BY DEF Fire_OnNewStatement, IInv, Recorded
<1>3. PICK y \in Stmts : y = worker.data.stmt
  BY <1>2 DEF Items
<1>4. worker.data.cs \in Objects /\ <<"statement", y>> \in Events
  BY <1>2 DEF Items, Events
<1>5. Sending(y)
  BY <1>2, <1>3 DEF Sending
<1>6. ~Got(y)
  BY <1>1, <1>5 DEF InOnePlace
<1>7. Fire(worker.data.cs, <<"statement", y>>)
  BY <1>3 DEF Fire_OnNewStatement
<1>8. \A x \in Stmts : <<"statement", y>> = <<"statement", x>> => x = y
  OBVIOUS
<1>9. SentOnce' /\ \A x \in Stmts : Got(x)' => Got(x) \/ x = y
  BY <1>1, <1>4, <1>6, <1>7, <1>8, FiredOnce
<1>10. QueuedOnce'
  BY <1>1, <1>2 DEF QueuedOnce
<1>11. ASSUME NEW x \in Stmts PROVE InOnePlace(x)'
  <2>1. /\ Meant(x)' = Meant(x)
        /\ Queued(x)' = Queued(x)
        /\ ~Sending(x)'
    BY <1>2 DEF Meant, Queued, Sending, Idle
  <2>2. Got(x)' => Got(x) \/ Sending(x)
    BY <1>5, <1>9
  <2> QED
    BY <1>1, <1>2, <2>1, <2>2 DEF InOnePlace
<1> QED
  BY <1>9, <1>10, <1>11

(* Every step keeps a statement in one place.                              *)
LEMMA OnceKept ==
  ASSUME IInv, Next
  PROVE  Once'
<1> USE DEF sessionVars, workVars, clientVars
<1>1. /\ at \in [Clients -> {"start", "found", "chat", "left"} \cup InCall]
      /\ said \in [Clients -> 0 .. MaxSay]
      /\ worker \in [pc : {"look", "wait", "take", "fire"}, data : Items \cup {<<>>}]
  BY DEF IInv, TypeOK
<1>2. /\ \A c \in Clients : at[c] # "start" => my[c] \in Objects
      /\ \A c \in Clients : at[c] \in Saying => said[c] # 0
      /\ \A x \in posted : at[x[1]] # "start"
  BY DEF IInv, Seated
<1>3. CASE worker_look
  <2>1. NothingMoves /\ posted' = posted /\ said' = said /\ at' = at
    BY <1>1, <1>3 DEF worker_look, NothingMoves
  <2> QED
    BY <2>1, QuietOnce
<1>4. CASE worker_take
  BY <1>4, TakeOnce
<1>5. CASE Fire_OnNewStatement
  BY <1>5, SendOnce
<1>6. ASSUME NEW c \in Clients, NEW n \in Names, FindSession(c, n) PROVE Once'
  <2>1. NothingMoves /\ posted' = posted /\ said' = said
    BY <1>6 DEF FindSession, NothingMoves
  <2>2. \A d \in Clients : at'[d] \in Saying => at[d] \in Saying
    BY <1>1, <1>6 DEF FindSession, Goto, Saying
  <2> QED
    BY <2>1, <2>2, QuietOnce
<1>7. ASSUME NEW c \in Clients, AdviseCall(c) PROVE Once'
  <2>1. NothingMoves /\ posted' = posted /\ said' = said
    BY <1>7 DEF AdviseCall, NothingMoves
  <2>2. \A d \in Clients : at'[d] \in Saying => at[d] \in Saying
    BY <1>1, <1>7 DEF AdviseCall, Goto, Saying
  <2> QED
    BY <2>1, <2>2, QuietOnce
<1>8. ASSUME NEW c \in Clients, AdviseFire(c) PROVE Once'
  <2>1. my[c] \in Objects /\ <<"new", c>> \in Events /\ <<"new", c>>[1] # "statement"
    BY <1>2, <1>8, EventFacts DEF AdviseFire, Events
  <2>2. \A d \in Clients : at'[d] \in Saying => at[d] \in Saying
    BY <1>1, <1>8 DEF AdviseFire, Goto, Saying
  <2> QED
    BY <2>1, <2>2, <1>8, TellOnce DEF AdviseFire
<1>9. ASSUME NEW c \in Clients, AdviseAdd(c) PROVE Once'
  <2>1. NothingMoves /\ posted' = posted /\ said' = said
    BY <1>9 DEF AdviseAdd, NothingMoves
  <2>2. \A d \in Clients : at'[d] \in Saying => at[d] \in Saying
    BY <1>1, <1>9 DEF AdviseAdd, Goto, Saying
  <2> QED
    BY <2>1, <2>2, QuietOnce
<1>10. ASSUME NEW c \in Clients, SayCall(c) PROVE Once'
  <2>1. NothingMoves /\ worker' = worker /\ posted' = posted
    BY <1>10 DEF SayCall, NothingMoves
  <2> QED
    BY <2>1, <1>10, NewOnce DEF SayCall, Goto
<1>11. ASSUME NEW c \in Clients, SayCheck(c) PROVE Once'
  <2>1. NothingMoves /\ posted' = posted /\ said' = said
    BY <1>11 DEF SayCheck, NothingMoves
  <2>2. \A d \in Clients : at'[d] \in Saying => at[d] \in Saying
    BY <1>1, <1>11 DEF SayCheck, Goto, Saying
  <2> QED
    BY <2>1, <2>2, QuietOnce
<1>12. ASSUME NEW c \in Clients, SayNamed(c) PROVE Once'
  <2>1. NothingMoves /\ posted' = posted /\ said' = said
    BY <1>12 DEF SayNamed, NothingMoves
  <2>2. \A d \in Clients : at'[d] \in Saying => at[d] \in Saying
    BY <1>1, <1>12 DEF SayNamed, Goto, Saying
  <2> QED
    BY <2>1, <2>2, QuietOnce
<1>13. ASSUME NEW c \in Clients, SayDefer(c) PROVE Once'
  <2>1. my[c] \in Objects /\ <<c, said[c]>> \in Stmts /\ at[c] \in Saying
    BY <1>1, <1>2, <1>13, SayBound, SMT DEF SayDefer, Saying, Stmts
  <2>2. PICK item \in Items : item.stmt = <<c, said[c]>> /\ Defer(item)
    BY <2>1, <1>13 DEF SayDefer, Items
  <2>3. sent' = sent /\ said' = said /\ posted' = posted /\ at' = [at EXCEPT ![c] = "chat"]
    BY <1>13 DEF SayDefer, Goto
  <2>4. item.stmt[1] = c /\ item.stmt[2] = said[c]
    BY <2>2, SMT
  <2>5. Meant(item.stmt)
    BY <2>1, <2>4 DEF Meant
  <2>6. \A d \in Clients : at'[d] \in Saying => at[d] \in Saying
    BY <1>1, <2>3 DEF Saying
  <2>7. CASE raced'
    BY <2>7 DEF Once
  <2>8. CASE ~raced'
    <3>1. ~raced
      BY <2>2, <2>8 DEF Defer, IInv, TypeOK
    <3>2. item.stmt \notin posted
      BY <2>1, <2>2, <2>4, <3>1 DEF IInv, Once, InOnePlace
    <3>3. ~Meant(item.stmt)'
      BY <1>1, <2>3, <2>4, <3>2 DEF Meant, Saying
    <3> QED
      BY <2>2, <2>3, <2>5, <2>6, <3>3, DeferOnce
  <2> QED
    BY <2>7, <2>8
<1>14. ASSUME NEW c \in Clients, AsyncCall(c) PROVE Once'
  <2>1. NothingMoves /\ worker' = worker /\ at' = at
    BY <1>14 DEF AsyncCall, NothingMoves
  <2> QED
    BY <2>1, <1>14, NewOnce DEF AsyncCall
<1>15. ASSUME NEW c \in Clients, NEW k \in 1 .. MaxSay, AsyncSay(c, k) PROVE Once'
  <2>1. my[c] \in Objects /\ <<c, k>> \in Stmts /\ <<c, k>> \in posted
    BY <1>2, <1>15 DEF AsyncSay, Stmts
  <2>2. PICK item \in Items : item.stmt = <<c, k>> /\ Defer(item)
    BY <2>1, <1>15 DEF AsyncSay, Items
  <2>3. sent' = sent /\ said' = said /\ at' = at /\ posted' = posted \ {<<c, k>>}
    BY <1>15 DEF AsyncSay
  <2>4. Meant(item.stmt)
    BY <2>1, <2>2 DEF Meant
  <2>5. CASE raced'
    BY <2>5 DEF Once
  <2>6. CASE ~raced'
    <3>1. ~raced
      BY <2>2, <2>6 DEF Defer, IInv, TypeOK
    <3>2. ~(at[item.stmt[1]] \in Saying /\ item.stmt[2] = said[item.stmt[1]])
      BY <2>1, <2>2, <3>1 DEF IInv, Once, InOnePlace
    <3>3. ~Meant(item.stmt)'
      BY <2>2, <2>3, <3>2 DEF Meant
    <3> QED
      BY <2>2, <2>3, <2>4, <3>3, DeferOnce
  <2> QED
    BY <2>5, <2>6
<1>16. ASSUME NEW c \in Clients, UnadviseCall(c) PROVE Once'
  <2>1. NothingMoves /\ posted' = posted /\ said' = said
    BY <1>16 DEF UnadviseCall, NothingMoves
  <2>2. \A d \in Clients : at'[d] \in Saying => at[d] \in Saying
    BY <1>1, <1>16 DEF UnadviseCall, Goto, Saying
  <2> QED
    BY <2>1, <2>2, QuietOnce
<1>17. ASSUME NEW c \in Clients, UnadviseCheck(c) PROVE Once'
  <2>1. NothingMoves /\ posted' = posted /\ said' = said
    BY <1>17 DEF UnadviseCheck, NothingMoves
  <2>2. \A d \in Clients : at'[d] \in Saying => at[d] \in Saying
    BY <1>1, <1>17 DEF UnadviseCheck, Goto, Saying
  <2> QED
    BY <2>1, <2>2, QuietOnce
<1>18. ASSUME NEW c \in Clients, UnadviseNamed(c) PROVE Once'
  <2>1. NothingMoves /\ posted' = posted /\ said' = said
    BY <1>18 DEF UnadviseNamed, NothingMoves
  <2>2. \A d \in Clients : at'[d] \in Saying => at[d] \in Saying
    BY <1>1, <1>18 DEF UnadviseNamed, Goto, Saying
  <2> QED
    BY <2>1, <2>2, QuietOnce
<1>19. ASSUME NEW c \in Clients, UnadviseFire(c) PROVE Once'
  <2>1. my[c] \in Objects /\ <<"left", c>> \in Events /\ <<"left", c>>[1] # "statement"
    BY <1>2, <1>19, EventFacts DEF UnadviseFire, Events
  <2>2. \A d \in Clients : at'[d] \in Saying => at[d] \in Saying
    BY <1>1, <1>19 DEF UnadviseFire, Goto, Saying
  <2> QED
    BY <2>1, <2>2, <1>19, TellOnce DEF UnadviseFire
<1>20. ASSUME NEW c \in Clients, Dies(c) PROVE Once'
  <2>1. NothingMoves /\ posted' = posted /\ said' = said
    BY <1>20 DEF Dies, NothingMoves
  <2>2. \A d \in Clients : at'[d] \in Saying => at[d] \in Saying
    BY <1>1, <1>20 DEF Dies, Goto, Saying
  <2> QED
    BY <2>1, <2>2, QuietOnce
<1>21. ASSUME NEW n \in Names, DeleteSession(n) PROVE Once'
  <2>1. NothingMoves /\ posted' = posted /\ said' = said
    BY <1>21 DEF DeleteSession, NothingMoves
  <2>2. \A d \in Clients : at'[d] \in Saying => at[d] \in Saying
    BY <1>1, <1>21 DEF DeleteSession, Goto, Saying
  <2> QED
    BY <2>1, <2>2, QuietOnce
<1>22. CASE Damaged
  <2>1. NothingMoves /\ posted' = posted /\ said' = said /\ at' = at
    BY <1>22 DEF Damaged, NothingMoves
  <2> QED
    BY <2>1, QuietOnce
<1> QED
  BY <1>3, <1>4, <1>5, <1>6, <1>7, <1>8, <1>9, <1>10, <1>11, <1>12, <1>13, <1>14, <1>15, <1>16, <1>17, <1>18, <1>19, <1>20, <1>21, <1>22
  DEF Next, threadLoop, Serve, Client

---------------------------------------------------------------------------
(* The service starts with no session, no statement and no listener.       *)
LEMMA InitKept == Init => IInv
<1> SUFFICES ASSUME Init PROVE IInv
  OBVIOUS
<1> USE Distinct, SayBound DEF Init
<1>1. TypeOK
  <2>1. <<>> \in Seq(Stmts) /\ <<>> \in Seq(Items) /\ <<>> \in Seq(Events)
    BY SMT
  <2>2. worker \in [pc : {"look", "wait", "take", "fire"}, data : Items \cup {<<>>}]
    BY DEF Idle
  <2>3. m_Listeners \in [Objects -> SUBSET Clients] /\ m_statements \in [Objects -> Seq(Stmts)]
    BY <2>1
  <2>4. /\ m_sessions \in [Names -> Objects \cup {None}]
        /\ advise \in [Objects -> Clients \cup {None}]
        /\ my \in [Clients -> Objects \cup {None}]
    OBVIOUS
  <2>5. /\ at \in [Clients -> {"start", "found", "chat", "left"} \cup InCall]
        /\ said \in [Clients -> 0 .. MaxSay]
    BY SMT
  <2>6. sent \in [Clients -> Seq(Events)] /\ work \in Seq(Items)
    BY <2>1
  <2>7. up \in BOOLEAN /\ raced \in BOOLEAN /\ alive \subseteq Clients /\ posted \subseteq Stmts
    OBVIOUS
  <2> QED
    BY <2>2, <2>3, <2>4, <2>5, <2>6, <2>7 DEF TypeOK
<1>2. Seated /\ Locked
  BY DEF Seated, Locked, Locking, Saying
<1>3. DOMAIN work = {} /\ \A c \in Clients : DOMAIN sent[c] = {}
  BY SMT
<1>4. Recorded
  BY <1>3 DEF Recorded, SentWritten, Told, Idle
<1>5. QueuedOnce /\ SentOnce
  BY <1>3 DEF QueuedOnce, SentOnce, Told
<1>6. ASSUME NEW x \in Stmts PROVE InOnePlace(x)
  BY <1>3, StmtFacts DEF InOnePlace, Meant, Queued, Sending, Got, Idle, Saying
<1> QED
  BY <1>1, <1>2, <1>4, <1>5, <1>6 DEF IInv, Once

(* A step of no thread of the service keeps the invariant.                 *)
LEMMA StutterKept == IInv /\ UNCHANGED vars => IInv'
<1> SUFFICES ASSUME IInv, UNCHANGED vars PROVE IInv'
  OBVIOUS
<1> USE DEF vars, sessionVars, workVars, clientVars
<1>1. TypeOK'
  BY DEF IInv, TypeOK
<1>2. Seated' /\ Locked'
  BY DEF IInv, Seated, Locked
<1>3. Recorded'
  BY DEF IInv, Recorded, SentWritten, Written, Told
<1>4. QueuedOnce' = QueuedOnce /\ SentOnce' = SentOnce
  BY SMT DEF QueuedOnce, SentOnce, Told
<1>5. \A x \in Stmts : InOnePlace(x)' = InOnePlace(x)
  BY SMT DEF InOnePlace, Meant, Queued, Sending, Got
<1> QED
  BY <1>1, <1>2, <1>3, <1>4, <1>5 DEF IInv, Once

(* The inductive invariant: the listeners of a session chat in it, its     *)
(* advise lock is held by the thread that asks for a name, statements are  *)
(* recorded before they are queued, taken and sent, and each is in one     *)
(* place at a time unless the queue was changed by two threads at once.    *)
THEOREM Invariance == Spec => []IInv
<1>1. Init => IInv
  BY InitKept
<1>2. IInv /\ [Next]_vars => IInv'
  BY TypesKept, SeatedKept, LockedKept, RecordedKept, OnceKept, StutterKept DEF IInv
<1> QED
  BY <1>1, <1>2, PTL DEF Spec

(* What a member of a chat is sent is on the record of its session, and it *)
(* is sent it once unless the unlocked removal of the worker thread        *)
(* (ChatSession.cpp:154-155) met an addition.                              *)
THEOREM SentIsOnRecord == Spec => []SentIsRecorded
<1>1. IInv => SentIsRecorded
  BY DEF IInv, Recorded, SentWritten, Written, Once, SentOnce, SentIsRecorded
<1> QED
  BY <1>1, Invariance, PTL

(* A client that Unadvise has removed is a listener of no session, so no   *)
(* Fire_ method sends it an event, whatever is still in the queue.         *)
THEOREM LeaversAreSentNothing == Spec => GoneIsSentNothing
<1>1. IInv /\ [Next]_vars =>
        [\A c \in Clients : at[c] \in {"leave_name", "leave_fire", "left"} => sent'[c] = sent[c]]_vars
  <2> SUFFICES ASSUME IInv, Next, NEW c \in Clients, at[c] \in {"leave_name", "leave_fire", "left"}
               PROVE  sent'[c] = sent[c]
    OBVIOUS
  <2>1. \A s \in Objects : c \notin m_Listeners[s]
    BY DEF IInv, Seated, Joined
  <2>2. ASSUME NEW s \in Objects, NEW ev, Fire(s, ev) PROVE sent'[c] = sent[c]
    BY <2>1, <2>2 DEF Fire
  <2>3. CASE Fire_OnNewStatement
    <3>1. worker.data.cs \in Objects
      BY <2>3 DEF Fire_OnNewStatement, IInv, Recorded, Items
    <3> QED
      BY <2>2, <2>3, <3>1 DEF Fire_OnNewStatement
  <2>4. ASSUME NEW d \in Clients, AdviseFire(d) \/ UnadviseFire(d) PROVE sent'[c] = sent[c]
    <3>1. my[d] \in Objects
      BY <2>4 DEF AdviseFire, UnadviseFire, IInv, Seated
    <3> QED
      BY <2>2, <2>4, <3>1 DEF AdviseFire, UnadviseFire
  <2>5. worker_look \/ worker_take \/ Damaged => sent' = sent
    BY DEF worker_look, worker_take, Damaged
  <2>6. \A d \in Clients : Client(d) \/ Dies(d) => sent' = sent
    BY DEF Client, FindSession, AdviseCall, SayCall, AsyncCall, UnadviseCall, Dies
  <2>7. \A d \in Clients : Serve(d) => sent' = sent \/ AdviseFire(d) \/ UnadviseFire(d)
    BY DEF Serve, AdviseAdd, SayCheck, SayNamed, SayDefer, UnadviseCheck, UnadviseNamed
  <2>8. \A d \in Clients, k \in 1 .. MaxSay : AsyncSay(d, k) => sent' = sent
    BY DEF AsyncSay
  <2>9. \A n \in Names : DeleteSession(n) => sent' = sent
    BY DEF DeleteSession
  <2> QED
    BY <2>3, <2>4, <2>5, <2>6, <2>7, <2>8, <2>9 DEF Next, threadLoop
<1> QED
  BY <1>1, Invariance, PTL DEF Spec, GoneIsSentNothing

=============================================================================
