---------------------------- MODULE ChatSession ----------------------------
(* The chat service of ndkchat: the binder threads of the server that run  *)
(* the calls of its client processes, the worker thread that sends the     *)
(* deferred statements, and client processes that may die at any time.     *)
(* One binder thread works for a client at a time (calls are synchronous), *)
(* so the thread carries the client's name.  String contents are left out: *)
(* a statement is its speaker and its number.  Events are oneway calls;    *)
(* the model says which ones the service makes to a sink, in which order.  *)
(* They arrive later, in that order, or fail, when the process is dead or  *)
(* the driver holds too many for it; the service learns nothing of it.     *)
EXTENDS Integers, Sequences, Functions

CONSTANTS Clients,      \* client processes, the pids of the service
          Names,        \* names of chat sessions
          Objects,      \* ChatSession objects that can be created
          ServerPid,    \* the service's own pid
          None,
          Mortal,       \* the clients that may die
          MaxSay        \* statements per client

ASSUME Distinct == ServerPid \notin Clients /\ None \notin Clients \cup Objects
ASSUME SayBound == MaxSay \in Nat

VARIABLES m_sessions,   \* the session map of ChatSessionClass
          m_statements, \* per session: the record
          m_Listeners,  \* per session: the pids whose sinks get events
          advise,       \* per session: the holder of m_csAdviseLock
          work,         \* the queue of ChatWorkThread
          worker,       \* what the worker is about to do, and its item
          up,           \* the server process is alive
          raced,        \* work was changed by two threads at once, and survived
          at,           \* per client: what its call is about to do
          my,           \* per client: the session it chats in
          said,         \* per client: statements so far
          alive,        \* client processes that have not died
          posted,       \* statements of AsyncSay on their way
          sent          \* per client: the events sent to its sink

sessionVars == <<m_sessions, m_statements, m_Listeners, advise>>
workVars == <<work, worker, raced>>
clientVars == <<at, my, said, alive, posted>>
vars == <<sessionVars, workVars, up, clientVars, sent>>

Stmts == Clients \X (1 .. MaxSay)

Idle == [pc |-> "look", data |-> <<>>]

Init ==
  /\ m_sessions = [n \in Names |-> None]
  /\ m_statements = [s \in Objects |-> <<>>]
  /\ m_Listeners = [s \in Objects |-> {}]
  /\ advise = [s \in Objects |-> None]
  /\ work = <<>> /\ worker = Idle /\ raced = FALSE
  /\ up = TRUE
  /\ at = [c \in Clients |-> "start"]
  /\ my = [c \in Clients |-> None]
  /\ said = [c \in Clients |-> 0]
  /\ alive = Clients /\ posted = {}
  /\ sent = [c \in Clients |-> <<>>]

Goto(c, stage) == at' = [at EXCEPT ![c] = stage]

(* The Fire_ methods, under m_csAdviseLock: a oneway call to every sink,   *)
(* whose error is ignored.                                                 *)
Fire(s, ev) ==
  /\ advise[s] = None
  /\ sent' = [d \in Clients |->
        IF d \in m_Listeners[s] THEN Append(sent[d], ev) ELSE sent[d]]

---------------------------------------------------------------------------
(* ChatSessionClass.                                                       *)

Used == {m_sessions[n] : n \in Names} \cup {my[c] : c \in Clients}

(* FindSession(name, FALSE, TRUE): the session of that name, made on       *)
(* demand, under m_csSessionLock.                                          *)
FindSession(c, n) ==
  /\ at[c] = "start" /\ c \in alive
  /\ m_sessions[n] = None => Objects \ Used # {}
  /\ \E s \in Objects :
        /\ s = IF m_sessions[n] # None THEN m_sessions[n] ELSE CHOOSE x \in Objects : x \notin Used
        /\ m_sessions' = [m_sessions EXCEPT ![n] = s]
        /\ my' = [my EXCEPT ![c] = s]
  /\ Goto(c, "found")
  /\ UNCHANGED <<m_statements, m_Listeners, advise, workVars, up, said, alive, posted, sent>>

(* DeleteSession takes the name away; the members chat on in the session.  *)
DeleteSession(n) ==
  /\ m_sessions[n] # None
  /\ m_sessions' = [m_sessions EXCEPT ![n] = None]
  /\ UNCHANGED <<m_statements, m_Listeners, advise, workVars, up, clientVars, sent>>

---------------------------------------------------------------------------
(* ChatWorkThread.                                                         *)

(* Defer_OnNewStatement queues under workMutex, which the worker does not  *)
(* hold while it takes the head out of the vector: an addition that meets  *)
(* it may be lost, leave the head in its place, or damage the vector, and  *)
(* end the process now or later.                                           *)
Defer_silent(item) ==
  \/ /\ work' = Append(work, item)
     /\ UNCHANGED <<raced, up, worker>>
  \/ /\ worker.pc = "take" /\ raced' = TRUE
     /\ UNCHANGED <<work, up, worker>>

Defer(item) ==
  /\ \/ work' = Append(work, item) /\ UNCHANGED <<raced, up>>
     \/ /\ worker.pc = "take"
        /\ \/ /\ work' \in {work, <<Head(work)>> \o work, <<Head(work)>> \o Append(work, item)}
              /\ raced' = TRUE /\ up' = up
           \/ up' = FALSE /\ UNCHANGED <<work, raced>>
  /\ worker' = IF worker.pc = "wait" THEN Idle ELSE worker

Damaged ==
  /\ raced /\ up' = FALSE
  /\ UNCHANGED <<sessionVars, workVars, clientVars, sent>>

(* threadLoop: look under the lock and wait for a signal when there is     *)
(* nothing; take the head without the lock; call the session.              *)
worker_look ==
  /\ worker.pc = "look"
  /\ worker' = [worker EXCEPT !.pc = IF work = <<>> THEN "wait" ELSE "take"]
  /\ UNCHANGED <<sessionVars, work, raced, up, clientVars, sent>>

worker_take_keeps ==
  /\ worker.pc = "take"
  /\ worker' = [pc |-> "fire", data |-> Head(work)]
  /\ UNCHANGED <<sessionVars, work, raced, up, clientVars, sent>>

worker_take ==
  /\ worker.pc = "take"
  /\ worker' = [pc |-> "fire", data |-> Head(work)]
  /\ work' = Tail(work)
  /\ UNCHANGED <<sessionVars, raced, up, clientVars, sent>>

Fire_OnNewStatement ==
  /\ worker.pc = "fire"
  /\ Fire(worker.data.cs, <<"statement", worker.data.stmt>>)
  /\ worker' = Idle
  /\ UNCHANGED <<sessionVars, work, raced, up, clientVars>>

threadLoop == worker_look \/ worker_take \/ Fire_OnNewStatement

---------------------------------------------------------------------------
(* ChatSession.                                                            *)

(* Advise asks the sink for its name, links to its death, tells the        *)
(* listeners and, in a second critical section, adds the sink to them.     *)
(* (GetStatements, which a client calls first, changes nothing.)           *)
AdviseCall(c) ==
  /\ at[c] = "found" /\ c \in alive
  /\ Goto(c, "advise_fire")
  /\ UNCHANGED <<sessionVars, workVars, up, my, said, alive, posted, sent>>

AdviseFire(c) ==
  /\ at[c] = "advise_fire"
  /\ Fire(my[c], <<"new", c>>)
  /\ Goto(c, "advise_add")
  /\ UNCHANGED <<sessionVars, workVars, up, my, said, alive, posted>>

AdviseAdd(c) ==
  /\ at[c] = "advise_add" /\ advise[my[c]] = None
  /\ m_Listeners' = [m_Listeners EXCEPT ![my[c]] = @ \cup {c}]
  /\ Goto(c, "chat")
  /\ UNCHANGED <<m_sessions, m_statements, advise, workVars, up, my, said, alive, posted, sent>>

(* Say: the name comes from the caller's sink, asked for with the lock     *)
(* held; a dead one gives none and the call is denied.  The statement is   *)
(* recorded, then deferred.                                                *)
SayCall(c) ==
  /\ at[c] = "chat" /\ c \in alive /\ said[c] < MaxSay
  /\ said' = [said EXCEPT ![c] = @ + 1]
  /\ Goto(c, "say_check")
  /\ UNCHANGED <<sessionVars, workVars, up, my, alive, posted, sent>>

SayCheck(c) ==
  /\ at[c] = "say_check" /\ advise[my[c]] = None
  /\ IF c \in m_Listeners[my[c]]
     THEN advise' = [advise EXCEPT ![my[c]] = c] /\ Goto(c, "say_name")
     ELSE advise' = advise /\ Goto(c, "chat")
  /\ UNCHANGED <<m_sessions, m_statements, m_Listeners, workVars, up, my, said, alive, posted, sent>>

SayNamed_keepsLock(c) ==
  /\ at[c] = "say_name"
  /\ IF c \in alive
     THEN /\ m_statements' = [m_statements EXCEPT ![my[c]] = Append(@, <<c, said[c]>>)]
          /\ advise' = [advise EXCEPT ![my[c]] = None]
          /\ Goto(c, "say_defer")
     ELSE UNCHANGED <<m_statements, advise>> /\ Goto(c, "chat")
  /\ UNCHANGED <<m_sessions, m_Listeners, workVars, up, my, said, alive, posted, sent>>

SayNamed(c) ==
  /\ at[c] = "say_name"
  /\ advise' = [advise EXCEPT ![my[c]] = None]
  /\ IF c \in alive
     THEN /\ m_statements' = [m_statements EXCEPT ![my[c]] = Append(@, <<c, said[c]>>)]
          /\ Goto(c, "say_defer")
     ELSE m_statements' = m_statements /\ Goto(c, "chat")
  /\ UNCHANGED <<m_sessions, m_Listeners, workVars, up, my, said, alive, posted, sent>>

SayDefer(c) ==
  /\ at[c] = "say_defer"
  /\ Defer([cs |-> my[c], stmt |-> <<c, said[c]>>])
  /\ Goto(c, "chat")
  /\ UNCHANGED <<sessionVars, my, said, alive, posted, sent>>

(* AsyncSay, a oneway call: its client goes on at once.  The server        *)
(* records and defers under m_csStatementLock, for anyone.                 *)
AsyncCall(c) ==
  /\ at[c] = "chat" /\ c \in alive /\ said[c] < MaxSay
  /\ said' = [said EXCEPT ![c] = @ + 1]
  /\ posted' = posted \cup {<<c, said[c] + 1>>}
  /\ UNCHANGED <<sessionVars, workVars, up, at, my, alive, sent>>

AsyncSay(c, k) ==
  /\ <<c, k>> \in posted
  /\ posted' = posted \ {<<c, k>>}
  /\ m_statements' = [m_statements EXCEPT ![my[c]] = Append(@, <<c, k>>)]
  /\ Defer([cs |-> my[c], stmt |-> <<c, k>>])
  /\ UNCHANGED <<m_sessions, m_Listeners, advise, at, my, said, alive, sent>>

(* Unadvise removes the sink, asks it for its name with the lock held, and *)
(* tells the others when there is one.                                     *)
UnadviseCall(c) ==
  /\ at[c] = "chat" /\ c \in alive
  /\ Goto(c, "leave_check")
  /\ UNCHANGED <<sessionVars, workVars, up, my, said, alive, posted, sent>>

UnadviseCheck_keeps(c) ==
  /\ at[c] = "leave_check" /\ advise[my[c]] = None
  /\ IF c \in m_Listeners[my[c]]
     THEN advise' = [advise EXCEPT ![my[c]] = c] /\ Goto(c, "leave_name")
     ELSE advise' = advise /\ Goto(c, "left")
  /\ UNCHANGED <<m_sessions, m_statements, m_Listeners, workVars, up, my, said, alive, posted, sent>>

UnadviseCheck(c) ==
  /\ at[c] = "leave_check" /\ advise[my[c]] = None
  /\ IF c \in m_Listeners[my[c]]
     THEN advise' = [advise EXCEPT ![my[c]] = c] /\ Goto(c, "leave_name")
     ELSE advise' = advise /\ Goto(c, "left")
  /\ m_Listeners' = [m_Listeners EXCEPT ![my[c]] = @ \ {c}]
  /\ UNCHANGED <<m_sessions, m_statements, workVars, up, my, said, alive, posted, sent>>

UnadviseNamed(c) ==
  /\ at[c] = "leave_name"
  /\ advise' = [advise EXCEPT ![my[c]] = None]
  /\ Goto(c, IF c \in alive THEN "leave_fire" ELSE "left")
  /\ UNCHANGED <<m_sessions, m_statements, m_Listeners, workVars, up, my, said, alive, posted, sent>>

UnadviseFire(c) ==
  /\ at[c] = "leave_fire"
  /\ Fire(my[c], <<"left", c>>)
  /\ Goto(c, "left")
  /\ UNCHANGED <<sessionVars, workVars, up, my, said, alive, posted>>

(* A client process dies.  binderDied tells each session its sink was      *)
(* advised to, on a thread that serves no call: the calling pid whose      *)
(* listener it removes is the service's own.                               *)
Dies(c) ==
  /\ c \in alive \cap Mortal
  /\ alive' = alive \ {c}
  /\ m_Listeners' = [s \in Objects |-> m_Listeners[s] \ {ServerPid}]
  /\ UNCHANGED <<m_sessions, m_statements, advise, workVars, up, at, my, said, posted, sent>>

Serve(c) ==
  \/ AdviseFire(c) \/ AdviseAdd(c)
  \/ SayCheck(c) \/ SayNamed(c) \/ SayDefer(c)
  \/ UnadviseCheck(c) \/ UnadviseNamed(c) \/ UnadviseFire(c)

Client(c) ==
  \/ \E n \in Names : FindSession(c, n)
  \/ AdviseCall(c) \/ SayCall(c) \/ AsyncCall(c) \/ UnadviseCall(c)

Next ==
  /\ up
  /\ \/ threadLoop \/ Damaged
     \/ \E c \in Clients : Serve(c) \/ Client(c) \/ Dies(c)
     \/ \E c \in Clients, k \in 1 .. MaxSay : AsyncSay(c, k)
     \/ \E n \in Names : DeleteSession(n)

(* The server's threads run, and a live client answers GetUserName; a      *)
(* thread that wants the advise lock of a session gets it in the end.      *)
Fairness ==
  /\ WF_vars(up /\ worker_look) /\ WF_vars(up /\ worker_take)
  /\ SF_vars(up /\ Fire_OnNewStatement)
  /\ \A c \in Clients : SF_vars(up /\ Serve(c))

Spec == Init /\ [][Next]_vars
FairSpec == Spec /\ Fairness

---------------------------------------------------------------------------
(* Properties.                                                             *)

InCall == {"advise_fire", "advise_add", "say_check", "say_name", "say_defer",
           "leave_check", "leave_name", "leave_fire"}
Items == [cs : Objects, stmt : Stmts]
Events == ({"new", "left"} \X Clients) \cup ({"statement"} \X Stmts)

(* The types of the service's state.                                       *)
TypeOK ==
  /\ m_sessions \in [Names -> Objects \cup {None}]
  /\ m_statements \in [Objects -> Seq(Stmts)]
  /\ m_Listeners \in [Objects -> SUBSET Clients]
  /\ advise \in [Objects -> Clients \cup {None}]
  /\ work \in Seq(Items)
  /\ worker \in [pc : {"look", "wait", "take", "fire"}, data : Items \cup {<<>>}]
  /\ up \in BOOLEAN /\ raced \in BOOLEAN
  /\ at \in [Clients -> {"start", "found", "chat", "left"} \cup InCall]
  /\ my \in [Clients -> Objects \cup {None}]
  /\ said \in [Clients -> 0 .. MaxSay]
  /\ alive \subseteq Clients /\ posted \subseteq Stmts
  /\ sent \in [Clients -> Seq(Events)]

Told(c) == {i \in DOMAIN sent[c] : sent[c][i][1] = "statement"}

(* What a member is sent is on the record of its session: Say and AsyncSay *)
(* record before they defer, the worker sends no other session's, and it   *)
(* sends each statement once unless the queue was changed by two threads   *)
(* at once (it takes statements off unlocked, ChatSession.cpp:154-155).    *)
(* The types are part of it.                                               *)
SentIsRecorded ==
  /\ TypeOK
  /\ \A c \in Clients : \A i \in Told(c) :
       /\ sent[c][i][2] \in Range(m_statements[my[c]])
       /\ raced \/ \A j \in Told(c) : sent[c][i] = sent[c][j] => i = j

(* From Unadvise's removal of a sink on, the service sends it no event,    *)
(* although the worker still has statements to send and Unadvise itself    *)
(* tells the others.  What was sent before may still arrive.               *)
GoneIsSentNothing ==
  [][\A c \in Clients : at[c] \in {"leave_name", "leave_fire", "left"} => sent'[c] = sent[c]]_vars

(* Every call returns, even when client processes die while the service    *)
(* asks them for their name with the advise lock held.                     *)
CallsReturn ==
  \A c \in Clients : at[c] \in InCall ~> (at[c] \notin InCall \/ ~up)

Members(c) == IF my[c] = None THEN {} ELSE m_Listeners[my[c]]

(* A recorded statement is sent to every other member that stays, unless   *)
(* the unlocked removal of ChatSession.cpp:154-155 met an addition.        *)
SaidIsSent ==
  \A c \in Clients : \A d \in Clients \ {c} :
     at[c] = "say_defer" /\ d \in Members(c)
       ~> \/ \E i \in DOMAIN sent[d] : sent[d][i] = <<"statement", <<c, said[c]>>>>
          \/ d \notin Members(c) \/ raced \/ ~up
=============================================================================
