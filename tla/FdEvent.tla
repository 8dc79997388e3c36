------------------------------ MODULE FdEvent ------------------------------
(***************************************************************************)
(* The event loop (fdevent.c, the select build): the table of registered   *)
(* descriptors, the sets given to select(), the list of pending fdevents,  *)
(* and the loop that calls their handlers.  Handlers change the very       *)
(* structures the loop walks.  A descriptor may also be closed behind the  *)
(* loop's back, and the input thread of a transport removes the fdevents   *)
(* of its sockets while the loop runs (one call of fdevent.c at a time).   *)
(***************************************************************************)
EXTENDS Naturals, Sequences, FiniteSetsExt

CONSTANTS
  Fdes,      \* fdevent structures
  Fds,       \* descriptor numbers
  Events,    \* FDE_READ, FDE_WRITE (nobody asks for FDE_ERROR)
  Read,      \* FDE_READ
  None       \* a null pointer

(* fdevent_register ends the process for a descriptor above 32000.         *)
MaxFd == 32000

ASSUME FdEventAssumption ==
  /\ Fds \subseteq 0 .. MaxFd
  /\ Read \in Events
  /\ None \notin Fdes \cup Fds

VARIABLES
  fd_table,      \* descriptor -> fdevent
  fd, want, events,   \* fields fd, state & FDE_EVENTMASK, events
  pending,       \* the fdevents with FDE_PENDING
  list_pending,  \* the pending list
  fds,           \* read_fds and write_fds, per descriptor
  select_n,      \* select() and the scan stop below this descriptor
  isOpen,        \* descriptors that are open
  ready,         \* what the kernel would report, per descriptor
  pc,            \* "handler", "dequeue", "call", "select", "wait", "scan"
  found,         \* rfd and wfd, before and after select()
  cur,           \* the fdevent taken from the list, or whose handler runs
  got,           \* the events its handler was called with
  fatal,         \* "no", or why the process died
  stray,         \* history: a registered descriptor was closed elsewhere
  raced          \* history: a thread took away what the loop was working on

fdeVars  == <<fd_table, fd, want, events, pending, list_pending, fds, select_n>>
loopVars == <<pc, found, cur, got>>
history  == <<stray, raced>>
vars == <<fdeVars, isOpen, ready, loopVars, fatal, history>>

Active(e) == fd[e] # None

Init ==
  /\ fd_table = [f \in Fds |-> None]
  /\ fd = [e \in Fdes |-> None]
  /\ want = [e \in Fdes |-> {}]
  /\ events = [e \in Fdes |-> {}]
  /\ pending = {}
  /\ list_pending = << >>
  /\ fds = [f \in Fds |-> {}]
  /\ select_n = 0
  /\ isOpen = {}
  /\ ready = [f \in Fds |-> {}]
  /\ pc = "handler"         \* main, before fdevent_loop
  /\ found = [f \in Fds |-> {}]
  /\ cur = None
  /\ got = {}
  /\ fatal = "no" /\ stray = FALSE /\ raced = FALSE

---------------------------------------------------------------------------
(* Operations on fdevents.                                                 *)

(* fdevent_install (and fdevent_create) of a descriptor just opened, with  *)
(* fdevent_register and fdevent_connect.                                   *)
fdevent_install(e, f) ==
  /\ ~Active(e) /\ f \notin isOpen
  /\ isOpen' = isOpen \cup {f}
  /\ ready' = [ready EXCEPT ![f] = {}]
  /\ fd' = [fd EXCEPT ![e] = f]
  /\ want' = [want EXCEPT ![e] = {}]
  /\ events' = [events EXCEPT ![e] = {}]
  /\ fd_table' = [fd_table EXCEPT ![f] = e]
  /\ select_n' = Max({select_n, f + 1})
  /\ UNCHANGED <<pending, list_pending, fds, fatal>>

(* fdevent_disconnect: the descriptor leaves the sets of select(), and     *)
(* select_n shrinks to the last descriptor that is still registered        *)
(* (fd[e] itself is, at this point).                                       *)
Registered == {f \in Fds : f < select_n /\ fd_table[f] # None}

fdevent_disconnect_uncleared(e) ==
  /\ fds' = fds
  /\ select_n' = Max(Registered \cup {0}) + 1

fdevent_disconnect_short(e) ==
  /\ fds' = [fds EXCEPT ![fd[e]] = {}]
  /\ select_n' = Max(Registered \cup {0})

fdevent_disconnect(e) ==
  /\ fds' = [fds EXCEPT ![fd[e]] = {}]
  /\ select_n' = Max(Registered \cup {0}) + 1

(* fdevent_plist_remove.  A node that is pending but already off the list  *)
(* has null links.                                                         *)
Unlinked(e) == e \in pending /\ e \notin Range(list_pending)
Without(s, i) == SubSeq(s, 1, i - 1) \o SubSeq(s, i + 1, Len(s))

plist_remove_skipped(e) == list_pending
plist_remove(e) ==
  IF Unlinked(e) THEN list_pending
  ELSE Without(list_pending, CHOOSE i \in DOMAIN list_pending : list_pending[i] = e)

(* fdevent_remove (and fdevent_destroy), with fdevent_unregister.          *)
fdevent_remove(e) ==
  /\ Active(e)
  /\ list_pending' = IF e \in pending THEN plist_remove(e) ELSE list_pending
  /\ pending' = pending \ {e}
  /\ fdevent_disconnect(e)
  /\ fd_table' = [fd_table EXCEPT ![fd[e]] = None]
  /\ isOpen' = isOpen \ {fd[e]}
  /\ fd' = [fd EXCEPT ![e] = None]
  /\ want' = [want EXCEPT ![e] = {}]
  /\ events' = [events EXCEPT ![e] = {}]
  /\ fatal' = IF Unlinked(e) THEN "unlink"
              ELSE IF fd_table[fd[e]] # e THEN "out of sync" ELSE fatal
  /\ ready' = [ready EXCEPT ![fd[e]] = {}]

(* fdevent_set, fdevent_add and fdevent_del.  A pending fdevent loses      *)
(* the events that are now asked for.                                      *)
fdevent_set(e, evs) ==
  /\ Active(e) /\ want[e] # evs
  /\ want' = [want EXCEPT ![e] = evs]
  /\ fds' = [fds EXCEPT ![fd[e]] = evs]
  /\ LET left == events[e] \ evs
         drop == e \in pending /\ left = {}
     IN /\ events' = [events EXCEPT ![e] = IF e \in pending THEN left ELSE @]
        /\ pending' = IF drop THEN pending \ {e} ELSE pending
        /\ list_pending' = IF drop THEN plist_remove(e) ELSE list_pending
        /\ fatal' = IF drop /\ Unlinked(e) THEN "unlink" ELSE fatal
  /\ UNCHANGED <<fd_table, fd, select_n, isOpen, ready>>

---------------------------------------------------------------------------
(* The loop.                                                               *)

(* fdevent_fd_check.                                                       *)
Bad_short == {f \in Registered : f \notin isOpen /\ f + 1 < select_n}
Bad == Registered \ isOpen

(* fdevent_process up to select(), which works on copies of the sets.  A   *)
(* watched descriptor that is not open gives EBADF, and fdevent_fd_check   *)
(* then fakes a read on every such descriptor.                             *)
process_select ==
  /\ pc = "select"
  /\ LET badf == \E f \in Fds \ isOpen : f < select_n /\ fds[f] # {}
     IN /\ found' = [f \in Fds |-> IF badf THEN IF f \in Bad THEN {Read} ELSE {}
                                   ELSE IF f < select_n THEN fds[f] ELSE {}]
        /\ pc' = IF badf THEN "scan" ELSE "wait"
  /\ UNCHANGED <<fdeVars, isOpen, ready, cur, got, fatal>>

(* select() returns when something it watches is ready.  A descriptor that *)
(* is closed while it waits is not reported and does not wake it.          *)
select_returns ==
  /\ pc = "wait"
  /\ \E f \in Fds : found[f] \cap ready[f] # {}
  /\ found' = [f \in Fds |-> found[f] \cap ready[f]]
  /\ pc' = "scan"
  /\ UNCHANGED <<fdeVars, isOpen, ready, cur, got, fatal>>

(* The one ascending enumeration of a set of descriptors.                  *)
Ascending(S) ==
  {order \in [1 .. Cardinality(S) -> S] :
     /\ Range(order) = S
     /\ \A i, j \in DOMAIN order : i < j => order[i] < order[j]}

(* The rest of fdevent_process: record the events and make the fdevents    *)
(* pending, in the order of their descriptors.                             *)
process_scan ==
  /\ pc = "scan"
  /\ LET hit  == {f \in Fds : found[f] # {}}
         miss == \E f \in hit : fd_table[f] = None
         new  == {f \in hit : fd_table[f] # None /\ fd_table[f] \notin pending}
     IN /\ fatal' = IF miss THEN "missing fde" ELSE fatal
        /\ events' = [e \in Fdes |->
                        IF Active(e) /\ fd_table[fd[e]] = e THEN events[e] \cup found[fd[e]] ELSE events[e]]
        /\ pending' = pending \cup {fd_table[f] : f \in new}
        /\ \E order \in Ascending(new) :
             list_pending' = list_pending \o [i \in DOMAIN order |-> fd_table[order[i]]]
  /\ found' = [f \in Fds |-> {}]
  /\ pc' = "dequeue"
  /\ UNCHANGED <<fd_table, fd, want, fds, select_n, isOpen, ready, cur, got>>

(* fdevent_plist_dequeue in fdevent_loop; back to select() when empty.     *)
plist_dequeue ==
  /\ pc = "dequeue"
  /\ IF list_pending = << >>
       THEN pc' = "select" /\ UNCHANGED <<list_pending, cur>>
       ELSE pc' = "call" /\ cur' = Head(list_pending) /\ list_pending' = Tail(list_pending)
  /\ UNCHANGED <<fd_table, fd, want, events, pending, fds, select_n, isOpen, ready, found, got, fatal>>

(* fdevent_call_fdfunc: FDE_PENDING is cleared before the handler runs.    *)
call_fdfunc_stillPending ==
  /\ pc = "call"
  /\ got' = IF cur \in pending THEN events[cur] ELSE {}
  /\ pc' = IF cur \in pending THEN "handler" ELSE "dequeue"
  /\ events' = [events EXCEPT ![cur] = {}]
  /\ UNCHANGED <<fd_table, fd, want, pending, list_pending, fds, select_n, isOpen, ready, found, cur, fatal>>

call_fdfunc ==
  /\ pc = "call"
  /\ got' = IF cur \in pending THEN events[cur] ELSE {}
  /\ pc' = IF cur \in pending THEN "handler" ELSE "dequeue"
  /\ events' = [events EXCEPT ![cur] = {}]
  /\ pending' = pending \ {cur}
  /\ UNCHANGED <<fd_table, fd, want, list_pending, fds, select_n, isOpen, ready, found, cur, fatal>>

(* What a handler, or main before the loop, may do.                        *)
handler_calls ==
  /\ pc = "handler"
  /\ \E e \in Fdes : \/ \E f \in Fds : fdevent_install(e, f)
                     \/ fdevent_remove(e)
                     \/ \E evs \in SUBSET Events : fdevent_set(e, evs)
  /\ UNCHANGED loopVars

handler_returns ==
  /\ pc = "handler"
  /\ pc' = "dequeue" /\ cur' = None /\ got' = {}
  /\ UNCHANGED <<fdeVars, isOpen, ready, found, fatal>>

(* fdevent_subproc_event_func: the shell of e has exited.  A read is       *)
(* added to what is pending, or else e's handler is called at once, from   *)
(* within this one.  (Data left in the descriptor is found by select().)   *)
subproc_exit(e) ==
  /\ pc = "handler" /\ Active(e)
  /\ events' = [events EXCEPT ![e] = IF e \in pending THEN @ \cup {Read} ELSE {}]
  /\ cur' = IF e \in pending THEN cur ELSE e
  /\ got' = IF e \in pending THEN got ELSE events[e] \cup {Read}
  /\ UNCHANGED <<fd_table, fd, want, pending, list_pending, fds, select_n, isOpen, ready, pc, found, fatal>>

(* Another thread: close_all_sockets, on a transport's input thread, frees *)
(* a local socket and removes its fdevent, or with packets still queued    *)
(* only stops reading it.  Whatever the loop is doing meanwhile: it may    *)
(* have given the descriptor to select() (whose number may be taken again  *)
(* before select() looks), have it in rfd and wfd, have taken the fdevent  *)
(* off the list, or be in its handler.                                     *)
InUse(e) == pc \in {"wait", "scan", "call"} \/ e = cur

close_all_sockets(e) ==
  /\ fdevent_remove(e) \/ fdevent_set(e, want[e] \ {Read})
  /\ raced' = (raced \/ InUse(e))
  /\ UNCHANGED <<loopVars, stray>>

---------------------------------------------------------------------------
(* The environment.                                                        *)

(* The kernel has something to report on an open descriptor, or no longer. *)
Arrives(f, ev) ==
  /\ f \in isOpen /\ ev \notin ready[f]
  /\ ready' = [ready EXCEPT ![f] = @ \cup {ev}]
  /\ UNCHANGED <<fdeVars, isOpen, loopVars, fatal>>

Consumed(f, ev) ==
  /\ pc = "handler" /\ ev \in ready[f]
  /\ ready' = [ready EXCEPT ![f] = @ \ {ev}]
  /\ UNCHANGED <<fdeVars, isOpen, loopVars, fatal>>

(* Someone closes the descriptor of a registered fdevent (as remote_close  *)
(* and remote_kick of transport_local.c may do).                           *)
ClosedElsewhere(f) ==
  /\ f \in isOpen
  /\ isOpen' = isOpen \ {f}
  /\ ready' = [ready EXCEPT ![f] = {}]
  /\ stray' = TRUE
  /\ UNCHANGED <<fdeVars, loopVars, fatal, raced>>

Loop == process_select \/ select_returns \/ process_scan \/ plist_dequeue \/ call_fdfunc

Env == \E f \in Fds, ev \in Events : Arrives(f, ev) \/ Consumed(f, ev)

Next ==
  /\ fatal = "no"
  /\ \/ /\ UNCHANGED history
        /\ \/ Loop
           \/ handler_calls
           \/ handler_returns
           \/ \E e \in Fdes : subproc_exit(e)
           \/ Env
     \/ \E e \in Fdes : close_all_sockets(e)
     \/ \E f \in Fds : ClosedElsewhere(f)

(* The loop runs on, and every handler returns.                            *)
Fairness ==
  /\ WF_vars(fatal = "no" /\ Loop /\ UNCHANGED history)
  /\ WF_vars(fatal = "no" /\ handler_returns /\ UNCHANGED history)

Spec == Init /\ [][Next]_vars
FairSpec == Spec /\ Fairness

---------------------------------------------------------------------------
(* Properties.                                                             *)

(* The types.                                                              *)
TypeOK ==
  /\ fd_table \in [Fds -> Fdes \cup {None}]
  /\ fd \in [Fdes -> Fds \cup {None}]
  /\ want \in [Fdes -> SUBSET Events]
  /\ events \in [Fdes -> SUBSET Events]
  /\ pending \subseteq Fdes
  /\ list_pending \in Seq(Fdes)
  /\ fds \in [Fds -> SUBSET Events]
  /\ select_n \in 0 .. MaxFd + 1
  /\ isOpen \subseteq Fds
  /\ ready \in [Fds -> SUBSET Events]
  /\ pc \in {"handler", "dequeue", "call", "select", "wait", "scan"}
  /\ found \in [Fds -> SUBSET Events]
  /\ cur \in Fdes \cup {None}
  /\ got \subseteq Events
  /\ fatal \in {"no", "missing fde", "out of sync", "unlink"}
  /\ stray \in BOOLEAN /\ raced \in BOOLEAN

(* FDE_PENDING says exactly which fdevents are on list_pending, once each, *)
(* with something to report, whatever the handlers install, change or      *)
(* remove and an input thread removes while the list is being worked off   *)
(* (the one just dequeued keeps the flag until it is called).  The types   *)
(* are part of it.                                                         *)
PendingIsListed ==
  /\ TypeOK
  /\ fatal = "no" =>
       /\ IsInjective(list_pending)
       /\ Range(list_pending) = IF pc = "call" THEN pending \ {cur} ELSE pending
       /\ pc = "call" => cur \in pending
       /\ \A e \in pending : Active(e) /\ events[e] # {}

(* select() watches exactly what the registered fdevents ask for, and each *)
(* registered descriptor belongs to one fdevent: the fd_table and the      *)
(* fd_sets never keep an entry of a removed fdevent, and select_n, which   *)
(* shrinks on every removal, stays above them all (as long as descriptors  *)
(* are closed by their fdevents only).                                     *)
WatchesWhatIsWanted == ~stray =>
  /\ \A e \in Fdes : Active(e) => fd_table[fd[e]] = e
  /\ \A f \in Fds : /\ fd_table[f] # None => fd[fd_table[f]] = f
                    /\ fds[f] = IF fd_table[f] = None THEN {} ELSE want[fd_table[f]]
                    /\ fd_table[f] # None => f < select_n

(* fdevent.c:413 FATAL("missing fde for fd %d"), :462 FATAL("fd_table out  *)
(* of sync [%d]"): the loop meets a descriptor without its fdevent, or     *)
(* unlinks an fdevent that is not linked, in two cases only.  Someone      *)
(* closed a registered descriptor without its fdevent, or an input thread  *)
(* in close_all_sockets took an fdevent away between the loop's reading of *)
(* the sets for select() and the end of its scan, between the dequeue and  *)
(* the call, or from under its own handler.  A removal at any other time,  *)
(* by whatever thread, is safe.                                            *)
NeverFatal == ~stray /\ ~raced => fatal = "no"

Served(e, ev) == pc = "handler" /\ cur = e /\ ev \in got

(* An fdevent that keeps asking for the same events, one of which stays    *)
(* ready, is called with it again and again - no handler starves - once    *)
(* every registered descriptor is open and belongs to one fdevent only.    *)
NoStarvation ==
  \A e \in Fdes, evs \in SUBSET Events : \A ev \in evs :
     <>[](/\ fatal = "no" /\ Active(e) /\ want[e] = evs /\ ev \in ready[fd[e]]
          /\ \A d \in Fdes : Active(d) => fd[d] \in isOpen /\ fd_table[fd[d]] = d) => []<>Served(e, ev)

(* A watched descriptor that someone else closed makes select() fail for   *)
(* all; its own handler is called with a faked read, again and again,      *)
(* until it takes the fdevent away (fdevent.c:394 "We fake a read, as the  *)
(* rest of the code assumes that errors will be detected at that point").  *)
(* A descriptor closed while select() waits is noticed with the next event *)
(* of any other, when the loop calls select() again.                       *)
BadIsTold ==
  \A e \in Fdes, evs \in SUBSET Events :
     ( /\ <>[](fatal = "no" /\ want[e] = evs /\ \E f \in Fds \ isOpen : fd_table[f] = e /\ fds[f] # {})
       /\ []<>(pc = "select") ) => []<>Served(e, Read)
=============================================================================
