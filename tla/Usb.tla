-------------------------------- MODULE Usb --------------------------------
(***************************************************************************)
(* USB devices on Linux (usb_linux.c): the thread that polls the bus, the  *)
(* list of open handles, and on each handle the two threads of its         *)
(* transport - the reader (output_thread), which reaps the URBs of both,   *)
(* and the writer (input_thread), which waits to be told - with kicking,   *)
(* closing, and the two locks that are held while another one is taken:    *)
(* usb_lock and transport_lock.  (h->lock is only ever held across another *)
(* lock for a handle without threads.)                                     *)
(***************************************************************************)
EXTENDS Naturals, Sequences, FiniteSets

CONSTANTS
  Devices,      \* device names, each with at most one usb_handle
  Nobody,       \* a lock is free
  Access,       \* how each may open: "rw", or "ro" for want of permission
  MaxOpens      \* bound: how often a device is opened

ASSUME UsbAssumption ==
  /\ Access \in [Devices -> SUBSET {"rw", "ro"}] /\ MaxOpens \in Nat
  /\ Nobody \notin {"reader", "writer", "poll"}

VARIABLES
  plugged,      \* the devices on the bus
  opens,        \* how often each was opened
  listed,       \* the handles in handle_list
  readonly,     \* those that could only be opened read-only (!h->writeable)
  mark,         \* h->mark
  dead,         \* h->dead
  urb_in, urb_out,    \* "idle", "queued", "done" or "error"
  completed,    \* the completed URBs, in the order REAPURB returns them
  out_busy,     \* h->urb_out_busy
  pc,           \* program counters: pc["reader"][h] and pc["writer"][h]
  reaped,       \* what REAPURB returned: "in", "out", "eintr", "error"
  signal,       \* SIGALRM is pending for the reader
  kicked,       \* t->kicked
  refs,         \* t->ref_count
  poll, todo,   \* the poll thread: program counter, devices left to visit
  usb_lock, transport_lock

Threads == {"reader", "writer"}

busVars  == <<plugged, opens>>
urbVars  == <<urb_in, urb_out, completed, out_busy, reaped, signal>>
refVars  == <<kicked, refs>>
pollVars == <<poll, todo>>
lockVars == <<usb_lock, transport_lock>>
vars == <<busVars, readonly, listed, mark, dead, urbVars, pc, refVars, pollVars, lockVars>>

Init ==
  /\ plugged = {} /\ opens = [h \in Devices |-> 0]
  /\ listed = {} /\ readonly = {} /\ mark = {} /\ dead = {}
  /\ urb_in = [h \in Devices |-> "idle"] /\ urb_out = [h \in Devices |-> "idle"]
  /\ completed = [h \in Devices |-> << >>]
  /\ out_busy = {} /\ reaped = [h \in Devices |-> "in"] /\ signal = {}
  /\ pc = [w \in Threads |-> [h \in Devices |-> "none"]]
  /\ kicked = {} /\ refs = [h \in Devices |-> 0]
  /\ poll = "scan" /\ todo = Devices
  /\ usb_lock = Nobody /\ transport_lock = Nobody

---------------------------------------------------------------------------
(* Kicking.                                                                *)

(* DISCARDURB, or a device that leaves: queued URBs complete with an       *)
(* error.                                                                  *)
Discard_outOnly(h) ==
  /\ urb_out' = [urb_out EXCEPT ![h] = IF @ = "queued" THEN "error" ELSE @]
  /\ completed' = [completed EXCEPT ![h] = @ \o (IF urb_out[h] = "queued" THEN << "out" >> ELSE << >>)]
  /\ UNCHANGED urb_in

Discard(h) ==
  /\ urb_in' = [urb_in EXCEPT ![h] = IF @ = "queued" THEN "error" ELSE @]
  /\ urb_out' = [urb_out EXCEPT ![h] = IF @ = "queued" THEN "error" ELSE @]
  /\ completed' = [completed EXCEPT ![h] = @ \o (IF urb_in[h] = "queued" THEN << "in" >> ELSE << >>)
                                            \o (IF urb_out[h] = "queued" THEN << "out" >> ELSE << >>)]

(* usb_kick of a writeable handle: wakes the writer, and cancels and       *)
(* signals so that the reader comes back from REAPURB (a signal that comes *)
(* just before the reader enters it is lost).                              *)
usb_kick(h) ==
  /\ dead' = dead \cup {h}
  /\ IF h \in dead
       THEN UNCHANGED <<urb_in, urb_out, completed, out_busy, signal>>
       ELSE /\ Discard(h)
            /\ out_busy' = out_busy \ {h}
            /\ signal' \in {signal} \cup (IF pc["reader"][h] = "reap" THEN {signal \cup {h}} ELSE {})

---------------------------------------------------------------------------
(* device_poll_thread.                                                     *)

(* find_usb_device on one device: a known one is marked (known_device), a  *)
(* new one is opened and registered (register_device), unless the          *)
(* directory or the device cannot be opened.                               *)
poll_find(h) ==
  /\ poll = "scan" /\ h \in todo /\ usb_lock = Nobody
  /\ todo' = todo \ {h}
  /\ mark' \in {mark} \cup (IF h \in plugged \cap listed THEN {mark \cup {h}} ELSE {})
  /\ UNCHANGED <<busVars, readonly, listed, dead, urbVars, pc, refVars, poll, lockVars>>

poll_register(h) ==
  /\ poll = "scan" /\ h \in todo /\ usb_lock = Nobody
  /\ h \in plugged \ listed /\ opens[h] < MaxOpens
  /\ todo' = todo \ {h}
  /\ opens' = [opens EXCEPT ![h] = @ + 1]
  /\ listed' = listed \cup {h}
  /\ mark' = mark \cup {h}
  /\ dead' = dead \ {h}
  /\ kicked' = kicked \ {h}
  /\ \/ /\ "rw" \in Access[h]
        /\ readonly' = readonly \ {h}
        /\ refs' = [refs EXCEPT ![h] = 2]
        /\ pc' = [pc EXCEPT !["reader"][h] = "submit", !["writer"][h] = "idle"]
     \/ /\ "ro" \in Access[h]
        /\ readonly' = readonly \cup {h}
        /\ UNCHANGED <<refs, pc>>
  /\ UNCHANGED <<plugged, urbVars, poll, lockVars>>

(* kick_disconnected_devices: with usb_lock held, a handle that was not    *)
(* found is kicked, the others lose their mark.                            *)
poll_lock ==
  /\ poll = "scan" /\ todo = {} /\ usb_lock = Nobody
  /\ usb_lock' = "poll"
  /\ poll' = "kick" /\ todo' = listed
  /\ UNCHANGED <<busVars, readonly, listed, mark, dead, urbVars, pc, refVars, transport_lock>>

poll_unmark(h) ==
  /\ poll = "kick" /\ h \in todo \cap mark
  /\ mark' = mark \ {h}
  /\ todo' = todo \ {h}
  /\ UNCHANGED <<busVars, readonly, listed, dead, urbVars, pc, refVars, poll, lockVars>>

poll_kick(h) ==
  /\ poll = "kick" /\ h \in todo \ (mark \cup readonly)
  /\ usb_kick(h)
  /\ todo' = todo \ {h}
  /\ UNCHANGED <<busVars, readonly, listed, mark, reaped, pc, refVars, poll, lockVars>>

(* A read-only handle: unregister_usb_transport takes transport_lock.      *)
poll_unregister(h) ==
  /\ poll = "kick" /\ h \in (todo \cap readonly) \ mark
  /\ h \notin dead => transport_lock = Nobody
  /\ dead' = dead \cup {h}
  /\ todo' = todo \ {h}
  /\ UNCHANGED <<busVars, readonly, listed, mark, urbVars, pc, refVars, poll, lockVars>>

poll_unlock ==
  /\ poll = "kick" /\ todo = {}
  /\ usb_lock' = Nobody
  /\ poll' = "scan" /\ todo' = Devices
  /\ UNCHANGED <<busVars, readonly, listed, mark, dead, urbVars, pc, refVars, transport_lock>>

---------------------------------------------------------------------------
(* The reader: usb_bulk_read in a loop.  usb_read also goes on after a     *)
(* failure with errno ETIMEDOUT; that branch is dead here, since errno is  *)
(* the reader's own and neither SUBMITURB nor REAPURB, which queue and     *)
(* fetch without a time limit, sets it to ETIMEDOUT.                       *)

(* SUBMITURB fails on a handle that is dead or a device that has left.     *)
bulk_read_submit(h) ==
  /\ pc["reader"][h] = "submit"
  /\ LET ok == h \notin dead /\ h \in plugged
     IN /\ urb_in' = [urb_in EXCEPT ![h] = IF ok THEN "queued" ELSE @]
        /\ pc' = [pc EXCEPT !["reader"][h] = IF ok THEN "reap" ELSE "kick"]
  /\ UNCHANGED <<busVars, readonly, listed, mark, dead, urb_out, completed, out_busy, reaped, signal, refVars, pollVars, lockVars>>

(* REAPURB, without h->lock, returns a completed URB, is interrupted, or   *)
(* fails because the device has left and nothing is to be reaped.          *)
bulk_read_reap(h) ==
  /\ pc["reader"][h] = "reap"
  /\ \/ /\ completed[h] # << >>
        /\ reaped' = [reaped EXCEPT ![h] = Head(completed[h])]
        /\ completed' = [completed EXCEPT ![h] = Tail(@)]
        /\ UNCHANGED signal
     \/ /\ completed[h] = << >> /\ (h \in signal \/ h \notin plugged)
        /\ reaped' = [reaped EXCEPT ![h] = IF h \in plugged THEN "eintr" ELSE "error"]
        /\ signal' = signal \ {h}
        /\ UNCHANGED completed
  /\ pc' = [pc EXCEPT !["reader"][h] = "reaped"]
  /\ UNCHANGED <<busVars, readonly, listed, mark, dead, urb_in, urb_out, out_busy, refVars, pollVars, lockVars>>

(* Back under h->lock.  A finished OUT wakes the writer; a finished IN is  *)
(* the packet that was wanted, or ends the transport.  A packet may also   *)
(* be short or fail check_header.                                          *)
Woken_missed(h) == out_busy
Woken(h) == out_busy \ {h}

bulk_read_reaped(h) ==
  /\ pc["reader"][h] = "reaped"
  /\ out_busy' = IF h \notin dead /\ reaped[h] = "out" THEN Woken(h) ELSE out_busy
  /\ \/ /\ h \notin dead /\ reaped[h] \in {"out", "eintr"}
        /\ pc' = [pc EXCEPT !["reader"][h] = "reap"]
        /\ UNCHANGED urb_in
     \/ /\ h \notin dead /\ reaped[h] = "in" /\ urb_in[h] = "done"
        /\ \E next \in {"submit", "kick"} : pc' = [pc EXCEPT !["reader"][h] = next]
        /\ urb_in' = [urb_in EXCEPT ![h] = "idle"]
     \/ /\ h \in dead \/ reaped[h] = "error" \/ (reaped[h] = "in" /\ urb_in[h] = "error")
        /\ pc' = [pc EXCEPT !["reader"][h] = "kick"]
        /\ urb_in' = [urb_in EXCEPT ![h] = "idle"]
  /\ UNCHANGED <<busVars, readonly, listed, mark, dead, urb_out, completed, reaped, signal, refVars, pollVars, lockVars>>

---------------------------------------------------------------------------
(* The writer: usb_bulk_write, once per packet.  What it returns is        *)
(* ignored by input_thread, so a failed submission changes nothing.        *)

bulk_write_submit(h) ==
  /\ pc["writer"][h] = "idle" /\ h \notin dead /\ h \in plugged
  /\ urb_out' = [urb_out EXCEPT ![h] = "queued"]
  /\ out_busy' = out_busy \cup {h}
  /\ pc' = [pc EXCEPT !["writer"][h] = "wait"]
  /\ UNCHANGED <<busVars, readonly, listed, mark, dead, urb_in, completed, reaped, signal, refVars, pollVars, lockVars>>

(* pthread_cond_timedwait comes back: the URB is done, or the handle dead. *)
(* A time-out (a positive result) makes it wait again.                     *)
bulk_write_wake(h) ==
  /\ pc["writer"][h] = "wait"
  /\ h \in dead \/ h \notin out_busy
  /\ pc' = [pc EXCEPT !["writer"][h] = "idle"]
  /\ urb_out' = [urb_out EXCEPT ![h] = "idle"]
  /\ UNCHANGED <<busVars, readonly, listed, mark, dead, urb_in, completed, out_busy, reaped, signal, refVars, pollVars, lockVars>>

(* Both threads on their way out.                                          *)
Exit == {"kick", "kicking", "unref", "close", "done"}

(* The reader's SYNC(0,0) has come round: the writer exits.                *)
writer_offline(h) ==
  /\ pc["writer"][h] = "idle" /\ pc["reader"][h] \in Exit
  /\ pc' = [pc EXCEPT !["writer"][h] = "kick"]
  /\ UNCHANGED <<busVars, readonly, listed, mark, dead, urbVars, refVars, pollVars, lockVars>>

(* kick_transport: the first one to come calls t->kick.                    *)
kick_transport(h, w) ==
  /\ pc[w][h] = "kick" /\ transport_lock = Nobody
  /\ kicked' = kicked \cup {h}
  /\ pc' = [pc EXCEPT ![w][h] = IF h \in kicked THEN "unref" ELSE "kicking"]
  /\ UNCHANGED <<busVars, readonly, listed, mark, dead, urbVars, refs, pollVars, lockVars>>

kick(h, w) ==
  /\ pc[w][h] = "kicking"
  /\ usb_kick(h)
  /\ pc' = [pc EXCEPT ![w][h] = "unref"]
  /\ UNCHANGED <<busVars, readonly, listed, mark, reaped, refVars, pollVars, lockVars>>

(* transport_unref; the last one closes, with transport_lock held.         *)
LastRef(h) == refs[h] = 1

transport_unref(h, w) ==
  /\ pc[w][h] = "unref" /\ transport_lock = Nobody
  /\ refs' = [refs EXCEPT ![h] = @ - 1]
  /\ transport_lock' = IF LastRef(h) THEN w ELSE Nobody
  /\ pc' = [pc EXCEPT ![w][h] = IF LastRef(h) THEN "close" ELSE "done"]
  /\ UNCHANGED <<busVars, readonly, listed, mark, dead, urbVars, kicked, pollVars, usb_lock>>

(* usb_close; closing the descriptor ends what is left of the URBs.        *)
usb_close_unlocked(h, w) ==
  /\ pc[w][h] = "close"
  /\ listed' = listed \ {h} /\ mark' = mark \ {h}
  /\ urb_in' = [urb_in EXCEPT ![h] = "idle"] /\ urb_out' = [urb_out EXCEPT ![h] = "idle"]
  /\ completed' = [completed EXCEPT ![h] = << >>]
  /\ out_busy' = out_busy \ {h} /\ signal' = signal \ {h}
  /\ transport_lock' = Nobody
  /\ pc' = [pc EXCEPT ![w][h] = "done"]
  /\ UNCHANGED <<busVars, readonly, dead, reaped, refVars, pollVars, usb_lock>>

usb_close(h, w) ==
  /\ pc[w][h] = "close" /\ usb_lock = Nobody
  /\ listed' = listed \ {h} /\ mark' = mark \ {h}
  /\ urb_in' = [urb_in EXCEPT ![h] = "idle"] /\ urb_out' = [urb_out EXCEPT ![h] = "idle"]
  /\ completed' = [completed EXCEPT ![h] = << >>]
  /\ out_busy' = out_busy \ {h} /\ signal' = signal \ {h}
  /\ transport_lock' = Nobody
  /\ pc' = [pc EXCEPT ![w][h] = "done"]
  /\ UNCHANGED <<busVars, readonly, dead, reaped, refVars, pollVars, usb_lock>>

---------------------------------------------------------------------------
(* The bus.  A device that comes back has a new number, hence a new name.  *)

Plug(h) ==
  /\ h \notin plugged /\ opens[h] = 0
  /\ plugged' = plugged \cup {h}
  /\ UNCHANGED <<opens, readonly, listed, mark, dead, urbVars, pc, refVars, pollVars, lockVars>>

(* The kernel completes the URBs of a device that leaves.                  *)
Unplug(h) ==
  /\ h \in plugged /\ opens[h] > 0
  /\ plugged' = plugged \ {h}
  /\ Discard(h)
  /\ UNCHANGED <<opens, readonly, listed, mark, dead, out_busy, reaped, signal, pc, refVars, pollVars, lockVars>>

DeviceSends(h) ==
  /\ h \in plugged /\ urb_in[h] = "queued"
  /\ urb_in' = [urb_in EXCEPT ![h] = "done"]
  /\ completed' = [completed EXCEPT ![h] = Append(@, "in")]
  /\ UNCHANGED <<busVars, readonly, listed, mark, dead, urb_out, out_busy, reaped, signal, pc, refVars, pollVars, lockVars>>

DeviceTakes(h) ==
  /\ h \in plugged /\ urb_out[h] = "queued"
  /\ urb_out' = [urb_out EXCEPT ![h] = "done"]
  /\ completed' = [completed EXCEPT ![h] = Append(@, "out")]
  /\ UNCHANGED <<busVars, readonly, listed, mark, dead, urb_in, out_busy, reaped, signal, pc, refVars, pollVars, lockVars>>

---------------------------------------------------------------------------
Poll ==
  \/ \E h \in Devices : \/ poll_find(h) \/ poll_register(h)
                        \/ poll_unmark(h) \/ poll_kick(h) \/ poll_unregister(h)
  \/ poll_lock \/ poll_unlock

Reader(h) == bulk_read_submit(h) \/ bulk_read_reap(h) \/ bulk_read_reaped(h)

Leave(h, w) == kick_transport(h, w) \/ kick(h, w) \/ transport_unref(h, w) \/ usb_close(h, w)

Next ==
  \/ Poll
  \/ \E h \in Devices : \/ Reader(h)
                        \/ bulk_write_submit(h) \/ bulk_write_wake(h) \/ writer_offline(h)
                        \/ \E w \in Threads : Leave(h, w)
                        \/ Plug(h) \/ Unplug(h) \/ DeviceSends(h) \/ DeviceTakes(h)

(* Every thread runs.  A thread that waits for a lock gets it when it is   *)
(* free often enough.  A device takes what it is sent.                     *)
Fairness ==
  /\ WF_vars(Poll)
  /\ SF_vars(poll_lock)
  /\ \A h \in Devices :
       /\ WF_vars(Reader(h)) /\ WF_vars(bulk_write_wake(h)) /\ WF_vars(writer_offline(h))
       /\ \A w \in Threads : SF_vars(Leave(h, w))
       /\ WF_vars(DeviceTakes(h))

Spec == Init /\ [][Next]_vars
FairSpec == Spec /\ Fairness

---------------------------------------------------------------------------
(* Properties.                                                             *)

(* A handle is only freed (usb_close) when neither thread uses it any more *)
(* and while the poll thread is not walking over it.                       *)
FreedIsUnused ==
  \A h \in Devices \ listed :
     /\ \A w \in Threads : pc[w][h] \in {"none", "done"}
     /\ poll = "kick" => h \notin todo

(* usb_bulk_write comes back: its completion is reaped by the reader, or   *)
(* the handle is kicked.                                                   *)
WriteReturns ==
  \A h \in Devices : (pc["writer"][h] = "wait") ~> (pc["writer"][h] # "wait")

(* usb_linux.c:501 "this ensures that a reader blocked on REAPURB will get *)
(* unblocked": once a handle is kicked both threads leave their loops and  *)
(* go on to drop their reference.                                          *)
KickEndsThreads ==
  \A h \in Devices : (h \in dead \ readonly) ~> (\A w \in Threads : pc[w][h] \in {"unref", "close", "done"})

(* transport.c:246 "In the event of transport IO failure, the output       *)
(* thread will post a SYNC(0,0) message to ensure shutdown".               *)
ShutdownEnsured ==
  \A h \in Devices : (pc["reader"][h] = "kick") ~> (pc["reader"][h] = "done")
=============================================================================
