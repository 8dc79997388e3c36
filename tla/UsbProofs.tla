----------------------------- MODULE UsbProofs -----------------------------
(* No usb_handle is freed while a thread uses it, for any number of        *)
(* devices.                                                                *)
EXTENDS Usb, TLAPS

(* A leaf that names no prover is Zenon's.                                *)
USE Zenon

PCs == {"none", "submit", "reap", "reaped", "idle", "wait"} \cup Exit

Types ==
  /\ pc \in [Threads -> [Devices -> PCs]]
  /\ refs \in [Devices -> Nat]
  /\ listed \subseteq Devices /\ todo \subseteq Devices

Other(w) == IF w = "reader" THEN "writer" ELSE "reader"

(* A thread that still has its reference.                                  *)
Holds(w, h) == pc[w][h] \notin {"none", "close", "done"}

(* t->ref_count counts the threads that have not dropped theirs, and the   *)
(* one that closes the handle is the last.                                 *)
Counted(h) ==
  /\ refs[h] = (IF Holds("reader", h) THEN 1 ELSE 0) + (IF Holds("writer", h) THEN 1 ELSE 0)
  /\ \A w \in Threads : pc[w][h] = "close" => pc[Other(w)][h] = "done"
  /\ pc["reader"][h] = "none" <=> pc["writer"][h] = "none"

(* A handle that is off the list has no threads, and the poll thread does  *)
(* not get at it.                                                          *)
Unused(h) ==
  h \notin listed => /\ \A w \in Threads : pc[w][h] \in {"none", "done"}
                     /\ poll = "kick" => h \notin todo

IInv ==
  /\ Types
  /\ poll = "kick" <=> usb_lock = "poll"
  /\ \A h \in Devices : Counted(h) /\ Unused(h)

---------------------------------------------------------------------------
(* The invariant holds before the threads are started.                     *)
LEMMA InitIInv == Init => IInv
  BY UsbAssumption, SMT DEF Init, IInv, Types, Counted, Unused, Holds, PCs, Exit, Threads, Other

(* A step that leaves threads, references, list and lock alone, and only   *)
(* takes handles off the poll thread's list.                               *)
LEMMA Frame ==
  ASSUME IInv, UNCHANGED <<pc, refs, listed, poll, usb_lock>>, todo' \subseteq todo
  PROVE  IInv'
  BY DEF IInv, Types, Counted, Unused, Holds, PCs, Exit, Threads, Other

(* One thread goes from one place of its loop to another.                  *)
LEMMA Stays ==
  ASSUME IInv, NEW h \in Devices, NEW w \in Threads, NEW p \in PCs,
         Holds(w, h), p \notin {"none", "close", "done"},
         pc' = [pc EXCEPT ![w][h] = p],
         UNCHANGED <<refs, listed, poll, todo, usb_lock>>
  PROVE  IInv'
<1>1. pc' \in [Threads -> [Devices -> PCs]]
  BY DEF IInv, Types
<1>2. ASSUME NEW g \in Devices PROVE Counted(g)' /\ Unused(g)'
  <2>1. \A v \in Threads : pc'[v][g] = IF v = w /\ g = h THEN p ELSE pc[v][g]
    BY DEF IInv, Types
  <2>2. Counted(g) /\ Unused(g)
    BY DEF IInv
  <2>3. \A v \in Threads : Holds(v, g)' <=> Holds(v, g)
    BY <2>1 DEF Holds
  <2>4. Counted(g)'
    BY <2>1, <2>2, <2>3 DEF Counted, Threads, Other, Holds
  <2>5. Unused(g)'
    BY <2>1, <2>2 DEF Unused, Holds
  <2> QED BY <2>4, <2>5
<1> QED BY <1>1, <1>2 DEF IInv, Types

(* device_poll_thread.                                                     *)
LEMMA PollSteps == ASSUME IInv, Poll PROVE IInv'
<1>1. ASSUME NEW h \in Devices, poll_find(h) \/ poll_unmark(h) \/ poll_kick(h) \/ poll_unregister(h)
      PROVE  IInv'
  BY <1>1, Frame DEF poll_find, poll_unmark, poll_kick, poll_unregister, refVars, lockVars
<1>2. ASSUME NEW h \in Devices, poll_register(h) PROVE IInv'
  <2>1. Counted(h) /\ \A w \in Threads : pc[w][h] \in {"none", "done"}
    BY <1>2 DEF poll_register, IInv, Unused
  <2>2. /\ listed' = listed \cup {h} /\ todo' = todo \ {h}
        /\ UNCHANGED <<poll, usb_lock>> /\ poll # "kick"
    BY <1>2 DEF poll_register, lockVars
  <2>3. CASE /\ refs' = [refs EXCEPT ![h] = 2]
             /\ pc' = [pc EXCEPT !["reader"][h] = "submit", !["writer"][h] = "idle"]
    <3>1. /\ \A v \in Threads, g \in Devices \ {h} : pc'[v][g] = pc[v][g]
          /\ pc'["reader"][h] = "submit" /\ pc'["writer"][h] = "idle"
          /\ pc' \in [Threads -> [Devices -> PCs]]
      BY <2>3 DEF IInv, Types, Threads, PCs
    <3>2. Types'
      BY <2>2, <2>3, <3>1 DEF IInv, Types
    <3>3. Counted(h)' /\ Unused(h)'
      BY <2>2, <2>3, <3>1, SMT DEF IInv, Types, Counted, Unused, Holds, Threads, Other
    <3>4. ASSUME NEW g \in Devices \ {h} PROVE Counted(g)' /\ Unused(g)'
      BY <2>2, <2>3, <3>1, SMT DEF IInv, Types, Counted, Unused, Holds, Threads, Other
    <3> QED BY <2>2, <3>2, <3>3, <3>4 DEF IInv
  <2>4. CASE UNCHANGED <<refs, pc>>
    BY <2>1, <2>2, <2>4 DEF IInv, Types, Counted, Unused, Holds, Threads, Other
  <2> QED BY <1>2, <2>3, <2>4 DEF poll_register
<1>3. CASE poll_lock
  BY <1>3 DEF poll_lock, IInv, Types, Counted, Unused, Holds, Threads, Other, refVars
<1>4. CASE poll_unlock
  BY <1>4, UsbAssumption DEF poll_unlock, IInv, Types, Counted, Unused, Holds, Threads, Other, refVars
<1> QED BY <1>1, <1>2, <1>3, <1>4 DEF Poll

(* usb_bulk_read and usb_bulk_write.                                       *)
LEMMA IoSteps ==
  ASSUME IInv, NEW h \in Devices,
         Reader(h) \/ bulk_write_submit(h) \/ bulk_write_wake(h) \/ writer_offline(h)
  PROVE  IInv'
<1>1. CASE bulk_read_submit(h)
  <2> DEFINE p == IF h \notin dead /\ h \in plugged THEN "reap" ELSE "kick"
  <2>1. p \in PCs /\ p \notin {"none", "close", "done"} /\ Holds("reader", h)
    BY <1>1 DEF bulk_read_submit, Holds, PCs, Exit
  <2>2. pc' = [pc EXCEPT !["reader"][h] = p] /\ UNCHANGED <<refs, listed, poll, todo, usb_lock>>
    BY <1>1 DEF bulk_read_submit, refVars, pollVars, lockVars
  <2> QED BY <2>1, <2>2, Stays DEF Threads
<1>2. CASE bulk_read_reap(h)
  <2>1. PICK p \in {"reaped"} : pc' = [pc EXCEPT !["reader"][h] = p]
    BY <1>2 DEF bulk_read_reap
  <2>2. Holds("reader", h) /\ UNCHANGED <<refs, listed, poll, todo, usb_lock>>
    BY <1>2 DEF bulk_read_reap, Holds, refVars, pollVars, lockVars
  <2> QED BY <2>1, <2>2, Stays DEF PCs, Exit, Threads
<1>3. CASE bulk_read_reaped(h)
  <2>1. PICK p \in {"reap", "submit", "kick"} : pc' = [pc EXCEPT !["reader"][h] = p]
    BY <1>3 DEF bulk_read_reaped
  <2>2. Holds("reader", h) /\ UNCHANGED <<refs, listed, poll, todo, usb_lock>>
    BY <1>3 DEF bulk_read_reaped, Holds, refVars, pollVars, lockVars
  <2> QED BY <2>1, <2>2, Stays DEF PCs, Exit, Threads
<1>4. CASE bulk_write_submit(h)
  <2>1. PICK p \in {"wait"} : pc' = [pc EXCEPT !["writer"][h] = p]
    BY <1>4 DEF bulk_write_submit
  <2>2. Holds("writer", h) /\ UNCHANGED <<refs, listed, poll, todo, usb_lock>>
    BY <1>4 DEF bulk_write_submit, Holds, refVars, pollVars, lockVars
  <2> QED BY <2>1, <2>2, Stays DEF PCs, Exit, Threads
<1>5. CASE bulk_write_wake(h)
  <2>1. PICK p \in {"idle"} : pc' = [pc EXCEPT !["writer"][h] = p]
    BY <1>5 DEF bulk_write_wake
  <2>2. Holds("writer", h) /\ UNCHANGED <<refs, listed, poll, todo, usb_lock>>
    BY <1>5 DEF bulk_write_wake, Holds, refVars, pollVars, lockVars
  <2> QED BY <2>1, <2>2, Stays DEF PCs, Exit, Threads
<1>6. CASE writer_offline(h)
  <2>1. PICK p \in {"kick"} : pc' = [pc EXCEPT !["writer"][h] = p]
    BY <1>6 DEF writer_offline
  <2>2. Holds("writer", h) /\ UNCHANGED <<refs, listed, poll, todo, usb_lock>>
    BY <1>6 DEF writer_offline, Holds, refVars, pollVars, lockVars
  <2> QED BY <2>1, <2>2, Stays DEF PCs, Exit, Threads
<1> QED BY <1>1, <1>2, <1>3, <1>4, <1>5, <1>6 DEF Reader

(* The end of both threads.  The one that drops the last reference finds   *)
(* the other one gone, and takes the handle off the list only when the     *)
(* poll thread is not in kick_disconnected_devices.                        *)
LEMMA LeaveSteps ==
  ASSUME IInv, NEW h \in Devices, NEW w \in Threads, Leave(h, w)
  PROVE  IInv'
<1>1. CASE kick_transport(h, w)
  <2> DEFINE p == IF h \in kicked THEN "unref" ELSE "kicking"
  <2>1. p \in PCs /\ p \notin {"none", "close", "done"} /\ Holds(w, h)
    BY <1>1 DEF kick_transport, Holds, PCs, Exit
  <2>2. pc' = [pc EXCEPT ![w][h] = p] /\ UNCHANGED <<refs, listed, poll, todo, usb_lock>>
    BY <1>1 DEF kick_transport, pollVars, lockVars
  <2> QED BY <2>1, <2>2, Stays
<1>2. CASE kick(h, w)
  <2>1. PICK p \in {"unref"} : pc' = [pc EXCEPT ![w][h] = p]
    BY <1>2 DEF kick
  <2>2. Holds(w, h) /\ UNCHANGED <<refs, listed, poll, todo, usb_lock>>
    BY <1>2 DEF kick, Holds, refVars, pollVars, lockVars
  <2> QED BY <2>1, <2>2, Stays DEF PCs, Exit
<1>3. CASE transport_unref(h, w)
  <2> DEFINE p == IF refs[h] = 1 THEN "close" ELSE "done"
  <2>1. /\ pc[w][h] = "unref" /\ refs' = [refs EXCEPT ![h] = @ - 1] /\ pc' = [pc EXCEPT ![w][h] = p]
        /\ UNCHANGED <<listed, poll, todo, usb_lock>>
    BY <1>3 DEF transport_unref, LastRef, pollVars
  <2>2. \A v \in Threads, g \in Devices : pc'[v][g] = IF v = w /\ g = h THEN p ELSE pc[v][g]
    BY <2>1 DEF IInv, Types
  <2>3. pc' \in [Threads -> [Devices -> PCs]]
    BY <2>1 DEF IInv, Types, PCs, Exit
  <2>4. ASSUME NEW g \in Devices \ {h} PROVE Counted(g)' /\ Unused(g)'
    BY <2>1, <2>2, SMT DEF IInv, Types, Counted, Unused, Holds, Threads, Other
  <2>5. Counted(h) /\ refs[h] \in Nat
    BY DEF IInv, Types
  <2>6. refs[h] = 1 => pc[Other(w)][h] = "done"
    BY <2>1, <2>5, SMT DEF Counted, Holds, Threads, Other
  <2>7. Counted(h)' /\ refs'[h] \in Nat
    BY <2>1, <2>2, <2>5, <2>6, SMT DEF IInv, Types, Counted, Holds, Threads, Other
  <2>8. Unused(h)'
    BY <2>1, <2>2 DEF IInv, Unused
  <2>9. refs' \in [Devices -> Nat]
    BY <2>1, <2>7 DEF IInv, Types
  <2> QED BY <2>1, <2>3, <2>4, <2>7, <2>8, <2>9 DEF IInv, Types
<1>4. CASE usb_close(h, w)
  <2>1. /\ pc[w][h] = "close" /\ pc' = [pc EXCEPT ![w][h] = "done"] /\ usb_lock = Nobody
        /\ listed' = listed \ {h} /\ UNCHANGED <<refs, poll, todo, usb_lock>>
    BY <1>4 DEF usb_close, refVars, pollVars
  <2>2. \A v \in Threads, g \in Devices : pc'[v][g] = IF v = w /\ g = h THEN "done" ELSE pc[v][g]
    BY <2>1 DEF IInv, Types
  <2>3. pc' \in [Threads -> [Devices -> PCs]]
    BY <2>1 DEF IInv, Types, PCs, Exit
  <2>4. poll # "kick"
    BY <2>1, UsbAssumption DEF IInv
  <2>5. ASSUME NEW g \in Devices \ {h} PROVE Counted(g)' /\ Unused(g)'
    BY <2>1, <2>2, SMT DEF IInv, Types, Counted, Unused, Holds, Threads, Other
  <2>6. Counted(h)' /\ Unused(h)'
    BY <2>1, <2>2, <2>4, SMT DEF IInv, Types, Counted, Unused, Holds, Threads, Other
  <2> QED BY <2>1, <2>3, <2>5, <2>6 DEF IInv, Types
<1> QED BY <1>1, <1>2, <1>3, <1>4 DEF Leave

(* Every step of every thread and of the bus keeps the invariant.          *)
LEMMA NextIInv == IInv /\ [Next]_vars => IInv'
<1> SUFFICES ASSUME IInv, [Next]_vars PROVE IInv'
  OBVIOUS
<1>1. ASSUME NEW h \in Devices, Plug(h) \/ Unplug(h) \/ DeviceSends(h) \/ DeviceTakes(h)
      PROVE  IInv'
  BY <1>1, Frame DEF Plug, Unplug, DeviceSends, DeviceTakes, refVars, pollVars, lockVars
<1>2. CASE UNCHANGED vars
  BY <1>2, Frame DEF vars, refVars, pollVars, lockVars
<1> QED BY <1>1, <1>2, PollSteps, IoSteps, LeaveSteps DEF Next

(* usb_close frees a handle only when neither thread of its transport uses *)
(* it any more and the poll thread is not walking over it, whatever the    *)
(* number of devices: ref_count counts the threads, so that the last one   *)
(* closes, and kick_disconnected_devices holds usb_lock.                   *)
THEOREM FreedHandlesAreUnused == Spec => []FreedIsUnused
<1>1. IInv => FreedIsUnused
  BY DEF IInv, Unused, FreedIsUnused
<1> QED BY <1>1, InitIInv, NextIInv, PTL DEF Spec
=============================================================================
