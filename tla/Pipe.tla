-------------------------------- MODULE Pipe --------------------------------
(***************************************************************************)
(* What a stream promises to the applications at its two ends: the bytes   *)
(* one writes reach the other in order, once each, and the descriptor of   *)
(* an application that still listens is only closed when it has everything *)
(* the other one wrote before it finished - unless the service does not    *)
(* exist, the transport is lost or the other application is gone.          *)
(***************************************************************************)
EXTENDS Naturals, Sequences

CONSTANTS Ends, Other(_)

VARIABLES
  wrote,     \* how many bytes each application has written
  eof,       \* the applications that have finished writing
  gone,      \* the applications that have closed their descriptor
  got,       \* the bytes that reached each application
  up,        \* the transport works
  refused,   \* there is no such service
  done       \* the ends whose descriptor adb has closed

vars == <<wrote, eof, gone, got, up, refused, done>>

Init ==
  /\ wrote = [e \in Ends |-> 0]
  /\ eof = {} /\ gone = {} /\ done = {}
  /\ got = [e \in Ends |-> << >>]
  /\ up = TRUE /\ refused = FALSE

Write(e) ==
  /\ e \notin eof
  /\ wrote' = [wrote EXCEPT ![e] = @ + 1]
  /\ UNCHANGED <<eof, gone, got, up, refused, done>>

Finish(e) ==
  /\ eof' = eof \cup {e}
  /\ gone' \in {gone, gone \cup {e}}
  /\ UNCHANGED <<wrote, got, up, refused, done>>

Complete(e) == Other(e) \in eof /\ Len(got'[e]) = wrote[Other(e)]

MayClose(e) ==
  ~up \/ refused' \/ e \in eof \/ Other(e) \in gone \/ Complete(e)

(* The next k bytes arrive, and adb may close descriptors.                 *)
Serve ==
  /\ \E e \in Ends : \E k \in 0 .. wrote[Other(e)] - Len(got[e]) :
        /\ k > 0 => e \notin done
        /\ got' = [got EXCEPT ![e] = @ \o [i \in 1..k |-> Len(@) + i]]
  /\ refused' \in {refused, got = [e \in Ends |-> << >>]}
  /\ done \subseteq done' /\ done' \subseteq Ends
  /\ \A e \in done' \ done : MayClose(e)
  /\ UNCHANGED <<wrote, eof, gone, up>>

Lose == up /\ up' = FALSE /\ UNCHANGED <<wrote, eof, gone, got, refused, done>>

Next == (\E e \in Ends : Write(e) \/ Finish(e)) \/ Serve \/ Lose

Spec == Init /\ [][Next]_vars
=============================================================================
