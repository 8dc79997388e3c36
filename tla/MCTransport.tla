---------------------------- MODULE MCTransport ----------------------------
(* Instances of Transport for TLC: two transports, or one that sends more.  *)
EXTENDS TransportProofs

CONSTANTS tcp, usb, c1

BothKinds == {tcp, usb}
OneTcp    == {tcp}
OneClient == {c1}
TwoOne    == [t \in BothKinds |-> IF t = tcp THEN 2 ELSE 1]
Four      == [t \in OneTcp |-> 4]
=============================================================================
