------------------------------- MODULE MCUsb -------------------------------
(* Instances of Usb for TLC.                                               *)
EXTENDS Usb

CONSTANTS d1, d2

OneDevice == {d1}
TwoDevices == {d1, d2}
Either == [h \in OneDevice |-> {"rw", "ro"}]
OneOfEach == [h \in TwoDevices |-> IF h = d1 THEN {"rw"} ELSE {"ro"}]
=============================================================================
