----------------------------- MODULE MCDevices -----------------------------
(* Two structs, each of which may become a USB device (writeable or not),  *)
(* the emulator of the one port, or the TCP device of the one address.     *)
EXTENDS Devices

CONSTANTS a, b

TwoTransports == {a, b}
OnePort == [t \in TwoTransports |-> 5555]

============================================================================
