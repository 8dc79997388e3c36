----------------------------- MODULE MCFdEvent -----------------------------
(* An instance of FdEvent for TLC.                                          *)
EXTENDS FdEvent

CONSTANTS e1, e2

TwoFdes == {e1, e2}
TwoFds == {0, 1}
ReadWrite == {"read", "write"}
=============================================================================
