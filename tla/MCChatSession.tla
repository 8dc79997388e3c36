--------------------------- MODULE MCChatSession ---------------------------
(* Instances of ChatSession for TLC.                                       *)
EXTENDS ChatSession

CONSTANTS c1, c2, n1, s1, s2

OneClient == {c1}
TwoClients == {c1, c2}
OneName == {n1}
TwoObjects == {s1, s2}
=============================================================================
