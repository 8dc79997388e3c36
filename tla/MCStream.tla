------------------------------ MODULE MCStream ------------------------------
(* Instances of Stream for TLC.                                            *)
EXTENDS Stream

BothWays == [e \in Ends |-> IF e = "host" THEN 1 ELSE 3]
=============================================================================
