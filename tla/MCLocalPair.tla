---------------------------- MODULE MCLocalPair ----------------------------
(* Instances of LocalPair for TLC.                                         *)
EXTENDS LocalPair

ThreeEach == [e \in Ends |-> 3]
=============================================================================
