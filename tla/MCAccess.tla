------------------------------ MODULE MCAccess ------------------------------
(* Instances of GraphAccess for TLC.                                         *)
EXTENDS GraphAccess

CONSTANTS a1, a2, x1

AllOnFirst == [x \in Calls |-> a1]

=============================================================================
