---------------------------- MODULE MCComputerUse ----------------------------
(* Instances of ComputerUse for TLC.  Three calls are a screenshot, the input *)
(* that refers to it, and another call that races them.                       *)
EXTENDS ComputerUse
=============================================================================
