-------------------------- MODULE MCFleetQuestions --------------------------
(* Instances of FleetQuestions for TLC: an agent that asks, is answered and   *)
(* asks again.                                                                *)
EXTENDS FleetQuestions
=============================================================================
