---------------------------- MODULE MCNodeControl ----------------------------
(* Instances of NodeControl for TLC: one session suffices for the order of    *)
(* work, a queue of one for shedding, one ordinary slot for saturation.       *)
EXTENDS NodeControl
=============================================================================
