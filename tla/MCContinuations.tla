--------------------------- MODULE MCContinuations ---------------------------
(* Instances of Continuations for TLC: no action looks at two cards, so one   *)
(* card shows every interleaving.                                             *)
EXTENDS Continuations
=============================================================================
