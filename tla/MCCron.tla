------------------------------- MODULE MCCron -------------------------------
(* Instances of Cron for TLC: a recurring job and a one-shot.                *)
EXTENDS Cron
=============================================================================
