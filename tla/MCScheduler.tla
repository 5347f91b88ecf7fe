---------------------------- MODULE MCScheduler -----------------------------
(***************************************************************************)
(* Files of up to three lines.  With a quantum of 2 the bursts are below   *)
(* it, equal to it, and long enough for three turns; two priorities give   *)
(* ties and preferences, and every pattern of equal names occurs.          *)
(***************************************************************************)
EXTENDS Scheduler
=============================================================================
