---------------------------- MODULE MCThreadPool ----------------------------
(***************************************************************************)
(* Two slots and three submissions, so that the last one has to wait for a *)
(* slot that was used before, as the fourth of client.c does with three.   *)
(***************************************************************************)
EXTENDS ThreadPool
=============================================================================
