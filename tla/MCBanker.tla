------------------------------ MODULE MCBanker ------------------------------
(***************************************************************************)
(* Three customers and two resources.  From (3, 2) with the first matrix   *)
(* some requests have to be refused although the resources are there; with *)
(* the second matrix the endowment (1, 2) is not safe to begin with.       *)
(***************************************************************************)
EXTENDS Banker, TLC

Vec(a, b) == 0 :> a @@ 1 :> b

MCAmounts == {Vec(1, 0), Vec(0, 1), Vec(2, 1), Vec(0, 0)}
MCEndowments == {Vec(3, 2), Vec(1, 2)}
MCMaxima == {0 :> Vec(2, 1) @@ 1 :> Vec(3, 2) @@ 2 :> Vec(2, 2),
             0 :> Vec(1, 2) @@ 1 :> Vec(2, 1) @@ 2 :> Vec(3, 1)}
=============================================================================
