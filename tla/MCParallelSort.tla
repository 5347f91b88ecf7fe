--------------------------- MODULE MCParallelSort ---------------------------
(***************************************************************************)
(* MSApp sorts every array of two to four elements of three values.  The   *)
(* Java programs sort arrays of seven, with ties: with a threshold of 3    *)
(* FJ-Merge has two levels of tasks, FJ-Quick a chain of four, and the     *)
(* ranges that are sorted in place have one to four elements.              *)
(***************************************************************************)
EXTENDS ParallelSort

Counts == <<3, 2, 2>>

MCRandomArrays ==
  {f \in ArraysOf(7) : \A v \in Values : Cardinality({k \in DOMAIN f : f[k] = v}) = Counts[v]}

MCTypedArrays == UNION {ArraysOf(n) : n \in 2 .. 4}
=============================================================================
