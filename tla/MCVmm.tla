------------------------------- MODULE MCVmm -------------------------------
(***************************************************************************)
(* Four pages compete for three frames and two TLB entries.  The addresses *)
(* include a negative one and one beyond the memory, which the mask of     *)
(* main() brings back to pages 3 and 1.                                    *)
(***************************************************************************)
EXTENDS Vmm

MCAddresses == {0, -1, 5, 10, 11}
=============================================================================
