---------------------------- MODULE MCAllocator ----------------------------
(***************************************************************************)
(* Six units of memory and two processes, which may own several blocks:    *)
(* enough for holes of two sizes, and for two of a size, with processes on *)
(* both sides.  Sizes and ids include those that request() rejects, and    *)
(* Types a letter that is no strategy.                                     *)
(***************************************************************************)
EXTENDS Allocator

MCIds == -1 .. 1
MCSizes == 0 .. 3
MCTypes == {"F", "B", "W", "X"}
=============================================================================
