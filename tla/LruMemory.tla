----------------------------- MODULE LruMemory -----------------------------
(***************************************************************************)
(* What the virtual memory manager of project8 promises: every address     *)
(* reads the byte the backing store has there; the NumFrames pages used    *)
(* most recently are in memory, the TlbSize most recent of them in the     *)
(* TLB, and the two statistics count the accesses that fell outside and    *)
(* inside of these sets.                                                   *)
(***************************************************************************)
EXTENDS Integers, Sequences, SequencesExt

CONSTANTS Addresses,          \* the addresses that may be asked for
          NumFrames, TlbSize,
          PageOf(_), OffsetOf(_)

VARIABLES order,   \* the pages in memory, the most recently used first
          faults,  \* how many accesses were page faults
          hits,    \* how many accesses hit the TLB
          answer   \* the byte the last access read: <<page, offset>>

lvars == <<order, faults, hits, answer>>

Truncate(s, n) == SubSeq(s, 1, IF Len(s) < n THEN Len(s) ELSE n)

Init ==
  /\ order = << >>
  /\ faults = 0
  /\ hits = 0
  /\ answer = << >>

Read(a) ==
  LET p == PageOf(a) IN
  /\ order' = Truncate(<<p>> \o RemoveFirst(order, p), NumFrames)
  /\ faults' = IF p \in ToSet(order) THEN faults ELSE faults + 1
  /\ hits' = IF p \in ToSet(Truncate(order, TlbSize)) THEN hits + 1 ELSE hits
  /\ answer' = <<p, OffsetOf(a)>>

Next == \E a \in Addresses : Read(a)

Spec == Init /\ [][Next]_lvars
=============================================================================
