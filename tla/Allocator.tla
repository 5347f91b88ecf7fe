----------------------------- MODULE Allocator -----------------------------
(***************************************************************************)
(* project7/allocator.c: contiguous allocation.  The memory is a linked    *)
(* list of blocks, each a process or a hole (id -1), in the order of their *)
(* addresses; start, end and size are stored in every block and updated    *)
(* separately.  Commands request a block by one of three strategies,       *)
(* release a process's block, and compact the memory.                      *)
(*                                                                         *)
(* The program is sequential and a command is a step.  The list is a       *)
(* sequence.  STAT changes nothing and is left out.                        *)
(***************************************************************************)
EXTENDS Integers, Sequences, SequencesExt

CONSTANTS MAX,     \* argv[1], the size of the memory
          Ids,     \* the numbers that commands name; one too large reads as -1
          Sizes,   \* the sizes that commands name
          Types    \* the letters that commands name

ASSUME AllocatorAssumption ==
  /\ MAX \in Nat \ {0}
  /\ Ids \subseteq Int
  /\ Sizes \subseteq Int

VARIABLES
  blocks,     \* the list that starts at the variable memory
  status,     \* "running", "exited", or "dangling": memory points to a freed block
  reply       \* what the last command printed

vars == <<blocks, status, reply>>

Unused == -1

TypeOK ==
  /\ blocks \in Seq([id : Ids \cup {Unused}, start : Nat, end : Int, size : Nat])
  /\ blocks # << >>
  /\ status \in {"running", "exited", "dangling"}
  /\ reply \in {"none", "placed", "refused", "invalid", "released", "unknown"}

Init ==
  /\ blocks = << [id |-> Unused, start |-> 0, end |-> MAX - 1, size |-> MAX] >>
  /\ status = "running"
  /\ reply = "none"

-----------------------------------------------------------------------------
IsHole(k) == blocks[k].id = Unused

\* MUTANT: off by one in the test of the size.
SuitsByOne(k, n) == IsHole(k) /\ blocks[k].size >= n - 1

(* The test that each strategy makes before it uses block k.               *)
Suits(k, n) == IsHole(k) /\ blocks[k].size >= n

Suitable(n) == {k \in DOMAIN blocks : Suits(k, n)}

first_fit(n) == {k \in Suitable(n) : \A j \in Suitable(n) : k <= j}

(* The loops of best_fit() and worst_fit(), which start at the head of the *)
(* list, move to the first hole whatever its size, and from there to holes *)
(* that suit and are better.                                               *)
Scan(n, better) ==
  LET best[k \in DOMAIN blocks] ==
        IF k = 1 THEN 1
        ELSE IF IsHole(k) /\ (~IsHole(best[k - 1]) \/ (Suits(k, n) /\ <<k, best[k - 1]>> \in better))
          THEN k ELSE best[k - 1]
  IN best[Len(blocks)]

Smaller == {p \in (DOMAIN blocks) \X (DOMAIN blocks) : blocks[p[1]].size < blocks[p[2]].size}
Larger == {p \in (DOMAIN blocks) \X (DOMAIN blocks) : blocks[p[1]].size > blocks[p[2]].size}

best_fit(n) == Suitable(n) \cap {Scan(n, Smaller)}

\* MUTANT: the last of the largest holes.
worst_fit_last(n) ==
  Suitable(n) \cap
    {Scan(n, {p \in (DOMAIN blocks) \X (DOMAIN blocks) : blocks[p[1]].size >= blocks[p[2]].size})}

worst_fit(n) == Suitable(n) \cap {Scan(n, Larger)}

Chosen(type, n) ==
  CASE type = "F" -> first_fit(n) [] type = "B" -> best_fit(n) [] type = "W" -> worst_fit(n)

\* MUTANT: the end of the divided hole is not moved.
DividedKeepsEnd(k, id, n) ==
  LET b == blocks[k] IN
  IF b.size = n
    THEN [blocks EXCEPT ![k].id = id]
    ELSE InsertAt([blocks EXCEPT ![k].id = id, ![k].size = n], k + 1,
                  [id |-> Unused, start |-> b.start + n, end |-> b.end, size |-> b.size - n])

(* The hole k becomes the block of the process, or is divided.             *)
Divided(k, id, n) ==
  LET b == blocks[k] IN
  IF b.size = n
    THEN [blocks EXCEPT ![k].id = id]
    ELSE InsertAt([blocks EXCEPT ![k] = [id |-> id, start |-> b.start, end |-> b.start + n - 1, size |-> n]],
                  k + 1,
                  [id |-> Unused, start |-> b.start + n, end |-> b.end, size |-> b.size - n])

Valid(id, n, type) == n > 0 /\ id >= 0 /\ type \in {"F", "B", "W"}

(* The command "RQ".                                                       *)
Request(id, n, type) ==
  /\ status = "running"
  /\ IF ~Valid(id, n, type) THEN reply' = "invalid" /\ UNCHANGED blocks
     ELSE IF Chosen(type, n) = {} THEN reply' = "refused" /\ UNCHANGED blocks
     ELSE reply' = "placed" /\ \E k \in Chosen(type, n) : blocks' = Divided(k, id, n)
  /\ UNCHANGED status

-----------------------------------------------------------------------------
\* MUTANT: the hole before the block is not joined when one follows it.
FreedOneSide(k) ==
  LET after == k < Len(blocks) /\ IsHole(k + 1)
      first == IF ~after /\ k > 1 /\ IsHole(k - 1) THEN k - 1 ELSE k
      last == IF after THEN k + 1 ELSE k
      hole == [id |-> Unused, start |-> blocks[first].start, end |-> blocks[last].end,
               size |-> blocks[k].size + (IF first < k THEN blocks[first].size ELSE 0)
                                       + (IF k < last THEN blocks[last].size ELSE 0)]
  IN SubSeq(blocks, 1, first - 1) \o <<hole>> \o SubSeq(blocks, last + 1, Len(blocks))

(* release(): block k and the holes on either side become one hole.        *)
Freed(k) ==
  LET first == IF k > 1 /\ IsHole(k - 1) THEN k - 1 ELSE k
      last == IF k < Len(blocks) /\ IsHole(k + 1) THEN k + 1 ELSE k
      hole == [id |-> Unused, start |-> blocks[first].start, end |-> blocks[last].end,
               size |-> blocks[k].size + (IF first < k THEN blocks[first].size ELSE 0)
                                       + (IF k < last THEN blocks[last].size ELSE 0)]
  IN SubSeq(blocks, 1, first - 1) \o <<hole>> \o SubSeq(blocks, last + 1, Len(blocks))

(* The command "RL", for the first block with the id.  An id of -1 is      *)
(* reported and looked for all the same.                                   *)
Release(id) ==
  LET own == {k \in DOMAIN blocks : blocks[k].id = id} IN
  /\ status = "running"
  /\ IF own = {}
       THEN UNCHANGED blocks /\ reply' = IF id = Unused THEN "invalid" ELSE "unknown"
       ELSE /\ \E k \in own : (\A j \in own : k <= j) /\ blocks' = Freed(k)
            /\ reply' = IF id = Unused THEN "invalid" ELSE "released"
  /\ UNCHANGED status

(* compact(), one turn of its loop: a hole is added up and freed, a process *)
(* is moved to where the one before it ends.                               *)
Moved(done, b) ==
  LET start == IF done.list = << >> THEN 0 ELSE Last(done.list).end + 1
  IN IF b.id = Unused
       THEN [done EXCEPT !.unused_space = @ + b.size]
       ELSE [done EXCEPT !.list = Append(@, [b EXCEPT !.start = start, !.end = start + b.size - 1])]

(* The list that is left, and unused_space, after k turns.                 *)
AfterTurn[k \in 0 .. Len(blocks)] ==
  IF k = 0 THEN [list |-> << >>, unused_space |-> 0] ELSE Moved(AfterTurn[k - 1], blocks[k])

(* The command "C": what the holes had becomes one hole at the end, of     *)
(* size 0 if there were none.  The variable memory is not assigned: when   *)
(* the first block was a hole it is left pointing to what was freed, and   *)
(* nothing that follows is defined.                                        *)
Compact ==
  /\ status = "running"
  /\ IF Len(blocks) = 1
       THEN UNCHANGED <<blocks, status>>
       ELSE LET done == AfterTurn[Len(blocks)]
            IN /\ blocks' = Append(done.list, [id |-> Unused, start |-> Last(done.list).end + 1,
                                               end |-> MAX - 1, size |-> done.unused_space])
               /\ status' = IF IsHole(1) THEN "dangling" ELSE status
  /\ reply' = "none"

(* The command "X".                                                        *)
Exit == status = "running" /\ status' = "exited" /\ UNCHANGED <<blocks, reply>>

Terminated == status # "running" /\ UNCHANGED vars

Next ==
  \/ \E id \in Ids, n \in Sizes, type \in Types : Request(id, n, type)
  \/ \E id \in Ids : Release(id)
  \/ Compact
  \/ Exit
  \/ Terminated

Spec == Init /\ [][Next]_vars

-----------------------------------------------------------------------------
(* The blocks tile the memory: they adjoin, from address 0 to the last,    *)
(* and start, end and size of each agree; only a last hole may be empty.   *)
Tiling ==
  /\ blocks[1].start = 0
  /\ Last(blocks).end = MAX - 1
  /\ \A k \in DOMAIN blocks :
       /\ blocks[k].size = blocks[k].end - blocks[k].start + 1
       /\ blocks[k].size = 0 => k = Len(blocks) /\ IsHole(k)
       /\ k > 1 => blocks[k].start = blocks[k - 1].end + 1

(* Release joins holes in all of its nine cases: no two holes are          *)
(* neighbours, so that what is free in one piece is found in one piece.    *)
Coalesced == \A k \in 2 .. Len(blocks) : ~(IsHole(k - 1) /\ IsHole(k))

(* The list is a set of regions owned by processes: nobody's region is     *)
(* touched by another's command, first fit and worst fit refuse only what  *)
(* fits nowhere, and each takes the hole that its name promises.           *)
Abstract == INSTANCE MemoryRegions WITH
  regions <- {[id |-> blocks[k].id, start |-> blocks[k].start, size |-> blocks[k].size]
                : k \in {j \in DOMAIN blocks : ~IsHole(j)}}

IsMemoryRegions == Abstract!Spec

(* "find the min suitable hole": best fit finds it if there is one.        *)
FindsMinSuitable ==
  \A n \in Sizes :
    n > 0 /\ Suitable(n) # {} =>
      \E k \in best_fit(n) : \A j \in Suitable(n) : blocks[k].size <= blocks[j].size

(* "compact the unused space into one block at the end of memory": the     *)
(* list can still be reached afterwards.                                   *)
MemoryReachable == status # "dangling"
=============================================================================
