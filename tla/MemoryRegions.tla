--------------------------- MODULE MemoryRegions ---------------------------
(***************************************************************************)
(* What the allocator of project7 promises: a set of regions of the memory *)
(* that belong to processes.  There is no list and there are no holes to   *)
(* keep: a hole is a longest run of addresses that belong to nobody.       *)
(***************************************************************************)
EXTENDS Integers, FiniteSets

CONSTANTS MAX, Ids, Sizes, Types

VARIABLES
  regions,    \* who has what: id, start, size
  reply       \* the answer to the last command

rvars == <<regions, reply>>

Addresses(r) == r.start .. r.start + r.size - 1
Taken == UNION {Addresses(r) : r \in regions}

(* The holes: their first address, and how many addresses they have.       *)
Holes ==
  {hole \in [start : 0 .. MAX - 1, size : 1 .. MAX] :
     /\ hole.start + hole.size <= MAX
     /\ hole.start > 0 => hole.start - 1 \in Taken
     /\ hole.start + hole.size < MAX => hole.start + hole.size \in Taken
     /\ Addresses(hole) \cap Taken = {}}

Fitting(n) == {hole \in Holes : hole.size >= n}

(* The hole that a strategy takes: the lowest, the smallest or the largest *)
(* one that fits, and the lowest of several.                               *)
Preferred(type, fitting) ==
  {hole \in fitting :
     \A other \in fitting :
       \/ type = "B" /\ hole.size < other.size
       \/ type = "W" /\ hole.size > other.size
       \/ (type # "F" => hole.size = other.size) /\ hole.start <= other.start}

Init == regions = {} /\ reply = "none"

Valid(id, n, type) == n > 0 /\ id >= 0 /\ type \in {"F", "B", "W"}

Place(id, n, type) ==
  /\ reply' = "placed"
  /\ Valid(id, n, type)
  /\ \E hole \in Preferred(type, Fitting(n)) :
       regions' = regions \cup {[id |-> id, start |-> hole.start, size |-> n]}

(* A process is refused only when nothing fits; best fit may do so early.  *)
Refuse(id, n, type) ==
  /\ reply' = "refused"
  /\ UNCHANGED regions
  /\ Valid(id, n, type)
  /\ type = "B" \/ Fitting(n) = {}

Reject(id, n, type) ==
  ~Valid(id, n, type) /\ reply' = "invalid" /\ UNCHANGED regions

(* Of several regions of a process the lowest one is given back.           *)
Free(id) ==
  LET own == {r \in regions : r.id = id} IN
  \/ /\ own # {}
     /\ regions' = {r \in regions : r \notin own \/ \E s \in own : s.start < r.start}
     /\ reply' = "released"
  \/ own = {} /\ reply' \in {"unknown", "invalid"} /\ UNCHANGED regions

(* Every region moves down, over the addresses below it that are free.     *)
Compact ==
  /\ regions' = {[r EXCEPT !.start = Cardinality(Taken \cap 0 .. r.start - 1)] : r \in regions}
  /\ reply' = "none"

Next ==
  \/ \E id \in Ids, n \in Sizes, type \in Types :
       Place(id, n, type) \/ Refuse(id, n, type) \/ Reject(id, n, type)
  \/ \E id \in Ids : Free(id)
  \/ Compact

Spec == Init /\ [][Next]_rvars
=============================================================================
