---------------------------- MODULE ParallelSort ----------------------------
(***************************************************************************)
(* project3: three programs that sort an array in parallel.                *)
(*   FJ-Merge, FJ-Quick   a fork-join task splits its range, forks a task  *)
(*                        for each part, joins both and merges the parts;  *)
(*                        FJ-Quick partitions first, but then splits after *)
(*                        the first element, wherever the pivot went       *)
(*   MSApp                two threads quicksort a half each while a third  *)
(*                        one merges the halves, joined with the others    *)
(*                                                                         *)
(* An activity is the call that works on a range <<begin, end>>: a task, a *)
(* sorting thread, a recursive call of quicksort(); in MSApp the activity  *)
(* of the whole range is the merging thread.  A step has at most one       *)
(* access to the array that a thread of MSApp could see half done; the     *)
(* passes of selectionsort() and the copying at the end of the Java        *)
(* merge() are single steps, as no other task is in their range            *)
(* (NoOverlap).  The pool may run a forked task at any time.               *)
(***************************************************************************)
EXTENDS Integers, Sequences, FiniteSets, FiniteSetsExt

CONSTANTS THRESHOLD,
          Values,         \* what the arrays hold
          RandomArrays,   \* the arrays, all of one size, that main() of the Java programs makes
          TypedArrays     \* the arrays, of two elements or more, that MSApp is given

(* An array is a function on 0 .. n - 1.                                   *)
ArraysOf(n) == [0 .. n - 1 -> Values]

ASSUME SortAssumption ==
  /\ THRESHOLD \in Nat \ {0}
  /\ Values \subseteq Int
  /\ \A f \in RandomArrays \cup TypedArrays :
       /\ Cardinality(DOMAIN f) \in Nat \ {0}
       /\ f \in ArraysOf(Cardinality(DOMAIN f))
  /\ \A f \in TypedArrays : Cardinality(DOMAIN f) > 1
  /\ \A f, g \in RandomArrays : DOMAIN f = DOMAIN g

VARIABLES
  program,   \* which of the three
  input,     \* the array at the start
  array,
  act,       \* the activities begun so far: where they are, and their locals
  raced      \* history, for Sorts: has MSApp's merge() read a half of the array
             \* that its sorting thread was not done with?

vars == <<program, input, array, act, raced>>

FJ == program # "MSApp"
Root == <<0, Cardinality(DOMAIN input) - 1>>

(* i and j: the indices of quicksort() or of selectionsort(), or smlst1    *)
(* and smlst2; held: tmp, or the first operand of merge()'s comparison;    *)
(* out: what merge() has written to sorted_array.                          *)
At(place, i, j) == [pc |-> place, i |-> i, j |-> j, held |-> 0, out |-> <<>>]
Done == At("done", 0, 0)
Forked == At("forked", 0, 0)

Places == {"forked", "select", "scan", "store", "left", "right", "wait",
           "merge", "compare", "take1", "take2", "done"}

TypeOK ==
  /\ program \in {"FJ-Merge", "FJ-Quick", "MSApp"}
  /\ input \in RandomArrays \cup TypedArrays
  /\ array \in [DOMAIN input -> Values]
  /\ \A r \in DOMAIN act :
       /\ r[1] \in 0 .. r[2] /\ r[2] \in 0 .. Root[2]
       /\ act[r].pc \in Places
       /\ act[r].pc \in {"scan", "store"} => {act[r].i, act[r].j} \subseteq r[1] .. r[2]
       /\ act[r].pc \in {"compare", "take1"} => act[r].i \in r[1] .. r[2]
       /\ act[r].pc \in {"compare", "take2"} => act[r].j \in r[1] .. r[2]
       /\ act[r].out \in Seq(Values) /\ Len(act[r].out) <= r[2] - r[1] + 1
  /\ raced \in BOOLEAN

(* int mid = mergesort(begin, end), or the pivot that quicksort() returns. *)
Mid(r) == IF program = "FJ-Quick" THEN r[1] ELSE (r[1] + r[2]) \div 2

Part1(r) == <<r[1], Mid(r)>>
Part2(r) == <<Mid(r) + 1, r[2]>>

Merging(r) == At("merge", r[1], Mid(r) + 1)

(* quicksort(low, high) does nothing unless low < high.                    *)
Called(r) == IF r[1] < r[2] THEN At("scan", r[1], r[2]) ELSE Done
-----------------------------------------------------------------------------
(* main() of the Java programs: pool.invoke(task).                         *)
InitForkJoin ==
  /\ program \in {"FJ-Merge", "FJ-Quick"}
  /\ input \in RandomArrays
  /\ act = [r \in {Root} |-> Forked]

(* main() of MSApp creates all three threads before it joins any.          *)
InitMSApp ==
  /\ program = "MSApp"
  /\ input \in TypedArrays
  /\ act = [r \in {Root, Part1(Root), Part2(Root)} |-> IF r = Root THEN Merging(r) ELSE Called(r)]

Init ==
  /\ InitForkJoin \/ InitMSApp
  /\ array = input
  /\ raced = FALSE

-----------------------------------------------------------------------------
Goes(r, from, to) == act[r].pc = from /\ act' = [act EXCEPT ![r] = to]

(* Activity r goes on at to, and others begin.                             *)
Begins(r, to, others) ==
  act' = [q \in DOMAIN act \cup DOMAIN others |->
            IF q = r THEN to ELSE IF q \in DOMAIN others THEN others[q] ELSE act[q]]

Fork(r) == Begins(r, At("wait", 0, 0), [q \in {Part1(r), Part2(r)} |-> Forked])

(* Activity r calls quicksort(low, high); an empty range is no activity.   *)
Calls(r, from, to, low, high) ==
  /\ act[r].pc = from
  /\ Begins(r, to, [q \in {<<low, high>>} \ {<<low, low - 1>>} |-> Called(q)])

Returned(low, high) == <<low, high>> \in DOMAIN act => act[<<low, high>>].pc = "done"

(* compute(): a short range is sorted in place, a long one is split; in    *)
(* FJ-Quick quicksort() partitions it before.                              *)
Compute(r) ==
  /\ act[r].pc = "forked"
  /\ IF r[2] - r[1] < THRESHOLD THEN Goes(r, "forked", At("select", r[1], 0))
     ELSE IF program = "FJ-Quick" THEN Goes(r, "forked", At("scan", r[1], r[2]))
     ELSE Fork(r)
  /\ UNCHANGED <<program, input, array, raced>>

\* MUTANT: only the first task is joined.
JoinFirst(r) ==
  /\ act[r].pc = "wait" /\ act[Part1(r)].pc = "done"
  /\ Goes(r, "wait", Merging(r))
  /\ UNCHANGED <<program, input, array, raced>>

(* Both tasks are joined, then merge() begins.                             *)
Join(r) ==
  /\ act[r].pc = "wait" /\ act[Part1(r)].pc = "done" /\ act[Part2(r)].pc = "done"
  /\ Goes(r, "wait", Merging(r))
  /\ UNCHANGED <<program, input, array, raced>>

(* One pass of selectionsort(): each element smaller than all before it    *)
(* changes places with array[i], which holds the smallest so far.          *)
SelectPass(r) ==
  LET i == act[r].i
      SmallestBefore(j) == Min({array[k] : k \in i .. j - 1})
  IN  /\ act[r].pc = "select"
      /\ IF i < r[2]
           THEN /\ array' = [j \in DOMAIN array |->
                     IF j = i THEN SmallestBefore(r[2] + 1)
                     ELSE IF j \in i + 1 .. r[2] /\ array[j] < SmallestBefore(j)
                       THEN SmallestBefore(j) ELSE array[j]]
                /\ act' = [act EXCEPT ![r].i = @ + 1]
           ELSE Goes(r, "select", Done) /\ UNCHANGED array
      /\ UNCHANGED <<program, input, raced>>

(* quicksort(): i and j close in on each other ...                         *)
NextI(r) == Min({i \in act[r].i .. r[2] : array[i] > array[r[1]] \/ i = r[2]})
NextJ(r) == Max({j \in r[1] .. act[r].j : array[j] <= array[r[1]]})

(* ... and the elements there change places, until they have met: then the *)
(* pivot, the first element, changes places with array[j].  A swap is two  *)
(* stores, the first of them in this step.                                 *)
Scan(r) ==
  LET i == NextI(r)
      j == NextJ(r)
      low == IF i < j THEN i ELSE r[1]
  IN  /\ Goes(r, "scan", [At("store", i, j) EXCEPT !.held = array[low]])
      /\ array' = [array EXCEPT ![low] = array[j]]
      /\ UNCHANGED <<program, input, raced>>

(* The second store of a swap; after the last one FJ-Quick forks its tasks *)
(* and MSApp calls quicksort() for the elements before the pivot.          *)
Store(r) ==
  LET me == act[r]
  IN  /\ me.pc = "store"
      /\ array' = [array EXCEPT ![me.j] = me.held]
      /\ IF me.i < me.j THEN Goes(r, "store", At("scan", me.i, me.j))
         ELSE IF FJ THEN Fork(r)
         ELSE Calls(r, "store", At("left", 0, me.j), r[1], me.j - 1)
      /\ UNCHANGED <<program, input, raced>>

(* The first recursive call has returned: the second one, for the elements *)
(* behind the pivot ...                                                    *)
CallRight(r) ==
  /\ act[r].pc = "left" /\ Returned(r[1], act[r].j - 1)
  /\ Calls(r, "left", At("right", 0, act[r].j), act[r].j + 1, r[2])
  /\ UNCHANGED <<program, input, array, raced>>

(* ... and then the call returns, a sorting thread from sort().            *)
Return(r) ==
  /\ act[r].pc = "right" /\ Returned(act[r].j + 1, r[2])
  /\ Goes(r, "right", Done)
  /\ UNCHANGED <<program, input, array, raced>>

-----------------------------------------------------------------------------
(* merge() reads from a half: too early?                                   *)
NotesRace(half) ==
  /\ raced' = (raced \/ (~FJ /\ act[half].pc # "done"))
  /\ UNCHANGED <<program, input, array>>

Full(r) == Len(act[r].out) = r[2] - r[1] + 1

\* MUTANT: the test of the second part's end is off by one.
MergeReadPastEnd(r) ==
  LET me == act[r]
  IN  /\ me.i <= Mid(r) /\ me.j <= r[2] + 1
      /\ Goes(r, "merge", [me EXCEPT !.pc = "compare", !.held = array[me.i]])
      /\ NotesRace(Part1(r))

(* With elements left in both parts array[smlst1] is read for comparison.  *)
MergeRead(r) ==
  LET me == act[r]
  IN  /\ me.i <= Mid(r) /\ me.j <= r[2]
      /\ Goes(r, "merge", [me EXCEPT !.pc = "compare", !.held = array[me.i]])
      /\ NotesRace(Part1(r))

\* MUTANT: of two equal elements none is taken.
CompareStrict(r) ==
  LET me == act[r]
  IN  /\ Goes(r, "compare", [me EXCEPT !.pc = CASE me.held < array[me.j] -> "take1"
                                               [] me.held > array[me.j] -> "take2"
                                               [] OTHER -> "merge",
                                       !.held = 0])
      /\ NotesRace(Part2(r))

(* array[smlst1] <= array[smlst2]?                                         *)
Compare(r) ==
  LET me == act[r]
  IN  /\ Goes(r, "compare", [me EXCEPT !.pc = IF me.held <= array[me.j] THEN "take1" ELSE "take2",
                                       !.held = 0])
      /\ NotesRace(Part2(r))

(* The smaller one, read once more, or what is left of one part goes to    *)
(* sorted_array.                                                           *)
Take1(r) ==
  LET me == act[r]
  IN  /\ me.pc = "take1" \/ (me.pc = "merge" /\ me.i <= Mid(r) /\ me.j > r[2])
      /\ act' = [act EXCEPT ![r] = [At("merge", me.i + 1, me.j) EXCEPT
                                      !.out = Append(me.out, array[me.i])]]
      /\ NotesRace(Part1(r))

Take2(r) ==
  LET me == act[r]
  IN  /\ me.pc = "take2" \/ (me.pc = "merge" /\ me.i > Mid(r) /\ ~Full(r))
      /\ act' = [act EXCEPT ![r] = [At("merge", me.i, me.j + 1) EXCEPT
                                      !.out = Append(me.out, array[me.j])]]
      /\ NotesRace(Part2(r))

(* The end of merge(): the Java one copies sorted_array back.              *)
MergeEnd(r) ==
  /\ Full(r)
  /\ Goes(r, "merge", [Done EXCEPT !.out = IF FJ THEN <<>> ELSE act[r].out])
  /\ array' = [k \in DOMAIN array |->
                 IF FJ /\ k \in r[1] .. r[2] THEN act[r].out[k - r[1] + 1] ELSE array[k]]
  /\ UNCHANGED <<program, input, raced>>

-----------------------------------------------------------------------------
Step(r) ==
  \/ Compute(r) \/ Join(r) \/ SelectPass(r) \/ Scan(r) \/ Store(r) \/ CallRight(r) \/ Return(r)
  \/ MergeRead(r) \/ Compare(r) \/ Take1(r) \/ Take2(r) \/ MergeEnd(r)

(* invoke() returns, or the three threads have been joined.                *)
Ended == \A r \in {Root} \cup (IF FJ THEN {} ELSE {Part1(Root), Part2(Root)}) : act[r].pc = "done"

Terminated == Ended /\ UNCHANGED vars

SomeStep == \E r \in DOMAIN act : Step(r)

Next == SomeStep \/ Terminated

(* Some thread that can run does; the pool runs what was forked.           *)
Spec == Init /\ [][Next]_vars /\ WF_vars(SomeStep)

-----------------------------------------------------------------------------
(* Activities that read or write the array at the same time have ranges    *)
(* with nothing in common; only MSApp's merging thread is in the range of  *)
(* the others.                                                             *)
Working(r) == act[r].pc \notin {"forked", "left", "right", "wait", "done"}
NoOverlap ==
  \A r, s \in {q \in DOMAIN act : Working(q) /\ (FJ \/ q # Root)} :
    r # s => r[2] < s[1] \/ s[2] < r[1]

Occurrences(f, v) == Cardinality({k \in DOMAIN f : f[k] = v})

Ascending(f, low, high) == \A k \in low .. high - 1 : f[k] <= f[k + 1]

(* "The sorted array is": every program ends, and what it prints then is   *)
(* the input in ascending order - in MSApp if merge() happened to read     *)
(* nothing from a half before that was sorted.  If it did, sorted_array    *)
(* may hold anything, but not so the array itself: its halves are sorted   *)
(* and it has the elements of the input.                                   *)
Printed == IF FJ THEN array ELSE [k \in DOMAIN array |-> act[Root].out[k + 1]]
SameElements(f) == \A v \in Values : Occurrences(f, v) = Occurrences(input, v)
HalvesAscend == Ascending(array, 0, Mid(Root)) /\ Ascending(array, Mid(Root) + 1, Root[2])
Sorts ==
  <>[](Ended /\ IF raced THEN HalvesAscend /\ SameElements(array)
                         ELSE Ascending(Printed, 0, Root[2]) /\ SameElements(Printed))
=============================================================================
