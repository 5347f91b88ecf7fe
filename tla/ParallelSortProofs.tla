------------------------- MODULE ParallelSortProofs --------------------------
(***************************************************************************)
(* Proofs about ParallelSort, for every array and every threshold.         *)
(*                                                                         *)
(* NoOverlap is not inductive: it speaks of the activities at work, and    *)
(* does not say why those that wait, for a join or for a recursive call,   *)
(* will find nobody in their range when they go on.  Nest says it: of two  *)
(* ranges one is in the other or they are apart, and in the range of an    *)
(* activity there is, at each place of its code, only what it has forked   *)
(* or called (Kept).  A step of s begins some activities in its range or   *)
(* none; the two lemmas NestStep and AdvanceStep hold of any such step, and*)
(* the lemma of an action shows what it begins, and that nobody was there. *)
(*                                                                         *)
(* The ranges need the indices: that j, where quicksort() has put the      *)
(* pivot, is in the range, and that merge() has written as many elements   *)
(* as it has passed (Local).  Hence the types are proved along with them.  *)
(***************************************************************************)
EXTENDS ParallelSort, FiniteSetTheorems, SequenceTheorems, TLAPS

Last == Root[2]
Ranges == {r \in (0 .. Last) \X (0 .. Last) : r[1] <= r[2]}
MergePlaces == {"merge", "compare", "take1", "take2"}
Activity == [pc : Places, i : Int, j : Int, held : Values \cup {0}, out : Seq(Values)]

(* What is true of an activity by itself.                                  *)
Local(r, me) ==
  /\ me.pc = "select" => me.i \in r[1] .. r[2]
  /\ me.pc \in {"scan", "store"} => me.i \in r[1] .. r[2]
  /\ me.pc \in {"scan", "store", "left", "right"} => me.j \in r[1] .. r[2]
  /\ me.pc = "store" => me.held \in Values
  /\ me.pc \in {"scan", "store", "wait"} \cup MergePlaces => r[1] < r[2]
  /\ me.pc \in MergePlaces =>
       /\ me.i \in r[1] .. Mid(r) + 1 /\ me.j \in Mid(r) + 1 .. r[2] + 1
       /\ Len(me.out) = (me.i - r[1]) + (me.j - (Mid(r) + 1))
  /\ me.pc \in {"compare", "take1"} => me.i <= Mid(r)
  /\ me.pc \in {"compare", "take2"} => me.j <= r[2]
  /\ Len(me.out) <= r[2] - r[1] + 1

(* Which program is where.                                                 *)
Where(r, me) ==
  /\ FJ => me.pc \notin {"left", "right"}
  /\ ~FJ => me.pc \in IF r = Root THEN MergePlaces \cup {"done"}
                      ELSE {"scan", "store", "left", "right", "done"}

DataOK ==
  /\ program \in {"FJ-Merge", "FJ-Quick", "MSApp"}
  /\ input \in RandomArrays \cup TypedArrays /\ (~FJ => input \in TypedArrays)
  /\ array \in [DOMAIN input -> Values]
  /\ raced \in BOOLEAN

Typed ==
  /\ DataOK
  /\ DOMAIN act \subseteq Ranges /\ act \in [DOMAIN act -> Activity]
  /\ \A r \in DOMAIN act : Local(r, act[r]) /\ Where(r, act[r])

-----------------------------------------------------------------------------
LEMMA InputShape ==
  ASSUME DataOK
  PROVE  /\ Last \in Nat /\ DOMAIN input = 0 .. Last /\ input \in [0 .. Last -> Values]
         /\ Root = <<0, Last>> /\ (~FJ => Last > 0) /\ Values \subseteq Int
         /\ array \in [0 .. Last -> Values]
<1>1. /\ Cardinality(DOMAIN input) \in Nat \ {0}
      /\ input \in [0 .. Cardinality(DOMAIN input) - 1 -> Values]
      /\ ~FJ => Cardinality(DOMAIN input) > 1
  BY SortAssumption DEF DataOK, ArraysOf
<1>2. Root = <<0, Cardinality(DOMAIN input) - 1>> /\ Last = Cardinality(DOMAIN input) - 1
  BY DEF Root, Last
<1> QED BY <1>1, <1>2, SortAssumption DEF DataOK

LEMMA RangeType ==
  ASSUME Last \in Nat, NEW r \in Ranges
  PROVE  /\ r[1] \in Nat /\ r[2] \in Nat /\ r[1] <= r[2] /\ r[2] <= Last /\ r = <<r[1], r[2]>>
         /\ r[1] < r[2] => Mid(r) \in r[1] .. r[2] - 1
<1>1. /\ r[1] \in Nat /\ r[2] \in Nat /\ r[1] <= r[2] /\ r[2] <= Last /\ r = <<r[1], r[2]>>
  BY DEF Ranges
<1>2. ASSUME NEW a \in Nat, NEW b \in Nat, a < b PROVE (a + b) \div 2 \in a .. b - 1
  BY <1>2
<1> QED BY <1>1, <1>2 DEF Mid

LEMMA IsRange ==
  ASSUME Last \in Nat, NEW a \in Nat, NEW b \in Nat, a <= b, b <= Last
  PROVE  <<a, b>> \in Ranges
BY DEF Ranges

(* The smallest element of a part of the array.                            *)
LEMMA SmallestOf ==
  ASSUME NEW f, NEW a \in Nat, NEW b \in Nat, a <= b, \A k \in a .. b : f[k] \in Int
  PROVE  Min({f[k] : k \in a .. b}) \in {f[k] : k \in a .. b}
<1> DEFINE Has(n) == \E m \in a .. a + n : \A k \in a .. a + n : f[m] <= f[k]
           Bad == {n \in Nat : n <= b - a /\ ~Has(n)}
<1>1. Has(0)
  <2>1. a .. a + 0 = {a} /\ f[a] <= f[a]
    OBVIOUS
  <2> QED BY <2>1
<1>2. ASSUME NEW n \in Nat, n + 1 <= b - a, Has(n) PROVE Has(n + 1)
  <2>1. PICK m \in a .. a + n : \A k \in a .. a + n : f[m] <= f[k]
    BY <1>2
  <2>2. a + (n + 1) \in a .. b /\ m \in a .. b /\ f[m] \in Int /\ f[a + (n + 1)] \in Int
    BY <1>2
  <2>3. \A k \in a .. a + (n + 1) : k \in a .. a + n \/ k = a + (n + 1)
    OBVIOUS
  <2>4. \A k \in a .. a + (n + 1) : f[k] \in Int
    BY <1>2
  <2>5. CASE f[m] <= f[a + (n + 1)]
    <3>1. \A k \in a .. a + (n + 1) : f[m] <= f[k]
      BY <2>1, <2>3, <2>5
    <3>2. m \in a .. a + (n + 1)
      OBVIOUS
    <3> QED BY <3>1, <3>2
  <2>6. CASE f[a + (n + 1)] <= f[m]
    <3>1. ASSUME NEW k \in a .. a + n PROVE f[a + (n + 1)] <= f[k]
      <4>1. f[m] <= f[k] /\ k \in a .. a + (n + 1)
        BY <2>1
      <4>2. f[k] \in Int
        BY <2>4, <4>1
      <4> QED BY <2>2, <2>6, <4>1, <4>2
    <3>2. \A k \in a .. a + (n + 1) : f[a + (n + 1)] <= f[k]
      BY <2>2, <2>3, <3>1
    <3>3. a + (n + 1) \in a .. a + (n + 1)
      OBVIOUS
    <3> QED BY <3>2, <3>3
  <2> QED BY <2>2, <2>5, <2>6
<1> HIDE DEF Has
<1>3. Bad = {}
  <2> SUFFICES ASSUME Bad # {} PROVE FALSE
    OBVIOUS
  <2>1. Bad \subseteq Nat /\ \A n \in Bad : n \in Nat /\ n <= b - a /\ ~Has(n)
    OBVIOUS
  <2>2. \A n \in Nat : n <= b - a /\ ~Has(n) => n \in Bad
    OBVIOUS
  <2> HIDE DEF Bad
  <2>3. PICK n \in Bad : \A k \in Bad : ~ (<<k, n>> \in OpToRel(<, Nat))
    BY <2>1, NatLessThanWellFounded, WFMin
  <2>4. \A k \in Bad : ~ (k < n)
    BY <2>1, <2>3 DEF OpToRel
  <2>5. PICK k \in Nat : n = k + 1
    <3>1. n \in Nat /\ n # 0
      BY <1>1, <2>1
    <3>2. n - 1 \in Nat /\ n = (n - 1) + 1
      BY <3>1
    <3> QED BY <3>2
  <2>6. k \notin Bad /\ k <= b - a
    BY <2>1, <2>4, <2>5
  <2>7. Has(k)
    BY <2>2, <2>6
  <2>8. n <= b - a /\ ~Has(n)
    BY <2>1
  <2> QED BY <1>2, <2>5, <2>7, <2>8
<1>4. Has(b - a)
  <2>1. b - a \in Nat /\ b - a <= b - a
    OBVIOUS
  <2> QED BY <1>3, <2>1
<1>5. PICK m \in a .. a + (b - a) : \A k \in a .. a + (b - a) : f[m] <= f[k]
  BY <1>4 DEF Has
<1>6. a + (b - a) = b
  OBVIOUS
<1>7. m \in a .. b /\ \A k \in a .. b : f[m] <= f[k]
  BY <1>5, <1>6
<1> QED BY <1>7 DEF Min

(* Where i and j of quicksort() stop.                                      *)
LEMMA MinOf ==
  ASSUME NEW S \in SUBSET Nat, S # {}
  PROVE  Min(S) \in S
<1>1. PICK m \in S : \A k \in S : ~ (<<k, m>> \in OpToRel(<, Nat))
  BY NatLessThanWellFounded, WFMin
<1>2. \A k \in S : ~ (k < m)
  BY <1>1 DEF OpToRel
<1>3. \A k \in S : m <= k
  BY <1>2
<1> QED BY <1>3 DEF Min

LEMMA MaxOf ==
  ASSUME NEW n \in Nat, NEW S \in SUBSET (0 .. n), S # {}
  PROVE  Max(S) \in S
<1> DEFINE T == {n - x : x \in S}
<1>1. T \subseteq Nat /\ T # {}
  <2>1. \A x \in S : n - x \in Nat
    OBVIOUS
  <2> QED BY <2>1
<1>2. PICK m \in T : \A k \in T : ~ (<<k, m>> \in OpToRel(<, Nat))
  BY <1>1, NatLessThanWellFounded, WFMin
<1>3. ASSUME NEW k \in T PROVE m <= k
  <2>1. ~ (k < m) /\ k \in Nat /\ m \in Nat
    BY <1>1, <1>2 DEF OpToRel
  <2> QED BY <2>1
<1>4. PICK x \in S : m = n - x
  OBVIOUS
<1>5. \A y \in S : x >= y
  BY <1>3, <1>4
<1> QED BY <1>5 DEF Max

-----------------------------------------------------------------------------
(* The activities that are not alone in their range.                       *)
Nodes == IF FJ THEN DOMAIN act ELSE DOMAIN act \ {Root}
Within(r, s) == s[1] <= r[1] /\ r[2] <= s[2]
Apart(r, s) == r[2] < s[1] \/ s[2] < r[1]
Inside(s) == {r \in Nodes \ {s} : Within(r, s)}

Before(s, j) == <<s[1], j - 1>>
Behind(s, j) == <<j + 1, s[2]>>

(* What is in the range of activity s, when s is at me.                    *)
Kept(s, me) ==
  /\ me.pc \in {"forked", "select", "scan", "store"} => Inside(s) = {}
  /\ me.pc = "wait" =>
       /\ {Part1(s), Part2(s)} \subseteq DOMAIN act
       /\ \A r \in Inside(s) : Within(r, Part1(s)) \/ Within(r, Part2(s))
  /\ me.pc = "left" =>
       /\ s[1] <= me.j - 1 => Before(s, me.j) \in DOMAIN act
       /\ \A r \in Inside(s) : Within(r, Before(s, me.j))
  /\ me.pc = "right" =>
       /\ me.j + 1 <= s[2] => Behind(s, me.j) \in DOMAIN act
       /\ \A r \in Inside(s) : \/ Within(r, Before(s, me.j)) /\ act[r].pc = "done"
                               \/ Within(r, Behind(s, me.j))
  /\ me.pc \in MergePlaces \cup {"done"} => \A r \in Inside(s) : act[r].pc = "done"

Nest ==
  /\ \A r, s \in Nodes : r # s => Apart(r, s) \/ Within(r, s) \/ Within(s, r)
  /\ \A s \in Nodes : Kept(s, act[s])

Inv == Typed /\ Nest

LEMMA NestNoOverlap == Inv => NoOverlap
<1> SUFFICES ASSUME Inv, NEW r \in DOMAIN act, NEW s \in DOMAIN act,
                    Working(r), Working(s), FJ \/ r # Root, FJ \/ s # Root, r # s
             PROVE  r[2] < s[1] \/ s[2] < r[1]
  BY DEF NoOverlap
<1>1. r \in Nodes /\ s \in Nodes
  BY DEF Nodes
<1>2. ASSUME NEW x \in Nodes, NEW y \in Nodes, x # y, Working(x), Working(y) PROVE ~Within(x, y)
  <2>1. act[y].pc \in {"select", "scan", "store"} \cup MergePlaces
    <3>1. y \in DOMAIN act /\ act[y].pc \in Places
      BY DEF Nodes, Inv, Typed, Activity
    <3> QED BY <1>2, <3>1 DEF Working, Places, MergePlaces
  <2>2. Kept(y, act[y])
    BY DEF Inv, Nest
  <2>3. act[x].pc # "done"
    BY <1>2 DEF Working
  <2> QED BY <1>2, <2>1, <2>2, <2>3 DEF Kept, Inside
<1> QED BY <1>1, <1>2 DEF Inv, Nest, Apart

-----------------------------------------------------------------------------
LEMMA Apartness ==
  ASSUME Last \in Nat, NEW r \in Ranges, NEW s \in Ranges
  PROVE  /\ Within(r, s) => ~Apart(r, s) /\ \A q \in Ranges : Within(q, r) => Within(q, s)
         /\ Within(r, s) /\ Within(s, r) => r = s
         /\ Apart(r, s) <=> Apart(s, r)
         /\ Apart(r, s) => \A q \in Ranges : Within(q, r) => Apart(q, s)
<1>1. \A q \in Ranges : q[1] \in Nat /\ q[2] \in Nat /\ q[1] <= q[2] /\ q = <<q[1], q[2]>>
  BY RangeType
<1> QED BY <1>1 DEF Within, Apart

(* Activity s goes on at new, and those of D begin.                        *)
Becomes(s, new, D) ==
  /\ DOMAIN act' = DOMAIN act \cup D /\ act' = [x \in DOMAIN act' |-> act'[x]]
  /\ act'[s] = new
  /\ \A x \in DOMAIN act \ {s} : act'[x] = act[x]

LEMMA TypedStep ==
  ASSUME Typed, DataOK', UNCHANGED <<program, input>>,
         NEW s \in DOMAIN act, NEW new \in Activity, Local(s, new), Where(s, new),
         NEW D \in SUBSET Ranges, Becomes(s, new, D),
         \A q \in D : act'[q] \in Activity /\ Local(q, act'[q]) /\ Where(q, act'[q])
  PROVE  Typed'
<1>1. Ranges' = Ranges /\ Last' = Last /\ Root' = Root /\ (FJ' <=> FJ)
  BY DEF Ranges, Last, Root, FJ
<1>2. DOMAIN act' \subseteq Ranges /\ DOMAIN act' = DOMAIN act \cup D
  BY DEF Typed, Becomes
<1>3. ASSUME NEW r \in DOMAIN act'
      PROVE  act'[r] \in Activity /\ Local(r, act'[r]) /\ Where(r, act'[r])
  <2>1. CASE r \in D
    BY <2>1
  <2>2. CASE r = s
    BY <2>2 DEF Becomes
  <2>3. CASE r \in DOMAIN act \ {s}
    BY <2>3 DEF Becomes, Typed
  <2> QED BY <1>2, <2>1, <2>2, <2>3
<1>4. act' \in [DOMAIN act' -> Activity]
  BY <1>3 DEF Becomes
<1>5. ASSUME NEW r \in DOMAIN act'
      PROVE  (Local(r, act[r]) /\ Where(r, act[r]))'
  BY <1>1, <1>3 DEF Local, Where, Mid
<1> QED BY <1>1, <1>2, <1>4, <1>5 DEF Typed

(* A step of s in which activities may begin in its range, where nobody is.*)
LEMMA NestStep ==
  ASSUME Inv, UNCHANGED <<program, input>>, NEW s \in Nodes, act[s].pc # "done", NEW new,
         NEW D \in SUBSET Ranges, Becomes(s, new, D),
         \A q \in D : q # s /\ Within(q, s) /\ act'[q].pc \in {"forked", "scan", "done"},
         \A q \in D, t \in D : q = t \/ Apart(q, t),
         \A q \in D, x \in Inside(s) : Apart(q, x),
         Kept(s, new)'
  PROVE  Nest'
<1>1. /\ Nodes \subseteq Ranges /\ Last \in Nat /\ Nodes \subseteq DOMAIN act
      /\ ~FJ => Root \notin Nodes /\ \A r \in Ranges : Within(r, Root)
  <2>1. Last \in Nat /\ Root = <<0, Last>> /\ DOMAIN act \subseteq Ranges
    BY InputShape DEF Inv, Typed
  <2> QED BY <2>1, RangeType DEF Nodes, Within
<1>2. Nodes' = Nodes \cup D
  <2>1. (FJ' <=> FJ) /\ Root' = Root
    BY DEF FJ, Root
  <2>2. ~FJ => Root \notin D
    BY <1>1, Apartness
  <2> QED BY <2>1, <2>2 DEF Nodes, Becomes
<1>3. \A q \in D : q \notin Nodes
  <2> SUFFICES ASSUME NEW q \in D, q \in Nodes PROVE FALSE
    OBVIOUS
  <2>1. q \in Inside(s)
    BY DEF Inside
  <2>2. Apart(q, q) /\ Within(q, q) /\ q \in Ranges
    <3>1. q \in Ranges
      OBVIOUS
    <3> QED BY <1>1, <2>1, <3>1, RangeType DEF Within
  <2> QED BY <1>1, <2>2, Apartness
<1>4. ASSUME NEW x \in Nodes \ {s}, NEW q \in D
      PROVE  /\ Apart(s, x) => Apart(q, x)
             /\ Within(s, x) => Within(q, x)
             /\ Within(x, s) => Apart(q, x)
  BY <1>1, Apartness DEF Inside
<1>5. \A x \in Nodes \ {s} : Apart(s, x) \/ Within(s, x) \/ Within(x, s)
  BY <1>1, Apartness DEF Inv, Nest
<1>6. ASSUME NEW x \in Nodes', NEW y \in Nodes', x # y
      PROVE  Apart(x, y) \/ Within(x, y) \/ Within(y, x)
  <2>1. ASSUME NEW a \in D, NEW b \in Nodes PROVE Apart(a, b) \/ Within(a, b)
    <3>1. CASE b = s
      BY <3>1
    <3>2. CASE b # s
      BY <1>4, <1>5, <3>2
    <3> QED BY <3>1, <3>2
  <2>2. CASE x \in Nodes /\ y \in Nodes
    BY <1>6, <2>2 DEF Inv, Nest
  <2>3. CASE x \in D /\ y \in D
    BY <1>6, <2>3
  <2>4. CASE x \in D /\ y \in Nodes
    BY <2>1, <2>4
  <2>5. CASE x \in Nodes /\ y \in D
    BY <1>1, <2>1, <2>5, Apartness
  <2> QED BY <1>2, <2>2, <2>3, <2>4, <2>5
<1>7. \A x \in Nodes \ {s} : act'[x] = act[x]
  BY <1>1 DEF Becomes
<1>8. ASSUME NEW q \in D PROVE Kept(q, act[q])'
  <2>1. Inside(q)' = {}
    <3> SUFFICES ASSUME NEW x \in Nodes', x # q, Within(x, q) PROVE FALSE
      BY DEF Inside, Within
    <3>1. x \notin D
      BY <1>1, Apartness
    <3>2. x # s
      BY <1>1, Apartness
    <3>3. x \in Nodes /\ Within(x, s)
      BY <1>1, <1>2, <3>1, Apartness
    <3>4. Apart(q, x)
      BY <3>2, <3>3 DEF Inside
    <3> QED BY <1>1, <3>3, <3>4, Apartness
  <2> QED BY <2>1 DEF Kept, MergePlaces
<1>9. ASSUME NEW x \in Nodes \ {s} PROVE Kept(x, act[x])'
  <2>1. Kept(x, act[x]) /\ act'[x] = act[x]
    BY <1>7 DEF Inv, Nest
  <2>2. Inside(x)' = Inside(x) \cup {q \in D : Within(q, x)}
    <3>1. x \notin D
      BY <1>3
    <3> QED BY <1>2, <3>1 DEF Inside, Within
  <2>3. \A r \in Inside(x) : act[r].pc = "done" => act'[r].pc = "done"
    BY <1>7 DEF Inside
  <2>4. /\ Part1(x)' = Part1(x) /\ Part2(x)' = Part2(x)
        /\ DOMAIN act \subseteq DOMAIN act'
    BY DEF Part1, Part2, Mid, Becomes
  <2>5. CASE s \notin Inside(x)
    <3>1. Inside(x)' = Inside(x)
      BY <1>4, <1>5, <1>1, <2>2, <2>5, Apartness DEF Inside
    <3> QED BY <2>1, <2>3, <2>4, <3>1 DEF Kept, Within, Before, Behind
  <2>6. CASE s \in Inside(x)
    <3>1. act[x].pc \in {"wait", "left", "right"} \/ act[x].pc \notin Places
      BY <2>1, <2>6 DEF Kept, Places, MergePlaces
    <3>2. act[x].pc \in Places
      BY <1>1 DEF Inv, Typed, Activity
    <3>3. \A q \in D, a \in Int, b \in Int : Within(s, <<a, b>>) => Within(q, <<a, b>>)
      BY <1>1, RangeType DEF Within
    <3>4. /\ x[1] \in Int /\ x[2] \in Int /\ act[x].j \in Int
          /\ act[x].pc = "wait" => Mid(x) \in Int
      <4>1. x \in DOMAIN act /\ Local(x, act[x]) /\ act[x] \in Activity
        BY <1>1 DEF Inv, Typed
      <4> QED BY <1>1, <4>1, RangeType DEF Local, Activity
    <3>5. CASE act[x].pc = "wait"
      <4>1. \A q \in D : Within(q, Part1(x)) \/ Within(q, Part2(x))
        BY <2>1, <2>6, <3>3, <3>4, <3>5 DEF Kept, Part1, Part2
      <4> QED BY <2>1, <2>2, <2>4, <3>5, <4>1 DEF Kept, MergePlaces, Within
    <3>6. CASE act[x].pc = "left"
      <4>1. \A q \in D : Within(q, Before(x, act[x].j))
        BY <2>1, <2>6, <3>3, <3>4, <3>6 DEF Kept, Before
      <4> QED BY <2>1, <2>2, <2>4, <3>6, <4>1 DEF Kept, MergePlaces, Within, Before
    <3>7. CASE act[x].pc = "right"
      <4>1. \A q \in D : Within(q, Behind(x, act[x].j))
        BY <2>1, <2>6, <3>3, <3>4, <3>7 DEF Kept, Behind
      <4> QED BY <2>1, <2>2, <2>3, <2>4, <3>7, <4>1 DEF Kept, MergePlaces, Within, Before, Behind
    <3> QED BY <3>1, <3>2, <3>5, <3>6, <3>7
  <2> QED BY <2>5, <2>6
<1> QED BY <1>1, <1>2, <1>6, <1>7, <1>8, <1>9 DEF Nest, Becomes

-----------------------------------------------------------------------------
LEMMA NodeFacts ==
  ASSUME Inv, NEW s \in DOMAIN act
  PROVE  /\ Last \in Nat /\ DOMAIN input = 0 .. Last /\ s \in Ranges
         /\ s[1] \in 0 .. Last /\ s[2] \in 0 .. Last /\ s[1] <= s[2] /\ s = <<s[1], s[2]>>
         /\ s[1] < s[2] => Mid(s) \in s[1] .. s[2] - 1
         /\ Local(s, act[s]) /\ Where(s, act[s]) /\ act[s] \in Activity
         /\ array \in [0 .. Last -> Values] /\ Values \subseteq Int
         /\ s \in Nodes => Kept(s, act[s])
<1>1. DataOK /\ s \in Ranges
  BY DEF Inv, Typed
<1> QED BY <1>1, InputShape, RangeType DEF Inv, Typed, Nest

(* A step of s that begins no activity.                                    *)
LEMMA AdvanceStep ==
  ASSUME Inv, UNCHANGED <<program, input>>, array' \in [0 .. Last -> Values], raced' \in BOOLEAN,
         NEW s \in DOMAIN act, act[s].pc # "done",
         NEW new \in Activity, act' = [act EXCEPT ![s] = new],
         Local(s, new), Where(s, new), s \in Nodes => Kept(s, new)
  PROVE  Inv'
<1>1. Becomes(s, new, {})
  <2>1. act \in [DOMAIN act -> Activity]
    BY DEF Inv, Typed
  <2> QED BY <2>1 DEF Becomes
<1>2. DataOK'
  BY NodeFacts DEF Inv, Typed, DataOK, FJ
<1>3. Typed'
  <2>1. {} \in SUBSET Ranges /\ \A q \in {} : act'[q] \in Activity /\ Local(q, act'[q]) /\ Where(q, act'[q])
    OBVIOUS
  <2> QED BY <1>1, <1>2, <2>1, TypedStep DEF Inv
<1>4. CASE s \in Nodes
  <2>1. Inside(s)' = Inside(s)
    BY <1>1 DEF Inside, Nodes, Within, FJ, Root, Becomes
  <2>2. \A x \in Inside(s) : act'[x] = act[x]
    BY <1>1 DEF Inside, Nodes, Becomes
  <2>3. DOMAIN act' = DOMAIN act /\ Part1(s)' = Part1(s) /\ Part2(s)' = Part2(s)
    BY <1>1 DEF Becomes, Part1, Part2, Mid
  <2>4. Kept(s, new)'
    BY <1>4, <2>1, <2>2, <2>3 DEF Kept, Within, Before, Behind
  <2>5. {} \in SUBSET Ranges
    OBVIOUS
  <2>6. Nest'
    BY <1>1, <1>4, <2>4, <2>5, NestStep
  <2> QED BY <1>3, <2>6 DEF Inv
<1>5. CASE s \notin Nodes
  <2>1. Nodes' = Nodes /\ \A x \in Nodes : act'[x] = act[x]
    BY <1>1, <1>5 DEF Nodes, FJ, Root, Becomes
  <2>2. \A x \in Nodes : Inside(x)' = Inside(x)
    BY <2>1 DEF Inside, Within
  <2>3. DOMAIN act' = DOMAIN act
    BY <1>1 DEF Becomes
  <2>4. ASSUME NEW x \in Nodes PROVE Kept(x, act[x])'
    <3>1. Part1(x)' = Part1(x) /\ Part2(x)' = Part2(x)
      BY DEF Part1, Part2, Mid
    <3>2. Kept(x, act[x])
      BY DEF Inv, Nest
    <3>3. \A r \in Inside(x) : act'[r] = act[r]
      BY <2>1 DEF Inside
    <3> QED BY <2>1, <2>2, <2>3, <3>1, <3>2, <3>3 DEF Kept, Within, Before, Behind
  <2>5. Nest'
    BY <2>1, <2>4 DEF Inv, Nest, Within, Apart
  <2> QED BY <1>3, <2>5 DEF Inv
<1> QED BY <1>4, <1>5

LEMMA AtType ==
  ASSUME NEW place \in Places, NEW i \in Int, NEW j \in Int
  PROVE  /\ At(place, i, j) \in Activity /\ At(place, i, j).pc = place
         /\ At(place, i, j).i = i /\ At(place, i, j).j = j
         /\ At(place, i, j).held = 0 /\ At(place, i, j).out = <<>> /\ Len(<<>>) = 0
BY DEF At, Activity

LEMMA PlacesType == Done = At("done", 0, 0) /\ Forked = At("forked", 0, 0)
  /\ \A place \in Places : At(place, 0, 0) \in Activity /\ At(place, 0, 0).pc = place
                            /\ At(place, 0, 0).out = <<>> /\ Len(At(place, 0, 0).out) = 0
<1>1. 0 \in Int
  OBVIOUS
<1> QED BY <1>1, AtType DEF Done, Forked

LEMMA ForkStep ==
  ASSUME Inv, UNCHANGED <<program, input>>, array' \in [0 .. Last -> Values], raced' \in BOOLEAN,
         NEW s \in DOMAIN act, FJ, act[s].pc \in {"forked", "store"}, s[1] < s[2], Fork(s)
  PROVE  Inv'
<1> DEFINE D == {Part1(s), Part2(s)}
<1>1. /\ Last \in Nat /\ s \in Ranges /\ s[1] \in 0 .. Last /\ s[2] \in 0 .. Last
      /\ s = <<s[1], s[2]>> /\ Mid(s) \in s[1] .. s[2] - 1
      /\ s \in Nodes /\ Inside(s) = {} /\ act[s].pc # "done"
  BY NodeFacts DEF Nodes, Kept
<1>2. /\ Part1(s) \in Ranges /\ Part1(s)[1] = s[1] /\ Part1(s)[2] = Mid(s)
      /\ Part2(s) \in Ranges /\ Part2(s)[1] = Mid(s) + 1 /\ Part2(s)[2] = s[2]
  <2>1. /\ s[1] \in Nat /\ Mid(s) \in Nat /\ Mid(s) + 1 \in Nat /\ s[2] \in Nat
        /\ s[1] <= Mid(s) /\ Mid(s) <= Last /\ Mid(s) + 1 <= s[2] /\ s[2] <= Last
    BY <1>1
  <2> QED BY <1>1, <2>1, IsRange DEF Part1, Part2
<1>3. D \in SUBSET Ranges /\ \A q \in D : Within(q, s) /\ q # s
  BY <1>1, <1>2 DEF Within
<1>4. /\ Part1(s) # Part2(s) /\ Apart(Part1(s), Part2(s)) /\ Apart(Part2(s), Part1(s))
  BY <1>1, <1>2 DEF Apart
<1>5. \A q \in D : q \notin DOMAIN act
  BY <1>1, <1>3 DEF Inside, Nodes
<1> DEFINE new == At("wait", 0, 0)
<1>6. /\ new \in Activity /\ new.pc = "wait" /\ new.out = <<>> /\ Len(<<>>) = 0
      /\ Forked \in Activity /\ Forked.pc = "forked" /\ Forked.out = <<>>
  <2>1. "wait" \in Places /\ "forked" \in Places /\ Len(<<>>) = 0
    BY DEF Places
  <2> QED BY <2>1, PlacesType
<1>7. act' = [q \in DOMAIN act \cup D |-> IF q = s THEN new ELSE IF q \in D THEN Forked ELSE act[q]]
  BY DEF Fork, Begins
<1> HIDE DEF new
<1>8. Becomes(s, new, D) /\ \A q \in D : act'[q] = Forked
  BY <1>3, <1>5, <1>7 DEF Becomes
<1>9. DataOK'
  BY NodeFacts DEF Inv, Typed, DataOK, FJ
<1>10. ASSUME NEW q \in D PROVE Local(q, act'[q]) /\ Where(q, act'[q]) /\ act'[q] \in Activity
  <2>1. q \in Ranges /\ q[1] <= q[2] /\ q[1] \in Nat /\ q[2] \in Nat
    BY <1>1, <1>3, RangeType
  <2> QED BY <1>6, <1>8, <2>1 DEF Local, Where, MergePlaces
<1>11. Local(s, new) /\ Where(s, new)
  BY <1>1, <1>6 DEF Local, Where, MergePlaces
<1> HIDE DEF D
<1>12. Typed'
  BY <1>3, <1>6, <1>8, <1>9, <1>10, <1>11, TypedStep DEF Inv
<1>13. Kept(s, new)'
  <2>1. Inside(s)' \subseteq D
    BY <1>1, <1>8 DEF Inside, Nodes, Becomes, Within, FJ
  <2>2. Part1(s)' = Part1(s) /\ Part2(s)' = Part2(s) /\ D \subseteq DOMAIN act'
    BY <1>8 DEF Becomes, Part1, Part2, Mid
  <2>3. Within(Part1(s), Part1(s)) /\ Within(Part2(s), Part2(s))
    BY <1>1, <1>2 DEF Within
  <2>4. \A r \in Inside(s)' : Within(r, Part1(s)) \/ Within(r, Part2(s))
    BY <2>1, <2>3 DEF D
  <2>5. {Part1(s), Part2(s)}' \subseteq DOMAIN act'
    BY <2>2 DEF D
  <2> QED BY <1>6, <2>2, <2>4, <2>5 DEF Kept, MergePlaces, Within
<1>14. Nest'
  <2>1. \A q \in D : q # s /\ Within(q, s) /\ act'[q].pc \in {"forked", "scan", "done"}
    BY <1>3, <1>6, <1>8
  <2>2. \A q \in D, t \in D : q = t \/ Apart(q, t)
    BY <1>4 DEF D
  <2>3. \A q \in D, x \in Inside(s) : Apart(q, x)
    BY <1>1
  <2> QED BY <1>1, <1>3, <1>8, <1>13, <2>1, <2>2, <2>3, NestStep
<1> QED BY <1>12, <1>14 DEF Inv

(* quicksort() at new calls itself for low to high.                        *)
Recurses(s, new, low, high) ==
  /\ act[s].pc \in {"store", "left"} /\ ~FJ
  /\ new \in Activity /\ new.pc \in {"left", "right"} /\ Local(s, new)
  /\ low \in Nat /\ high \in Int /\ low <= high + 1
  /\ low <= high => Within(<<low, high>>, s) /\ <<low, high>> # s
  /\ \A x \in Inside(s) : low <= high => Apart(<<low, high>>, x)
  /\ new.pc = "left" => low = s[1] /\ high = new.j - 1 /\ Inside(s) = {}
  /\ new.pc = "right" =>
       /\ low = new.j + 1 /\ high = s[2]
       /\ \A x \in Inside(s) : Within(x, Before(s, new.j)) /\ act[x].pc = "done"

Recursion(s, new, low, high) ==
  act' = [q \in DOMAIN act \cup ({<<low, high>>} \ {<<low, low - 1>>}) |->
            IF q = s THEN new
            ELSE IF q \in {<<low, high>>} \ {<<low, low - 1>>} THEN Called(q) ELSE act[q]]

LEMMA CallStep ==
  ASSUME Inv, UNCHANGED <<program, input>>, array' \in [0 .. Last -> Values], raced' \in BOOLEAN,
         NEW s \in DOMAIN act, NEW new, NEW low, NEW high,
         Recurses(s, new, low, high), Recursion(s, new, low, high)
  PROVE  Inv'
<1> USE DEF Recurses
<1> DEFINE D == {<<low, high>>} \ {<<low, low - 1>>}
<1>1. /\ Last \in Nat /\ s \in Ranges /\ s[1] \in 0 .. Last /\ s[2] \in 0 .. Last
      /\ s = <<s[1], s[2]>> /\ act[s].pc # "done" /\ Where(s, act[s])
  BY NodeFacts
<1>2. s \in Nodes /\ s # Root
  BY <1>1 DEF Where, Nodes, MergePlaces
<1>3. D = IF low <= high THEN {<<low, high>>} ELSE {}
  <2>1. <<low, high>> = <<low, low - 1>> <=> high = low - 1
    OBVIOUS
  <2> QED BY <2>1
<1> HIDE DEF D
<1>4. ASSUME NEW q \in D
      PROVE  /\ q = <<low, high>> /\ low <= high /\ q[1] = low /\ q[2] = high
             /\ q \in Ranges /\ Within(q, s) /\ q # s
  <2>1. q = <<low, high>> /\ low <= high
    BY <1>3
  <2>2. high <= Last
    BY <1>1, <2>1 DEF Within
  <2> QED BY <1>1, <2>1, <2>2, IsRange
<1>5. ASSUME NEW q \in D PROVE q \notin DOMAIN act
  <2>1. q # Root
    <3>1. Root = <<0, Last>>
      BY InputShape DEF Inv, Typed
    <3> QED BY <1>1, <1>4, <3>1 DEF Within
  <2>2. ASSUME q \in DOMAIN act PROVE FALSE
    <3>1. q \in Inside(s)
      BY <1>4, <2>1, <2>2 DEF Inside, Nodes
    <3>2. Apart(q, q)
      BY <1>4, <3>1
    <3> QED BY <1>4, <3>2 DEF Apart
  <2> QED BY <2>2
<1>6. act' = [q \in DOMAIN act \cup D |->
               IF q = s THEN new ELSE IF q \in D THEN Called(q) ELSE act[q]]
  BY DEF D, Recursion
<1>7. Becomes(s, new, D) /\ \A q \in D : act'[q] = Called(q)
  <2>1. \A q \in D : q # s
    BY <1>4
  <2> QED BY <1>5, <1>6, <2>1 DEF Becomes
<1>8. ASSUME NEW q \in D
      PROVE  /\ act'[q] \in Activity /\ Local(q, act'[q]) /\ Where(q, act'[q])
             /\ act'[q].pc \in {"scan", "done"}
  <2>1. CASE low < high
    <3>1. act'[q] = At("scan", low, high)
      BY <1>4, <1>7, <2>1 DEF Called
    <3>2. "scan" \in Places
      BY DEF Places
    <3>3. /\ act'[q] \in Activity /\ act'[q].pc = "scan" /\ act'[q].i = low /\ act'[q].j = high
          /\ act'[q].out = <<>> /\ Len(<<>>) = 0
      BY <3>1, <3>2, AtType
    <3>4. q # Root
      BY <1>4, <1>1, InputShape DEF Inv, Typed, Within
    <3> QED BY <1>4, <2>1, <3>3, <3>4 DEF Local, Where, MergePlaces
  <2>2. CASE ~(low < high)
    <3>1. act'[q] = At("done", 0, 0)
      BY <1>4, <1>7, <2>2 DEF Called, Done
    <3>2. "done" \in Places /\ Len(<<>>) = 0
      BY DEF Places
    <3>3. /\ act'[q] \in Activity /\ act'[q].pc = "done"
          /\ act'[q].out = <<>> /\ Len(<<>>) = 0
      BY <3>1, <3>2, PlacesType
    <3> QED BY <1>4, <3>3 DEF Local, Where, MergePlaces
  <2> QED BY <2>1, <2>2
<1>9. D \in SUBSET Ranges
  BY <1>4
<1>10. DataOK' /\ Where(s, new)
  BY <1>2, NodeFacts DEF Inv, Typed, DataOK, FJ, Where
<1>11. Typed'
  BY <1>7, <1>8, <1>9, <1>10, TypedStep DEF Inv
<1>12. Kept(s, new)'
  <2>1. Inside(s)' = Inside(s) \cup D
    <3>1. Nodes' = Nodes \cup D
      <4>1. Root \notin D
        BY <1>1, <1>4, InputShape DEF Inv, Typed, Within
      <4> QED BY <1>7, <4>1 DEF Nodes, Becomes, FJ, Root
    <3> QED BY <1>4, <3>1 DEF Inside, Within
  <2>2. \A x \in Inside(s) : act'[x] = act[x]
    BY <1>7 DEF Inside, Nodes, Becomes
  <2>3. DOMAIN act' = DOMAIN act \cup D
    BY <1>7 DEF Becomes
  <2>4. \A q \in D : Within(q, <<low, high>>)
    BY <1>4 DEF Within
  <2>5. CASE new.pc = "left"
    <3>1. Inside(s) = {} /\ Before(s, new.j) = <<low, high>>
      BY <2>5 DEF Before
    <3> QED BY <1>3, <2>1, <2>3, <2>4, <2>5, <3>1 DEF Kept, MergePlaces, Before, Within
  <2>6. CASE new.pc = "right"
    <3>1. Behind(s, new.j) = <<low, high>>
      BY <2>6 DEF Behind
    <3> QED BY <1>3, <2>1, <2>2, <2>3, <2>4, <2>6, <3>1 DEF Kept, MergePlaces, Before, Behind, Within
  <2> QED BY <2>5, <2>6
<1>13. Nest'
  <2>1. \A q \in D, t \in D : q = t \/ Apart(q, t)
    BY <1>4
  <2>2. \A q \in D, x \in Inside(s) : Apart(q, x)
    BY <1>4
  <2>3. \A q \in D : q # s /\ Within(q, s) /\ act'[q].pc \in {"forked", "scan", "done"}
    BY <1>4, <1>8
  <2> QED BY <1>1, <1>2, <1>7, <1>9, <1>12, <2>1, <2>2, <2>3, NestStep
<1> QED BY <1>11, <1>13 DEF Inv

-----------------------------------------------------------------------------
LEMMA InitInv == Init => Inv
<1> SUFFICES ASSUME Init PROVE Inv
  OBVIOUS
<1>1. DataOK
  <2>1. \A f \in RandomArrays \cup TypedArrays : f \in [DOMAIN f -> Values]
    BY SortAssumption DEF ArraysOf
  <2> QED BY <2>1 DEF Init, InitForkJoin, InitMSApp, DataOK, FJ
<1>2. Last \in Nat /\ Root = <<0, Last>> /\ (~FJ => Last > 0) /\ Root[1] = 0 /\ Root[2] = Last
  BY <1>1, InputShape
<1>3. Root \in Ranges
  BY <1>2, IsRange
<1>4. CASE InitForkJoin
  <2>1. "forked" \in Places /\ FJ
    BY <1>4 DEF Places, InitForkJoin, FJ
  <2>2. Forked \in Activity /\ Forked.pc = "forked" /\ Len(Forked.out) = 0
    BY <2>1, PlacesType
  <2>3. DOMAIN act = {Root} /\ act \in [{Root} -> Activity] /\ act[Root] = Forked
    BY <1>4, <2>2 DEF InitForkJoin
  <2>4. Typed
    BY <1>1, <1>2, <1>3, <2>1, <2>2, <2>3 DEF Typed, Local, Where, MergePlaces
  <2>5. Nest
    BY <2>1, <2>2, <2>3 DEF Nest, Nodes, Inside, Kept, MergePlaces
  <2> QED BY <2>4, <2>5 DEF Inv
<1>5. CASE InitMSApp
  <2>1. ~FJ /\ Mid(Root) \in 0 .. Last - 1
    BY <1>2, <1>3, <1>5, RangeType DEF InitMSApp, FJ
  <2>2. /\ Part1(Root) \in Ranges /\ Part2(Root) \in Ranges
        /\ Part1(Root)[1] = 0 /\ Part1(Root)[2] = Mid(Root)
        /\ Part2(Root)[1] = Mid(Root) + 1 /\ Part2(Root)[2] = Last
    <3>1. 0 \in Nat /\ Mid(Root) \in Nat /\ Mid(Root) + 1 \in Nat /\ Last \in Nat
          /\ Mid(Root) <= Last /\ Mid(Root) + 1 <= Last /\ 0 <= Mid(Root)
      BY <1>2, <2>1
    <3> QED BY <1>2, <3>1, IsRange DEF Part1, Part2
  <2>3. Part1(Root) # Root /\ Part2(Root) # Root /\ Apart(Part1(Root), Part2(Root))
        /\ Apart(Part2(Root), Part1(Root))
    BY <1>2, <2>1, <2>2 DEF Apart
  <2>4. /\ DOMAIN act = {Root, Part1(Root), Part2(Root)} /\ act[Root] = Merging(Root)
        /\ \A r \in {Part1(Root), Part2(Root)} : act[r] = Called(r)
        /\ act = [r \in DOMAIN act |-> act[r]]
    BY <1>5, <2>3 DEF InitMSApp
  <2>5. /\ Merging(Root) \in Activity /\ Merging(Root).pc = "merge" /\ Merging(Root).i = 0
        /\ Merging(Root).j = Mid(Root) + 1 /\ Len(Merging(Root).out) = 0
    <3>1. "merge" \in Places /\ 0 \in Int /\ Mid(Root) + 1 \in Int
      BY <2>1 DEF Places
    <3> QED BY <1>2, <3>1, AtType DEF Merging
  <2>6. ASSUME NEW r \in {Part1(Root), Part2(Root)}
        PROVE  /\ Called(r) \in Activity /\ Len(Called(r).out) = 0
               /\ r[1] < r[2] => Called(r).pc = "scan" /\ Called(r).i = r[1] /\ Called(r).j = r[2]
               /\ ~(r[1] < r[2]) => Called(r).pc = "done"
    <3>1. "scan" \in Places /\ "done" \in Places /\ r[1] \in Int /\ r[2] \in Int
      BY <1>2, <2>1, <2>2 DEF Places
    <3>2. CASE r[1] < r[2]
      BY <3>1, <3>2, AtType DEF Called
    <3>3. CASE ~(r[1] < r[2])
      BY <3>1, <3>3, PlacesType DEF Called
    <3> QED BY <3>2, <3>3
  <2>7. ASSUME NEW r \in {Part1(Root), Part2(Root)} PROVE Local(r, act[r]) /\ Where(r, act[r])
    <3>1. r[1] \in Nat /\ r[2] \in Nat /\ r[1] <= r[2] /\ r # Root /\ act[r] = Called(r)
      BY <1>2, <2>1, <2>2, <2>3, <2>4
    <3>2. CASE r[1] < r[2]
      BY <2>1, <2>6, <3>1, <3>2 DEF Local, Where, MergePlaces
    <3>3. CASE ~(r[1] < r[2])
      BY <2>1, <2>6, <3>1, <3>3 DEF Local, Where, MergePlaces
    <3> QED BY <3>2, <3>3
  <2>8. Local(Root, act[Root]) /\ Where(Root, act[Root])
    <3> DEFINE me == act[Root]
    <3>1. me.pc = "merge" /\ me.i = 0 /\ me.j = Mid(Root) + 1 /\ Len(me.out) = 0
      BY <2>4, <2>5
    <3> HIDE DEF me
    <3>2. Where(Root, me)
      BY <2>1, <3>1 DEF Where, MergePlaces
    <3>3. /\ Root[1] < Root[2] /\ me.i \in Root[1] .. Mid(Root) + 1
          /\ me.j \in Mid(Root) + 1 .. Root[2] + 1 /\ me.i <= Mid(Root) /\ me.j <= Root[2]
          /\ Len(me.out) = (me.i - Root[1]) + (me.j - (Mid(Root) + 1))
          /\ Len(me.out) <= Root[2] - Root[1] + 1
      BY <1>2, <2>1, <3>1
    <3>4. Local(Root, me)
      BY <3>1, <3>3 DEF Local, MergePlaces
    <3> QED BY <3>2, <3>4 DEF me
  <2>9. Typed
    <3>1. \A r \in DOMAIN act : r \in Ranges /\ act[r] \in Activity
      BY <1>3, <2>2, <2>4, <2>5, <2>6
    <3> QED BY <1>1, <2>4, <2>7, <2>8, <3>1 DEF Typed
  <2>10. Nest
    <3>1. Nodes = {Part1(Root), Part2(Root)}
      BY <2>1, <2>3, <2>4 DEF Nodes
    <3>2. \A s \in Nodes : Inside(s) = {}
      BY <1>2, <2>1, <2>2, <3>1 DEF Inside, Within
    <3>3. \A s \in Nodes : act[s].pc \in {"scan", "done"}
      BY <2>4, <2>6, <3>1
    <3> QED BY <2>3, <3>1, <3>2, <3>3 DEF Nest, Kept, MergePlaces
  <2> QED BY <2>9, <2>10 DEF Inv
<1> QED BY <1>4, <1>5 DEF Init

(* What the fork-join programs do with a task.                             *)
LEMMA ComputeInv == ASSUME Inv, NEW r \in DOMAIN act, Compute(r) PROVE Inv'
<1>1. /\ Last \in Nat /\ r \in Ranges /\ r[1] \in 0 .. Last /\ r[2] \in 0 .. Last /\ r[1] <= r[2]
      /\ Where(r, act[r]) /\ act[r].pc = "forked" /\ act[r].pc # "done"
      /\ array' \in [0 .. Last -> Values] /\ raced' \in BOOLEAN /\ UNCHANGED <<program, input>>
      /\ r \in Nodes => Inside(r) = {}
  BY NodeFacts DEF Compute, Kept, Inv, Typed, DataOK
<1>2. FJ
  BY <1>1 DEF Where, MergePlaces
<1>3. CASE r[2] - r[1] < THRESHOLD
  <2> DEFINE new == At("select", r[1], 0)
  <2>1. "select" \in Places /\ r[1] \in Int /\ 0 \in Int
    BY <1>1 DEF Places
  <2>2. /\ new \in Activity /\ new.pc = "select" /\ new.i = r[1] /\ Len(new.out) = 0
    BY <2>1, AtType
  <2>3. act' = [act EXCEPT ![r] = new]
    BY <1>3 DEF Compute, Goes
  <2> HIDE DEF new
  <2>4. Local(r, new) /\ Where(r, new) /\ (r \in Nodes => Kept(r, new))
    BY <1>1, <1>2, <2>2 DEF Local, Where, Kept, MergePlaces
  <2> QED BY <1>1, <2>2, <2>3, <2>4, AdvanceStep
<1>4. CASE ~(r[2] - r[1] < THRESHOLD) /\ program = "FJ-Quick"
  <2> DEFINE new == At("scan", r[1], r[2])
  <2>1. "scan" \in Places /\ r[1] \in Int /\ r[2] \in Int /\ r[1] < r[2]
    BY <1>1, <1>4, SortAssumption DEF Places
  <2>2. /\ new \in Activity /\ new.pc = "scan" /\ new.i = r[1] /\ new.j = r[2] /\ Len(new.out) = 0
    BY <2>1, AtType
  <2>3. act' = [act EXCEPT ![r] = new]
    BY <1>4 DEF Compute, Goes
  <2> HIDE DEF new
  <2>4. Local(r, new) /\ Where(r, new) /\ (r \in Nodes => Kept(r, new))
    BY <1>1, <1>2, <2>1, <2>2 DEF Local, Where, Kept, MergePlaces
  <2> QED BY <1>1, <2>2, <2>3, <2>4, AdvanceStep
<1>5. CASE ~(r[2] - r[1] < THRESHOLD) /\ program # "FJ-Quick"
  <2>1. Fork(r) /\ r[1] < r[2]
    BY <1>1, <1>5, SortAssumption DEF Compute
  <2> QED BY <1>1, <1>2, <2>1, ForkStep
<1> QED BY <1>3, <1>4, <1>5

LEMMA AllDone ==
  ASSUME Inv, NEW part \in Nodes, act[part].pc = "done", NEW x \in Nodes, Within(x, part)
  PROVE  act[x].pc = "done"
<1>1. Kept(part, act[part])
  BY DEF Inv, Nest
<1> QED BY <1>1 DEF Kept, Inside, MergePlaces

LEMMA JoinInv == ASSUME Inv, NEW r \in DOMAIN act, Join(r) PROVE Inv'
<1>1. /\ Last \in Nat /\ r \in Ranges /\ r[1] \in 0 .. Last /\ r[2] \in 0 .. Last /\ r[1] < r[2]
      /\ Mid(r) \in r[1] .. r[2] - 1 /\ Where(r, act[r]) /\ act[r].pc = "wait" /\ act[r].pc # "done"
      /\ array' \in [0 .. Last -> Values] /\ raced' \in BOOLEAN /\ UNCHANGED <<program, input>>
      /\ r \in Nodes => Kept(r, act[r])
  BY NodeFacts DEF Join, Local, Inv, Typed, DataOK
<1>2. FJ
  BY <1>1 DEF Where, MergePlaces
<1> DEFINE new == Merging(r)
<1>3. /\ new \in Activity /\ new.pc = "merge" /\ new.i = r[1] /\ new.j = Mid(r) + 1
      /\ Len(new.out) = 0
  <2>1. "merge" \in Places /\ r[1] \in Int /\ Mid(r) + 1 \in Int
    BY <1>1 DEF Places
  <2> QED BY <2>1, AtType DEF Merging
<1>4. act' = [act EXCEPT ![r] = new]
  BY DEF Join, Goes
<1> HIDE DEF new
<1>5. Local(r, new) /\ Where(r, new)
  BY <1>1, <1>2, <1>3 DEF Local, Where, MergePlaces
<1>6. ASSUME NEW x \in Inside(r) PROVE act[x].pc = "done"
  <2>1. r \in Nodes /\ Part1(r) \in Nodes /\ Part2(r) \in Nodes /\ x \in Nodes
    BY <1>1, <1>2 DEF Nodes, Inside, Kept
  <2>2. Within(x, Part1(r)) \/ Within(x, Part2(r))
    BY <1>1, <2>1 DEF Kept
  <2> QED BY <2>1, <2>2, AllDone DEF Join
<1>7. Kept(r, new)
  BY <1>3, <1>6 DEF Kept, MergePlaces
<1> QED BY <1>1, <1>3, <1>4, <1>5, <1>7, AdvanceStep

LEMMA SelectPassInv == ASSUME Inv, NEW r \in DOMAIN act, SelectPass(r) PROVE Inv'
<1>1. /\ Last \in Nat /\ r \in Ranges /\ r[1] \in 0 .. Last /\ r[2] \in 0 .. Last /\ r[1] <= r[2]
      /\ Where(r, act[r]) /\ act[r].pc = "select" /\ act[r].pc # "done"
      /\ act[r].i \in r[1] .. r[2] /\ act[r] \in Activity /\ Len(act[r].out) <= r[2] - r[1] + 1
      /\ array \in [0 .. Last -> Values] /\ Values \subseteq Int /\ DOMAIN array = 0 .. Last
      /\ raced' \in BOOLEAN /\ UNCHANGED <<program, input>>
      /\ r \in Nodes => Inside(r) = {}
  BY NodeFacts DEF SelectPass, Local, Kept, Inv, Typed, DataOK
<1>2. FJ
  BY <1>1 DEF Where, MergePlaces
<1>3. CASE act[r].i < r[2]
  <2> DEFINE i == act[r].i
             SmallestBefore(j) == Min({array[k] : k \in i .. j - 1})
             new == [act[r] EXCEPT !.i = i + 1]
  <2>1. ASSUME NEW j \in i + 1 .. Last + 1 PROVE SmallestBefore(j) \in Values
    <3>0. i \in 0 .. Last /\ j - 1 \in i .. Last
      BY <1>1
    <3>1. /\ i \in Nat /\ j - 1 \in Nat /\ i <= j - 1
          /\ \A k \in i .. j - 1 : array[k] \in Values /\ array[k] \in Int
      <4> HIDE DEF i
      <4>1. i \in Nat /\ j - 1 \in Nat /\ i <= j - 1
        BY <1>1, <3>0
      <4>2. \A k \in i .. j - 1 : k \in 0 .. Last
        BY <1>1, <3>0
      <4>3. \A k \in 0 .. Last : array[k] \in Values /\ array[k] \in Int
        BY <1>1
      <4> QED BY <4>1, <4>2, <4>3
    <3>2. Min({array[k] : k \in i .. j - 1}) \in {array[k] : k \in i .. j - 1}
      BY <3>1, SmallestOf
    <3> QED BY <3>1, <3>2
  <2>2. array' = [j \in DOMAIN array |->
                    IF j = i THEN SmallestBefore(r[2] + 1)
                    ELSE IF j \in i + 1 .. r[2] /\ array[j] < SmallestBefore(j)
                      THEN SmallestBefore(j) ELSE array[j]]
    BY <1>3 DEF SelectPass
  <2> HIDE DEF SmallestBefore
  <2>3. array' \in [0 .. Last -> Values]
    <3>1. r[2] + 1 \in i + 1 .. Last + 1 /\ \A j \in i + 1 .. r[2] : j \in i + 1 .. Last + 1
      BY <1>1, <1>3
    <3>2. \A j \in 0 .. Last : array[j] \in Values
      BY <1>1
    <3> QED BY <1>1, <2>1, <2>2, <3>1, <3>2
  <2>4. /\ new \in Activity /\ new.pc = "select" /\ new.i = i + 1 /\ new.out = act[r].out
    <3>1. i + 1 \in Int
      BY <1>1
    <3> HIDE DEF i
    <3> QED BY <1>1, <3>1 DEF Activity
  <2>5. act' = [act EXCEPT ![r] = new]
    BY <1>3 DEF SelectPass
  <2>6. i + 1 \in r[1] .. r[2]
    BY <1>1, <1>3
  <2> HIDE DEF new, i
  <2>7. Local(r, new) /\ Where(r, new) /\ (r \in Nodes => Kept(r, new))
    BY <1>1, <1>2, <2>4, <2>6 DEF Local, Where, Kept, MergePlaces
  <2> QED BY <1>1, <2>3, <2>4, <2>5, <2>7, AdvanceStep
<1>4. CASE ~(act[r].i < r[2])
  <2>1. act' = [act EXCEPT ![r] = Done] /\ array' = array
    BY <1>4 DEF SelectPass, Goes
  <2>2. Done \in Activity /\ Done.pc = "done" /\ Len(Done.out) = 0
    BY PlacesType DEF Places
  <2>3. Local(r, Done) /\ Where(r, Done) /\ (r \in Nodes => Kept(r, Done))
    BY <1>1, <1>2, <2>2 DEF Local, Where, Kept, MergePlaces
  <2> QED BY <1>1, <2>1, <2>2, <2>3, AdvanceStep
<1> QED BY <1>3, <1>4

LEMMA ScanFacts ==
  ASSUME Inv, NEW r \in DOMAIN act, act[r].pc = "scan"
  PROVE  NextI(r) \in r[1] .. r[2] /\ NextJ(r) \in r[1] .. r[2]
<1>1. /\ Last \in Nat /\ r[1] \in 0 .. Last /\ r[2] \in 0 .. Last /\ r[1] <= r[2]
      /\ act[r].i \in r[1] .. r[2] /\ act[r].j \in r[1] .. r[2]
      /\ array \in [0 .. Last -> Values] /\ Values \subseteq Int
  BY NodeFacts DEF Local
<1>2. NextI(r) \in r[1] .. r[2]
  <2> DEFINE S == {i \in act[r].i .. r[2] : array[i] > array[r[1]] \/ i = r[2]}
  <2>1. S \in SUBSET Nat /\ r[2] \in S
    BY <1>1
  <2>2. Min(S) \in S
    BY <2>1, MinOf
  <2> QED BY <1>1, <2>2 DEF NextI
<1>3. NextJ(r) \in r[1] .. r[2]
  <2> DEFINE S == {j \in r[1] .. act[r].j : array[j] <= array[r[1]]}
  <2>0. r[1] \in r[1] .. act[r].j /\ array[r[1]] \in Int /\ array[r[1]] <= array[r[1]]
    <3>1. r[1] \in r[1] .. act[r].j
      BY <1>1
    <3>2. array[r[1]] \in Values
      BY <1>1
    <3>3. array[r[1]] \in Int
      BY <1>1, <3>2
    <3> QED BY <3>1, <3>3
  <2>1. S \in SUBSET (0 .. Last) /\ r[1] \in S
    BY <1>1, <2>0
  <2>2. Max(S) \in S
    BY <1>1, <2>1, MaxOf
  <2> QED BY <1>1, <2>2 DEF NextJ
<1> QED BY <1>2, <1>3

LEMMA ScanInv == ASSUME Inv, NEW r \in DOMAIN act, Scan(r) PROVE Inv'
<1>1. /\ Last \in Nat /\ r \in Ranges /\ r[1] \in 0 .. Last /\ r[2] \in 0 .. Last /\ r[1] < r[2]
      /\ Where(r, act[r]) /\ act[r].pc = "scan" /\ act[r].pc # "done"
      /\ array \in [0 .. Last -> Values] /\ raced' \in BOOLEAN /\ UNCHANGED <<program, input>>
      /\ r \in Nodes => Inside(r) = {}
  BY NodeFacts DEF Scan, Goes, Local, Kept, Inv, Typed, DataOK
<1>2. PICK i, j, low : /\ i = NextI(r) /\ j = NextJ(r) /\ low = IF i < j THEN i ELSE r[1]
                       /\ i \in r[1] .. r[2] /\ j \in r[1] .. r[2] /\ low \in r[1] .. r[2]
  BY <1>1, ScanFacts
<1> DEFINE new == [At("store", i, j) EXCEPT !.held = array[low]]
<1>3. array' = [array EXCEPT ![low] = array[j]] /\ act' = [act EXCEPT ![r] = new]
  BY <1>2 DEF Scan, Goes
<1>4. array[low] \in Values /\ array[j] \in Values
  BY <1>1, <1>2
<1>5. array' \in [0 .. Last -> Values]
  BY <1>1, <1>3, <1>4
<1>6. /\ new \in Activity /\ new.pc = "store" /\ new.i = i /\ new.j = j /\ new.held = array[low]
      /\ new.out = <<>> /\ Len(<<>>) = 0
  <2>1. "store" \in Places /\ i \in Int /\ j \in Int
    BY <1>1, <1>2 DEF Places
  <2> QED BY <1>4, <2>1, AtType DEF At, Activity
<1> HIDE DEF new
<1>7. Local(r, new) /\ (r \in Nodes => Kept(r, new))
  BY <1>1, <1>2, <1>4, <1>6 DEF Local, Kept, MergePlaces
<1>8. Where(r, new)
  BY <1>1, <1>6 DEF Where, MergePlaces
<1> QED BY <1>1, <1>3, <1>5, <1>6, <1>7, <1>8, AdvanceStep

LEMMA StoreInv == ASSUME Inv, NEW r \in DOMAIN act, Store(r) PROVE Inv'
<1>1. /\ Last \in Nat /\ r \in Ranges /\ r[1] \in 0 .. Last /\ r[2] \in 0 .. Last /\ r[1] < r[2]
      /\ r = <<r[1], r[2]>>
      /\ Where(r, act[r]) /\ act[r].pc = "store" /\ act[r].pc # "done"
      /\ act[r].i \in r[1] .. r[2] /\ act[r].j \in r[1] .. r[2] /\ act[r].held \in Values
      /\ array \in [0 .. Last -> Values] /\ raced' \in BOOLEAN /\ UNCHANGED <<program, input>>
      /\ r \in Nodes => Inside(r) = {}
  BY NodeFacts DEF Store, Local, Kept, Inv, Typed, DataOK
<1>2. array' \in [0 .. Last -> Values]
  BY <1>1 DEF Store
<1>3. CASE act[r].i < act[r].j
  <2> DEFINE new == At("scan", act[r].i, act[r].j)
  <2>1. "scan" \in Places /\ act[r].i \in Int /\ act[r].j \in Int
    BY <1>1 DEF Places
  <2>2. /\ new \in Activity /\ new.pc = "scan" /\ new.i = act[r].i /\ new.j = act[r].j
        /\ Len(new.out) = 0
    BY <2>1, AtType
  <2>3. act' = [act EXCEPT ![r] = new]
    BY <1>3 DEF Store, Goes
  <2> HIDE DEF new
  <2>4. Local(r, new) /\ (r \in Nodes => Kept(r, new))
    BY <1>1, <2>2 DEF Local, Kept, MergePlaces
  <2>5. Where(r, new)
    BY <1>1, <2>2 DEF Where, MergePlaces
  <2> QED BY <1>1, <1>2, <2>2, <2>3, <2>4, <2>5, AdvanceStep
<1>4. CASE ~(act[r].i < act[r].j) /\ FJ
  <2>1. Fork(r)
    BY <1>4 DEF Store
  <2> QED BY <1>1, <1>2, <1>4, <2>1, ForkStep
<1>5. CASE ~(act[r].i < act[r].j) /\ ~FJ
  <2>1. PICK j, low, high : j = act[r].j /\ low = r[1] /\ high = j - 1
    OBVIOUS
  <2> DEFINE new == At("left", 0, j)
  <2>2. j \in r[1] .. r[2] /\ low \in Nat /\ high \in Int /\ low <= high + 1 /\ high < r[2]
    BY <1>1, <2>1
  <2>3. /\ new \in Activity /\ new.pc = "left" /\ new.j = j /\ Len(new.out) = 0
    <3>1. "left" \in Places /\ 0 \in Int /\ j \in Int
      BY <1>1, <2>2 DEF Places
    <3> QED BY <3>1, AtType
  <2>4. Recursion(r, new, low, high)
    BY <1>5, <2>1 DEF Store, Calls, Begins, Recursion
  <2> HIDE DEF new
  <2>5. r \in Nodes /\ Inside(r) = {}
    BY <1>1, <1>5 DEF Where, MergePlaces, Nodes
  <2>6. Within(<<low, high>>, r) /\ <<low, high>> # r
    BY <1>1, <2>1, <2>2 DEF Within
  <2>7. Local(r, new)
    BY <1>1, <2>2, <2>3 DEF Local, MergePlaces
  <2>8. Recurses(r, new, low, high)
    BY <1>1, <1>5, <2>1, <2>2, <2>3, <2>5, <2>6, <2>7 DEF Recurses
  <2> QED BY <1>1, <1>2, <2>4, <2>8, CallStep
<1> QED BY <1>3, <1>4, <1>5

(* The call for low to high, a part of the range of r, has returned.       *)
LEMMA ReturnedDone ==
  ASSUME Inv, NEW r \in Nodes, NEW low \in Int, NEW high \in Int, Returned(low, high),
         r[1] <= low, high <= r[2], low <= high => <<low, high>> \in DOMAIN act,
         <<low, high>> # r,
         NEW x \in Nodes, Within(x, <<low, high>>)
  PROVE  act[x].pc = "done"
<1>1. r \in DOMAIN act /\ x \in DOMAIN act
  BY DEF Nodes
<1>2. /\ r[1] \in 0 .. Last /\ r[2] \in 0 .. Last /\ r = <<r[1], r[2]>> /\ Last \in Nat
      /\ x[1] \in Int /\ x[2] \in Int /\ x[1] <= x[2]
  BY <1>1, NodeFacts
<1>3. low <= high
  BY <1>2 DEF Within
<1>4. <<low, high>> \in Nodes
  <2>1. ~FJ => Root = <<0, Last>> /\ r # Root
    BY InputShape DEF Nodes, Inv, Typed
  <2>2. ~FJ => <<low, high>> # Root
    BY <1>2, <2>1
  <2> QED BY <1>3, <2>2 DEF Nodes
<1>5. act[<<low, high>>].pc = "done"
  BY <1>3 DEF Returned
<1> QED BY <1>4, <1>5, AllDone

LEMMA CallRightInv == ASSUME Inv, NEW r \in DOMAIN act, CallRight(r) PROVE Inv'
<1>1. /\ Last \in Nat /\ r[1] \in 0 .. Last /\ r[2] \in 0 .. Last /\ r = <<r[1], r[2]>>
      /\ Where(r, act[r]) /\ act[r].pc = "left" /\ act[r].j \in r[1] .. r[2]
      /\ array' \in [0 .. Last -> Values] /\ raced' \in BOOLEAN /\ UNCHANGED <<program, input>>
      /\ r \in Nodes => Kept(r, act[r])
  BY NodeFacts DEF CallRight, Local, Inv, Typed, DataOK
<1>2. ~FJ /\ r \in Nodes
  BY <1>1 DEF Where, MergePlaces, Nodes
<1>3. PICK j, low, high : j = act[r].j /\ low = j + 1 /\ high = r[2]
  OBVIOUS
<1> DEFINE new == At("right", 0, j)
<1>4. j \in r[1] .. r[2] /\ low \in Nat /\ high \in Int /\ low <= high + 1 /\ r[1] < low
  BY <1>1, <1>3
<1>5. /\ new \in Activity /\ new.pc = "right" /\ new.j = j /\ Len(new.out) = 0
  <2>1. "right" \in Places /\ 0 \in Int /\ j \in Int
    BY <1>1, <1>4 DEF Places
  <2> QED BY <2>1, AtType
<1>6. Recursion(r, new, low, high)
  BY <1>3 DEF CallRight, Calls, Begins, Recursion
<1> HIDE DEF new
<1>7. Within(<<low, high>>, r) /\ <<low, high>> # r
  BY <1>1, <1>3, <1>4 DEF Within
<1>8. Local(r, new)
  BY <1>1, <1>4, <1>5 DEF Local, MergePlaces
<1>9. ASSUME NEW x \in Inside(r)
      PROVE  /\ Within(x, Before(r, j)) /\ act[x].pc = "done" /\ Apart(<<low, high>>, x)
  <2>1. x \in Nodes /\ x \in DOMAIN act
    BY DEF Inside, Nodes
  <2>2. Within(x, Before(r, j)) /\ (r[1] <= j - 1 => Before(r, j) \in DOMAIN act)
    BY <1>1, <1>2, <1>3 DEF Kept
  <2>3. r[1] \in Int /\ j - 1 \in Int /\ j - 1 <= r[2] /\ j - 1 < r[2] /\ r[1] <= r[1]
    BY <1>1, <1>4
  <2>4. Returned(r[1], j - 1) /\ <<r[1], j - 1>> # r
    BY <1>1, <1>3, <2>3 DEF CallRight
  <2>5. act[x].pc = "done"
    BY <1>2, <2>1, <2>2, <2>3, <2>4, ReturnedDone DEF Before
  <2>6. x[1] \in Int /\ x[2] \in Int
    BY <2>1, NodeFacts
  <2>7. Apart(<<low, high>>, x)
    BY <1>3, <1>4, <2>2, <2>6 DEF Within, Before, Apart
  <2> QED BY <2>2, <2>5, <2>7
<1>10. Recurses(r, new, low, high)
  BY <1>1, <1>2, <1>3, <1>4, <1>5, <1>7, <1>8, <1>9 DEF Recurses
<1> QED BY <1>1, <1>6, <1>10, CallStep

LEMMA ReturnInv == ASSUME Inv, NEW r \in DOMAIN act, Return(r) PROVE Inv'
<1>1. /\ Last \in Nat /\ r[1] \in 0 .. Last /\ r[2] \in 0 .. Last /\ r = <<r[1], r[2]>>
      /\ r[1] <= r[2]
      /\ Where(r, act[r]) /\ act[r].pc = "right" /\ act[r].j \in r[1] .. r[2]
      /\ array' \in [0 .. Last -> Values] /\ raced' \in BOOLEAN /\ UNCHANGED <<program, input>>
      /\ r \in Nodes => Kept(r, act[r])
  BY NodeFacts DEF Return, Goes, Local, Inv, Typed, DataOK
<1>2. ~FJ /\ r \in Nodes
  BY <1>1 DEF Where, MergePlaces, Nodes
<1>3. PICK j : j = act[r].j /\ j \in r[1] .. r[2]
  BY <1>1
<1>4. ASSUME NEW x \in Inside(r) PROVE act[x].pc = "done"
  <2>1. x \in Nodes
    BY DEF Inside
  <2>2. act[x].pc = "done" \/ (Within(x, Behind(r, j)) /\ (j + 1 <= r[2] => Behind(r, j) \in DOMAIN act))
    BY <1>1, <1>2, <1>3 DEF Kept
  <2>3. j + 1 \in Int /\ r[2] \in Int /\ r[1] <= j + 1 /\ r[1] < j + 1 /\ r[2] <= r[2]
    BY <1>1, <1>3
  <2>4. Returned(j + 1, r[2]) /\ <<j + 1, r[2]>> # r
    BY <1>1, <1>3, <2>3 DEF Return
  <2> QED BY <1>2, <2>1, <2>2, <2>3, <2>4, ReturnedDone DEF Behind
<1>5. Done \in Activity /\ Done.pc = "done" /\ Len(Done.out) = 0
  BY PlacesType DEF Places
<1>6. Local(r, Done) /\ Where(r, Done) /\ Kept(r, Done)
  BY <1>1, <1>2, <1>4, <1>5 DEF Local, Where, Kept, MergePlaces
<1>7. act' = [act EXCEPT ![r] = Done] /\ act[r].pc # "done"
  BY <1>1 DEF Return, Goes
<1> QED BY <1>1, <1>5, <1>6, <1>7, AdvanceStep

-----------------------------------------------------------------------------
(* A step of merge().                                                      *)
LEMMA MergeFacts ==
  ASSUME Inv, NEW r \in DOMAIN act, act[r].pc \in MergePlaces
  PROVE  /\ Last \in Nat /\ r[1] \in 0 .. Last /\ r[2] \in 0 .. Last /\ r[1] < r[2]
         /\ Mid(r) \in r[1] .. r[2] - 1 /\ act[r].pc # "done" /\ act[r] \in Activity
         /\ act[r].i \in r[1] .. Mid(r) + 1 /\ act[r].j \in Mid(r) + 1 .. r[2] + 1
         /\ act[r].out \in Seq(Values) /\ Len(act[r].out) \in Nat
         /\ Len(act[r].out) = (act[r].i - r[1]) + (act[r].j - (Mid(r) + 1))
         /\ act[r].pc \in {"compare", "take1"} => act[r].i <= Mid(r)
         /\ act[r].pc \in {"compare", "take2"} => act[r].j <= r[2]
         /\ array \in [0 .. Last -> Values]
         /\ r \in Nodes => \A x \in Inside(r) : act[x].pc = "done"
<1>1. Local(r, act[r]) /\ act[r] \in Activity /\ r[1] < r[2]
  BY NodeFacts DEF Local, MergePlaces
<1>2. /\ Last \in Nat /\ r[1] \in 0 .. Last /\ r[2] \in 0 .. Last
      /\ Mid(r) \in r[1] .. r[2] - 1 /\ array \in [0 .. Last -> Values]
      /\ r \in Nodes => \A x \in Inside(r) : act[x].pc = "done"
  BY <1>1, NodeFacts DEF Kept
<1>3. act[r].out \in Seq(Values) /\ Len(act[r].out) \in Nat
  <2>1. act[r].out \in Seq(Values)
    BY <1>1 DEF Activity
  <2> QED BY <2>1, LenProperties
<1>4. act[r].pc # "done"
  BY DEF MergePlaces
<1> QED BY <1>1, <1>2, <1>3, <1>4 DEF Local

LEMMA MergeLocal ==
  ASSUME Last \in Nat, NEW r, r[1] \in 0 .. Last, r[2] \in 0 .. Last, r[1] < r[2],
         Mid(r) \in r[1] .. r[2] - 1, NEW new, new.pc \in MergePlaces,
         new.i \in r[1] .. Mid(r) + 1, new.j \in Mid(r) + 1 .. r[2] + 1,
         Len(new.out) = (new.i - r[1]) + (new.j - (Mid(r) + 1)),
         new.pc \in {"compare", "take1"} => new.i <= Mid(r),
         new.pc \in {"compare", "take2"} => new.j <= r[2]
  PROVE  Local(r, new)
<1>1. /\ r[1] \in Int /\ r[2] \in Int /\ Mid(r) \in Int /\ new.i \in Int /\ new.j \in Int
      /\ new.i <= Mid(r) + 1 /\ new.j <= r[2] + 1
  OBVIOUS
<1>2. \A a, b, m, i, j \in Int :
        i <= m + 1 /\ j <= b + 1 => (i - a) + (j - (m + 1)) <= b - a + 1
  OBVIOUS
<1>3. Len(new.out) <= r[2] - r[1] + 1
  BY <1>1, <1>2
<1> QED BY <1>3 DEF Local, MergePlaces

LEMMA MergeStep ==
  ASSUME Inv, NEW half, NotesRace(half), NEW r \in DOMAIN act, act[r].pc \in MergePlaces,
         NEW new \in Activity, act' = [act EXCEPT ![r] = new], new.pc \in MergePlaces, Local(r, new)
  PROVE  Inv'
<1>1. /\ array' \in [0 .. Last -> Values] /\ raced' \in BOOLEAN /\ UNCHANGED <<program, input>>
      /\ act[r].pc # "done" /\ Where(r, act[r])
      /\ r \in Nodes => \A x \in Inside(r) : act[x].pc = "done"
  <2>1. raced' \in BOOLEAN
    BY DEF NotesRace, Inv, Typed, DataOK
  <2> QED BY <2>1, MergeFacts, NodeFacts DEF NotesRace
<1>2. Where(r, new)
  BY <1>1 DEF Where, MergePlaces
<1>3. r \in Nodes => Kept(r, new)
  BY <1>1 DEF Kept, MergePlaces
<1> QED BY <1>1, <1>2, <1>3, AdvanceStep

LEMMA MergeReadInv == ASSUME Inv, NEW r \in DOMAIN act, MergeRead(r) PROVE Inv'
<1> DEFINE me == act[r]
           new == [me EXCEPT !.pc = "compare", !.held = array[me.i]]
<1>1. me.pc = "merge" /\ me.pc \in MergePlaces /\ me.i <= Mid(r) /\ me.j <= r[2]
      /\ act' = [act EXCEPT ![r] = new] /\ NotesRace(Part1(r))
  BY DEF MergeRead, Goes, MergePlaces
<1>2. /\ Last \in Nat /\ r[1] \in 0 .. Last /\ r[2] \in 0 .. Last /\ r[1] < r[2]
      /\ Mid(r) \in r[1] .. r[2] - 1 /\ me \in Activity
      /\ me.i \in r[1] .. Mid(r) + 1 /\ me.j \in Mid(r) + 1 .. r[2] + 1
      /\ Len(me.out) = (me.i - r[1]) + (me.j - (Mid(r) + 1))
      /\ array \in [0 .. Last -> Values]
  BY <1>1, MergeFacts
<1>3. array[me.i] \in Values
  <2>1. me.i \in 0 .. Last
    BY <1>1, <1>2
  <2> QED BY <1>2, <2>1
<1>4. /\ new \in Activity /\ new.pc = "compare" /\ new.i = me.i /\ new.j = me.j /\ new.out = me.out
  <2> HIDE DEF me
  <2> QED BY <1>2, <1>3 DEF Activity, Places
<1> HIDE DEF me, new
<1>5. new.pc \in MergePlaces
  BY <1>4 DEF MergePlaces
<1>6. Local(r, new)
  BY <1>1, <1>2, <1>4, <1>5, MergeLocal
<1> QED BY <1>1, <1>4, <1>5, <1>6, MergeStep DEF me

LEMMA CompareInv == ASSUME Inv, NEW r \in DOMAIN act, Compare(r) PROVE Inv'
<1> DEFINE me == act[r]
           place == IF me.held <= array[me.j] THEN "take1" ELSE "take2"
           new == [me EXCEPT !.pc = place, !.held = 0]
<1>1. me.pc = "compare" /\ me.pc \in MergePlaces
      /\ act' = [act EXCEPT ![r] = new] /\ NotesRace(Part2(r))
  BY DEF Compare, Goes, MergePlaces
<1>2. /\ Last \in Nat /\ r[1] \in 0 .. Last /\ r[2] \in 0 .. Last /\ r[1] < r[2]
      /\ Mid(r) \in r[1] .. r[2] - 1 /\ me \in Activity
      /\ me.i \in r[1] .. Mid(r) + 1 /\ me.j \in Mid(r) + 1 .. r[2] + 1
      /\ Len(me.out) = (me.i - r[1]) + (me.j - (Mid(r) + 1))
      /\ me.i <= Mid(r) /\ me.j <= r[2]
  BY <1>1, MergeFacts
<1>3. place \in {"take1", "take2"} /\ place \in Places /\ place \in MergePlaces
  BY DEF Places, MergePlaces
<1>4. /\ new \in Activity /\ new.pc = place /\ new.i = me.i /\ new.j = me.j /\ new.out = me.out
  <2> HIDE DEF me, place
  <2> QED BY <1>2, <1>3 DEF Activity
<1> HIDE DEF me, place, new
<1>5. Local(r, new)
  BY <1>2, <1>3, <1>4, MergeLocal
<1> QED BY <1>1, <1>3, <1>4, <1>5, MergeStep DEF me

(* An element of the array goes to sorted_array.                           *)
Takes(r, i, j, k) ==
  act' = [act EXCEPT ![r] = [At("merge", i, j) EXCEPT !.out = Append(act[r].out, array[k])]]

LEMMA TakeStep ==
  ASSUME Inv, NEW half, NotesRace(half), NEW r \in DOMAIN act, act[r].pc \in MergePlaces,
         NEW i, i \in r[1] .. Mid(r) + 1, NEW j, j \in Mid(r) + 1 .. r[2] + 1,
         NEW k, k \in r[1] .. r[2],
         i + j = act[r].i + act[r].j + 1, Takes(r, i, j, k)
  PROVE  Inv'
<1> DEFINE out == Append(act[r].out, array[k])
           new == [At("merge", i, j) EXCEPT !.out = out]
<1>1. /\ Last \in Nat /\ r[1] \in 0 .. Last /\ r[2] \in 0 .. Last /\ r[1] < r[2]
      /\ Mid(r) \in r[1] .. r[2] - 1
      /\ act[r].i \in r[1] .. Mid(r) + 1 /\ act[r].j \in Mid(r) + 1 .. r[2] + 1
      /\ act[r].out \in Seq(Values) /\ Len(act[r].out) \in Nat
      /\ Len(act[r].out) = (act[r].i - r[1]) + (act[r].j - (Mid(r) + 1))
      /\ array \in [0 .. Last -> Values]
  BY MergeFacts
<1>2. array[k] \in Values
  <2>1. /\ r[1] \in Int /\ r[2] \in Int /\ k \in Int /\ r[1] <= k /\ k <= r[2]
        /\ 0 <= r[1] /\ r[2] <= Last /\ Last \in Int
    BY <1>1
  <2>2. \A a, b, c, last \in Int : a <= c /\ c <= b /\ 0 <= a /\ b <= last => c \in 0 .. last
    OBVIOUS
  <2>3. k \in 0 .. Last
    BY <2>1, <2>2, Zenon
  <2> QED BY <1>1, <2>3
<1>3. out \in Seq(Values) /\ Len(out) = Len(act[r].out) + 1
  BY <1>1, <1>2, AppendProperties
<1> HIDE DEF out
<1>4. /\ new \in Activity /\ new.pc = "merge" /\ new.i = i /\ new.j = j /\ new.out = out
  <2>1. "merge" \in Places /\ i \in Int /\ j \in Int
    BY <1>1 DEF Places
  <2>2. At("merge", i, j) \in Activity
    BY <2>1, AtType
  <2> QED BY <1>3, <2>2 DEF At, Activity
<1>5. act' = [act EXCEPT ![r] = new]
  BY DEF out, Takes
<1> HIDE DEF new
<1>6. new.pc \in MergePlaces
  BY <1>4 DEF MergePlaces
<1>7. Len(new.out) = (new.i - r[1]) + (new.j - (Mid(r) + 1))
  <2>1. /\ r[1] \in Int /\ r[2] \in Int /\ Mid(r) \in Int /\ act[r].i \in Int /\ act[r].j \in Int
        /\ i \in Int /\ j \in Int
    BY <1>1
  <2>2. (act[r].i - r[1]) + (act[r].j - (Mid(r) + 1)) + 1 = (i - r[1]) + (j - (Mid(r) + 1))
    <3>1. PICK a \in Int, m \in Int, x \in Int, y \in Int :
            a = r[1] /\ m = Mid(r) /\ x = act[r].i /\ y = act[r].j
      BY <2>1
    <3>2. (x - a) + (y - (m + 1)) + 1 = (i - a) + (j - (m + 1))
      BY <2>1, <3>1
    <3> QED BY <3>1, <3>2
  <2>3. Len(out) = (act[r].i - r[1]) + (act[r].j - (Mid(r) + 1)) + 1
    BY <1>1, <1>3
  <2> QED BY <1>4, <2>2, <2>3
<1>8. Local(r, new)
  BY <1>1, <1>4, <1>6, <1>7, MergeLocal
<1> QED BY <1>4, <1>5, <1>6, <1>8, MergeStep

LEMMA TakeInv == ASSUME Inv, NEW r \in DOMAIN act, Take1(r) \/ Take2(r) PROVE Inv'
<1>1. act[r].pc \in MergePlaces /\ \E half : NotesRace(half)
  BY DEF Take1, Take2, MergePlaces
<1>2. /\ Last \in Nat /\ r[1] \in 0 .. Last /\ r[2] \in 0 .. Last /\ r[1] < r[2]
      /\ Mid(r) \in r[1] .. r[2] - 1
      /\ act[r].i \in r[1] .. Mid(r) + 1 /\ act[r].j \in Mid(r) + 1 .. r[2] + 1
      /\ Len(act[r].out) = (act[r].i - r[1]) + (act[r].j - (Mid(r) + 1))
      /\ act[r].pc = "take1" => act[r].i <= Mid(r)
      /\ act[r].pc = "take2" => act[r].j <= r[2]
  BY <1>1, MergeFacts
<1>3. PICK i, j : i = act[r].i /\ j = act[r].j
  OBVIOUS
<1>6. /\ r[1] \in Int /\ r[2] \in Int /\ Mid(r) \in Int /\ i \in Int /\ j \in Int
      /\ r[1] <= i /\ i <= Mid(r) + 1 /\ Mid(r) + 1 <= j /\ j <= r[2] + 1
      /\ r[1] <= Mid(r) /\ Mid(r) < r[2]
  BY <1>2, <1>3
<1>4. CASE Take1(r)
  <2>1. i <= Mid(r) /\ Takes(r, i + 1, j, i)
    BY <1>2, <1>3, <1>4 DEF Take1, Takes
  <2>2. /\ i + 1 \in r[1] .. Mid(r) + 1 /\ j \in Mid(r) + 1 .. r[2] + 1 /\ i \in r[1] .. r[2]
        /\ (i + 1) + j = act[r].i + act[r].j + 1
    BY <1>3, <1>6, <2>1
  <2> QED BY <1>1, <2>1, <2>2, TakeStep
<1>5. CASE Take2(r)
  <2>1. Takes(r, i, j + 1, j)
    BY <1>3, <1>5 DEF Take2, Takes
  <2>2. j <= r[2]
    <3>1. CASE act[r].pc = "take2"
      BY <1>2, <1>3, <3>1
    <3>2. CASE act[r].i > Mid(r) /\ ~Full(r)
      <4>1. (i - r[1]) + (j - (Mid(r) + 1)) # r[2] - r[1] + 1 /\ i > Mid(r)
        BY <1>2, <1>3, <3>2 DEF Full
      <4> QED BY <1>6, <4>1
    <3> QED BY <1>5, <3>1, <3>2 DEF Take2
  <2>3. /\ i \in r[1] .. Mid(r) + 1 /\ j + 1 \in Mid(r) + 1 .. r[2] + 1 /\ j \in r[1] .. r[2]
        /\ i + (j + 1) = act[r].i + act[r].j + 1
    BY <1>3, <1>6, <2>2
  <2> QED BY <1>1, <2>1, <2>3, TakeStep
<1> QED BY <1>4, <1>5

LEMMA MergeEndInv == ASSUME Inv, NEW r \in DOMAIN act, MergeEnd(r) PROVE Inv'
<1>1. act[r].pc = "merge" /\ act[r].pc \in MergePlaces
  BY DEF MergeEnd, Goes, MergePlaces
<1>2. /\ Last \in Nat /\ r[1] \in 0 .. Last /\ r[2] \in 0 .. Last /\ r[1] < r[2]
      /\ act[r].pc # "done" /\ act[r].out \in Seq(Values) /\ Len(act[r].out) = r[2] - r[1] + 1
      /\ array \in [0 .. Last -> Values] /\ DOMAIN array = 0 .. Last
      /\ raced' \in BOOLEAN /\ UNCHANGED <<program, input>> /\ Where(r, act[r])
      /\ r \in Nodes => \A x \in Inside(r) : act[x].pc = "done"
  BY <1>1, MergeFacts, NodeFacts DEF MergeEnd, Full, Inv, Typed, DataOK
<1> DEFINE out == IF FJ THEN <<>> ELSE act[r].out
           new == [Done EXCEPT !.out = out]
<1>3. out \in Seq(Values) /\ Len(out) <= r[2] - r[1] + 1
  <2>1. <<>> \in Seq(Values) /\ Len(<<>>) = 0
    OBVIOUS
  <2> QED BY <1>2, <2>1
<1>4. act' = [act EXCEPT ![r] = new]
  BY DEF MergeEnd, Goes
<1> HIDE DEF out
<1>5. new \in Activity /\ new.pc = "done" /\ new.out = out
  <2>1. "done" \in Places
    BY DEF Places
  <2>2. Done \in Activity
    BY <2>1, PlacesType
  <2> QED BY <1>3, <2>2 DEF Done, At, Activity
<1> HIDE DEF new
<1>6. Local(r, new) /\ Where(r, new)
  BY <1>1, <1>2, <1>3, <1>5 DEF Local, Where, MergePlaces
<1>7. r \in Nodes => Kept(r, new)
  BY <1>2, <1>5 DEF Kept, MergePlaces
<1>8. array' \in [0 .. Last -> Values]
  <2>1. ASSUME NEW k \in 0 .. Last, k \in r[1] .. r[2] PROVE act[r].out[k - r[1] + 1] \in Values
    <3>1. k - r[1] + 1 \in 1 .. Len(act[r].out)
      BY <1>2, <2>1
    <3> QED BY <1>2, <3>1, ElementOfSeq
  <2>2. \A k \in 0 .. Last : array[k] \in Values
    BY <1>2
  <2> QED BY <1>2, <2>1, <2>2 DEF MergeEnd
<1> QED BY <1>2, <1>4, <1>5, <1>6, <1>7, <1>8, AdvanceStep

-----------------------------------------------------------------------------
LEMMA InvTypeOK == Inv => TypeOK
<1> SUFFICES ASSUME Inv PROVE TypeOK
  OBVIOUS
<1>1. DataOK
  BY DEF Inv, Typed
<1>2. ASSUME NEW r \in DOMAIN act
      PROVE  /\ r[1] \in 0 .. r[2] /\ r[2] \in 0 .. Root[2]
             /\ act[r].pc \in Places
             /\ act[r].pc \in {"scan", "store"} => {act[r].i, act[r].j} \subseteq r[1] .. r[2]
             /\ act[r].pc \in {"compare", "take1"} => act[r].i \in r[1] .. r[2]
             /\ act[r].pc \in {"compare", "take2"} => act[r].j \in r[1] .. r[2]
             /\ act[r].out \in Seq(Values) /\ Len(act[r].out) <= r[2] - r[1] + 1
  <2>1. /\ Local(r, act[r]) /\ r[1] \in 0 .. Last /\ r[2] \in 0 .. Last /\ r[1] <= r[2]
        /\ Last \in Nat /\ act[r].pc \in Places /\ act[r].out \in Seq(Values)
    BY NodeFacts DEF Activity
  <2>2. CASE act[r].pc \in MergePlaces
    <3>1. /\ Mid(r) \in r[1] .. r[2] - 1
          /\ act[r].i \in r[1] .. Mid(r) + 1 /\ act[r].j \in Mid(r) + 1 .. r[2] + 1
          /\ act[r].pc \in {"compare", "take1"} => act[r].i <= Mid(r)
          /\ act[r].pc \in {"compare", "take2"} => act[r].j <= r[2]
      BY <2>2, MergeFacts
    <3> QED BY <2>1, <2>2, <3>1 DEF Local, Last, MergePlaces
  <2>3. CASE act[r].pc \notin MergePlaces
    BY <2>1, <2>3 DEF Local, Last, MergePlaces
  <2> QED BY <2>2, <2>3
<1> QED BY <1>1, <1>2 DEF TypeOK, DataOK

LEMMA InvStep == Inv /\ [Next]_vars => Inv'
<1> SUFFICES ASSUME Inv, [Next]_vars PROVE Inv'
  OBVIOUS
<1>1. CASE UNCHANGED vars
  <2>1. Typed'
    BY <1>1 DEF vars, Inv, Typed, DataOK, FJ, Ranges, Last, Root, Local, Where, Mid
  <2>2. /\ Nodes' = Nodes /\ \A s \in Nodes : Inside(s)' = Inside(s)
        /\ \A s : Part1(s)' = Part1(s) /\ Part2(s)' = Part2(s)
    BY <1>1 DEF vars, Nodes, Inside, Within, Part1, Part2, Mid, FJ, Root
  <2>3. Nest'
    BY <1>1, <2>2 DEF vars, Inv, Nest, Kept, Within, Apart, Before, Behind
  <2> QED BY <2>1, <2>3 DEF Inv
<1>2. ASSUME NEW r \in DOMAIN act, Step(r) PROVE Inv'
  BY <1>2, ComputeInv, JoinInv, SelectPassInv, ScanInv, StoreInv, CallRightInv, ReturnInv,
     MergeReadInv, CompareInv, TakeInv, MergeEndInv DEF Step
<1> QED BY <1>1, <1>2 DEF Next, SomeStep, Terminated

LEMMA InvHolds == Spec => []Inv
BY InitInv, InvStep, PTL DEF Spec

(* The indices that the programs use stay in the ranges of their activities*)
(* and of the array, for every array and every threshold.                  *)
THEOREM TypeCorrect == Spec => []TypeOK
BY InvHolds, InvTypeOK, PTL

(* Whatever the schedule, no two tasks, or calls of quicksort(), work on   *)
(* ranges with a common element at the same time: the fork-join programs   *)
(* and the two sorting threads of MSApp need no lock.                      *)
THEOREM RangesStayApart == Spec => []NoOverlap
BY InvHolds, NestNoOverlap, PTL
=============================================================================
