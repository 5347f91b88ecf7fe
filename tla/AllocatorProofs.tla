-------------------------- MODULE AllocatorProofs ---------------------------
(***************************************************************************)
(* The allocator for every size of the memory and every set of commands.   *)
(*                                                                         *)
(* Types, Tiling and Coalesced are one statement about the list (Tiles),   *)
(* and it is inductive.  A request and a release replace some blocks by    *)
(* one (Joined), and only the neighbours of that one are argued about.     *)
(* compact() passes over the list with a function that is defined by       *)
(* recursion.  TurnByTurn justifies the recursion: there is a run of every *)
(* length, because the shortest length without one could be reached from a *)
(* shorter one.  The loop's invariant (Compacting) then relates the place  *)
(* of the next process to the place in the old list, which is further up   *)
(* by the size of the holes passed so far.                                 *)
(*                                                                         *)
(* For the refinement, the blocks cover the memory (Cover) and are apart   *)
(* (Apart), so that the holes of the list are the holes of the memory      *)
(* (HoleIsHole, HoleIsBlock).  The scans keep the best hole passed so far  *)
(* (BestYet); what best_fit() starts with can only make it fail.  The      *)
(* three commands change the set of regions as they should (DividedRegions,*)
(* FreedRegions, Sliding).                                                 *)
(***************************************************************************)
EXTENDS Allocator, FiniteSetTheorems, SequenceTheorems, WellFoundedInduction, TLAPS

Block == [id : Ids \cup {Unused}, start : Nat, end : Int, size : Nat]

Inv == TypeOK /\ Tiling /\ Coalesced

(* What the list s is: Tiling and Coalesced of it.                         *)
Tiles(s) ==
  /\ s \in Seq(Block) /\ Len(s) > 0
  /\ s[1].start = 0 /\ s[Len(s)].end = MAX - 1
  /\ \A i \in 1 .. Len(s) :
       /\ s[i].size = s[i].end - s[i].start + 1
       /\ s[i].size = 0 => i = Len(s) /\ s[i].id = Unused
       /\ i > 1 => s[i].start = s[i - 1].end + 1
  /\ \A i \in 2 .. Len(s) : ~(s[i - 1].id = Unused /\ s[i].id = Unused)

ListOK == Tiles(blocks)

LEMMA ListShape ==
  ASSUME NEW s \in Seq(Block)
  PROVE  DOMAIN s = 1 .. Len(s) /\ Len(s) \in Nat /\ (s # << >> <=> Len(s) > 0)
<1>1. DOMAIN s = 1 .. Len(s) /\ Len(s) \in Nat
  BY LenProperties
<1>2. s = << >> <=> Len(s) = 0
  BY EmptySeq
<1>3. \A m \in Nat : m > 0 <=> m # 0
  OBVIOUS
<1> QED BY <1>1, <1>2, <1>3

LEMMA InvIsList ==
  ASSUME status \in {"running", "exited", "dangling"},
         reply \in {"none", "placed", "refused", "invalid", "released", "unknown"}
  PROVE  Inv <=> ListOK
<1>1. Inv => ListOK
  BY ListShape DEF Inv, ListOK, Tiles, TypeOK, Tiling, Coalesced, IsHole, Last, Block
<1>2. ListOK => Inv
  BY ListShape DEF Inv, ListOK, Tiles, TypeOK, Tiling, Coalesced, IsHole, Last, Block
<1> QED BY <1>1, <1>2

LEMMA ListGivesInv ==
  ASSUME ListOK',
         status' \in {"running", "exited", "dangling"},
         reply' \in {"none", "placed", "refused", "invalid", "released", "unknown"}
  PROVE  Inv'
BY ListShape DEF Inv, ListOK, Tiles, TypeOK, Tiling, Coalesced, IsHole, Last, Block

LEMMA InitInv == Init => Inv
<1> SUFFICES ASSUME Init PROVE Inv
  OBVIOUS
<1>1. MAX \in Nat /\ MAX > 0
  BY AllocatorAssumption
<1> DEFINE b == [id |-> Unused, start |-> 0, end |-> MAX - 1, size |-> MAX]
<1>2. b \in Block
  BY <1>1 DEF Block
<1>3. blocks = <<b>>
  BY DEF Init
<1>4. /\ blocks \in Seq(Block) /\ Len(blocks) = 1 /\ blocks[1] = b
  BY <1>2, <1>3
<1>5. b.start = 0 /\ b.end = MAX - 1 /\ b.size = MAX /\ b.id = Unused
  OBVIOUS
<1> HIDE DEF b
<1>6. ListOK
  BY <1>1, <1>4, <1>5 DEF ListOK, Tiles
<1> QED BY <1>6, InvIsList DEF Init

-----------------------------------------------------------------------------
(* Blocks first to last of a list, or none, give way to one.               *)
Joined(s, first, last, h) == SubSeq(s, 1, first - 1) \o <<h>> \o SubSeq(s, last + 1, Len(s))

IsJoined(new, S, s, first, last, h) ==
  /\ new \in Seq(S) /\ Len(new) = Len(s) - (last - first)
  /\ \A i \in 1 .. Len(s) - (last - first) :
       new[i] = IF i < first THEN s[i] ELSE IF i = first THEN h ELSE s[i + (last - first)]

LEMMA JoinedProperties ==
  ASSUME NEW S, NEW s \in Seq(S), NEW h \in S,
         NEW first \in Nat, NEW last \in Nat, 0 < first, first <= last + 1, last <= Len(s)
  PROVE  IsJoined(Joined(s, first, last, h), S, s, first, last, h)
<1> DEFINE front == SubSeq(s, 1, first - 1)
           rest == SubSeq(s, last + 1, Len(s))
<1>1. Len(s) \in Nat
  BY LenProperties
<1>2. /\ front \in Seq(S) /\ Len(front) = first - 1
      /\ \A k \in 1 .. first - 1 : front[k] = s[k]
  BY <1>1
<1>3. /\ rest \in Seq(S) /\ Len(rest) = Len(s) - last
      /\ \A k \in 1 .. Len(s) - last : rest[k] = s[last + k]
  BY <1>1
<1>4. <<h>> \in Seq(S) /\ Len(<<h>>) = 1 /\ <<h>>[1] = h
  OBVIOUS
<1>5. PICK a : a = front \o <<h>>
  OBVIOUS
<1>6. /\ a \in Seq(S) /\ Len(a) = first
      /\ \A k \in 1 .. first : a[k] = IF k < first THEN s[k] ELSE h
  <2> HIDE DEF front
  <2>1. /\ a \in Seq(S) /\ Len(a) = Len(front) + 1
        /\ \A k \in 1 .. Len(front) + 1 : a[k] = IF k <= Len(front) THEN front[k] ELSE <<h>>[k - Len(front)]
    BY <1>2, <1>4, <1>5, ConcatProperties
  <2>2. Len(front) + 1 = first
    BY <1>1, <1>2
  <2>3. ASSUME NEW k \in 1 .. first PROVE a[k] = IF k < first THEN s[k] ELSE h
    <3>1. CASE k < first
      BY <1>1, <1>2, <2>1, <2>2, <3>1
    <3>2. CASE k = first
      <4>1. k - Len(front) = 1 /\ ~(k <= Len(front))
        BY <1>1, <1>2, <3>2
      <4> QED BY <1>4, <2>1, <2>2, <3>2, <4>1
    <3> QED BY <3>1, <3>2
  <2> QED BY <2>1, <2>2, <2>3
<1>7. PICK new : new = a \o rest
  OBVIOUS
<1> HIDE DEF front, rest
<1>8. /\ new \in Seq(S) /\ Len(new) = first + (Len(s) - last)
      /\ \A k \in 1 .. first + (Len(s) - last) : new[k] = IF k <= first THEN a[k] ELSE rest[k - first]
  <2>1. /\ a \o rest \in Seq(S) /\ Len(a \o rest) = Len(a) + Len(rest)
        /\ \A k \in 1 .. Len(a) + Len(rest) :
             (a \o rest)[k] = IF k <= Len(a) THEN a[k] ELSE rest[k - Len(a)]
    BY <1>3, <1>6, ConcatProperties
  <2>2. Len(a) = first /\ Len(rest) = Len(s) - last
    BY <1>3, <1>6
  <2> QED BY <1>7, <2>1, <2>2
<1>9. first \in Nat /\ last \in Nat /\ first - 1 <= last /\ last <= Len(s) /\ first \in 1 .. Len(s) + 1
  BY <1>1
<1>10. ASSUME NEW i \in 1 .. first + (Len(s) - last)
      PROVE  new[i] = IF i < first THEN s[i] ELSE IF i = first THEN h ELSE s[i + (last - first)]
  <2>1. CASE i <= first
    BY <1>1, <1>6, <1>8, <1>9, <2>1
  <2>2. CASE ~(i <= first)
    <3>1. i - first \in 1 .. Len(s) - last /\ last + (i - first) = i + (last - first)
      BY <1>1, <1>8, <1>9, <2>2
    <3>2. new[i] = rest[i - first]
      BY <1>8, <2>2
    <3>3. rest[i - first] = s[last + (i - first)]
      BY <1>3, <3>1
    <3>4. ~(i < first) /\ i # first
      BY <1>9, <2>2
    <3> QED BY <3>1, <3>2, <3>3, <3>4
  <2> QED BY <2>1, <2>2
<1>11. Joined(s, first, last, h) = new
  BY <1>5, <1>7 DEF Joined, front, rest
<1>12. first + (Len(s) - last) = Len(s) - (last - first)
  BY <1>1, <1>9
<1> QED BY <1>8, <1>10, <1>11, <1>12 DEF IsJoined

(* release(): a block and the holes on either side become a hole.          *)
IsFreed(new, k) ==
  \E f \in {k - 1, k}, d \in Nat, h \in Block :
    /\ f \in 1 .. Len(blocks) - d /\ f + d \in {k, k + 1} /\ h.id = Unused
    /\ \A j \in f .. f + d : j # k => IsHole(j)
    /\ Len(new) = Len(blocks) - d
    /\ \A i \in 1 .. Len(blocks) - d :
         new[i] = IF i < f THEN blocks[i] ELSE IF i = f THEN h ELSE blocks[i + d]

LEMMA FreedTiles ==
  ASSUME ListOK, NEW k \in DOMAIN blocks
  PROVE  Tiles(Freed(k)) /\ IsFreed(Freed(k), k)
<1> DEFINE first == IF k > 1 /\ IsHole(k - 1) THEN k - 1 ELSE k
           last == IF k < Len(blocks) /\ IsHole(k + 1) THEN k + 1 ELSE k
           hole == [id |-> Unused, start |-> blocks[first].start, end |-> blocks[last].end,
                    size |-> blocks[k].size + (IF first < k THEN blocks[first].size ELSE 0)
                                            + (IF k < last THEN blocks[last].size ELSE 0)]
<1>1. PICK s : s = blocks
  OBVIOUS
<1>2. PICK n : n = Len(s)
  OBVIOUS
<1>3. PICK h : h = hole
  OBVIOUS
<1>4. PICK f : f = first
  OBVIOUS
<1>5. PICK l : l = last
  OBVIOUS
<1>6. PICK new : new = Freed(k)
  OBVIOUS
<1>7. /\ s \in Seq(Block) /\ n \in Nat /\ n > 0 /\ k \in 1 .. n
      /\ \A i \in 1 .. n : s[i] \in Block
  BY <1>1, <1>2, LenProperties, ElementOfSeq DEF ListOK, Tiles
<1>8. /\ f \in {k, k - 1} /\ f \in 1 .. n /\ l \in {k, k + 1} /\ l \in f .. n
      /\ f = k - 1 => s[k - 1].id = Unused
      /\ f = k => k = 1 \/ s[k - 1].id # Unused
      /\ l = k + 1 => s[k + 1].id = Unused
      /\ l = k => k = n \/ s[k + 1].id # Unused
  BY <1>1, <1>2, <1>4, <1>5, <1>7 DEF IsHole
<1>8a. /\ f \in Nat /\ l \in Nat /\ k \in Nat /\ f > 0 /\ f <= k /\ k <= l /\ l <= n
       /\ (f < k => f = k - 1) /\ (k < l => l = k + 1)
  BY <1>7, <1>8
<1>9. new = Joined(s, f, l, h)
  BY <1>1, <1>3, <1>4, <1>5, <1>6 DEF Freed, Joined
<1>10. h = [id |-> Unused, start |-> s[f].start, end |-> s[l].end,
            size |-> s[k].size + (IF f < k THEN s[f].size ELSE 0) + (IF k < l THEN s[l].size ELSE 0)]
  BY <1>1, <1>3, <1>4, <1>5
<1> HIDE DEF first, last, hole
<1>11. \A i \in 1 .. n : s[i].start \in Nat /\ s[i].end \in Int /\ s[i].size \in Nat
  BY <1>7 DEF Block
<1>12. /\ s[1].start = 0 /\ s[n].end = MAX - 1
       /\ \A i \in 1 .. n :
            /\ s[i].size = s[i].end - s[i].start + 1
            /\ s[i].size = 0 => i = n /\ s[i].id = Unused
            /\ i > 1 => s[i].start = s[i - 1].end + 1
       /\ \A i \in 2 .. n : ~(s[i - 1].id = Unused /\ s[i].id = Unused)
  BY <1>1, <1>2 DEF ListOK, Tiles
<1>13. /\ h.id = Unused /\ h.start = s[f].start /\ h.end = s[l].end
       /\ h.size = s[k].size + (IF f < k THEN s[f].size ELSE 0) + (IF k < l THEN s[l].size ELSE 0)
  BY <1>10
<1>14. h.size \in Nat /\ h.size = h.end - h.start + 1 /\ (h.size = 0 => f = n /\ l = n)
  <2>1. /\ s[f].start \in Nat /\ s[f].size \in Nat /\ s[f].end \in Int
        /\ s[l].start \in Nat /\ s[l].size \in Nat /\ s[l].end \in Int
        /\ s[k].start \in Nat /\ s[k].size \in Nat /\ s[k].end \in Int
    BY <1>7, <1>8a, <1>11
  <2>2. /\ s[f].size = s[f].end - s[f].start + 1
        /\ s[l].size = s[l].end - s[l].start + 1
        /\ s[k].size = s[k].end - s[k].start + 1
    BY <1>7, <1>8a, <1>12
  <2>3. f < k => f = k - 1 /\ s[k].start = s[f].end + 1 /\ s[f].size # 0
    BY <1>7, <1>8a, <1>12
  <2>4. k < l => l = k + 1 /\ s[l].start = s[k].end + 1 /\ s[k].size # 0
    BY <1>7, <1>8a, <1>12
  <2>5. s[k].size = 0 => k = n
    BY <1>7, <1>12
  <2>6. (~(f < k) => f = k) /\ (~(k < l) => l = k)
    BY <1>8a
  <2>7. h.end \in Int /\ h.start \in Nat
    BY <1>13, <2>1
  <2>8. CASE f < k /\ k < l
    <3>1. h.size = s[k].size + s[f].size + s[l].size
      BY <1>13, <2>8
    <3> QED BY <1>13, <2>1, <2>2, <2>3, <2>4, <2>8, <3>1
  <2>9. CASE f < k /\ ~(k < l)
    <3>1. h.size = s[k].size + s[f].size /\ l = k
      BY <1>13, <2>1, <2>6, <2>9
    <3> QED BY <1>13, <2>1, <2>2, <2>3, <2>9, <3>1
  <2>10. CASE ~(f < k) /\ k < l
    <3>1. h.size = s[k].size + s[l].size /\ f = k
      BY <1>13, <2>1, <2>6, <2>10
    <3> QED BY <1>13, <2>1, <2>2, <2>4, <2>10, <3>1
  <2>11. CASE ~(f < k) /\ ~(k < l)
    <3>1. h.size = s[k].size /\ f = k /\ l = k
      BY <1>13, <2>1, <2>6, <2>11
    <3> QED BY <1>13, <2>1, <2>2, <2>5, <3>1
  <2> QED BY <2>8, <2>9, <2>10, <2>11
<1>15. h \in Block
  BY <1>8, <1>10, <1>11, <1>14 DEF Block
<1>16. PICK d \in Nat : d = l - f
  BY <1>8a
<1>17. /\ new \in Seq(Block) /\ Len(new) = n - d
       /\ \A i \in 1 .. n - d :
            new[i] = IF i < f THEN s[i] ELSE IF i = f THEN h ELSE s[i + d]
  <2>1. f \in Nat /\ l \in Nat /\ 0 < f /\ f <= l + 1 /\ l <= Len(s)
    BY <1>2, <1>7, <1>8a
  <2>2. s \in Seq(Block) /\ h \in Block
    BY <1>7, <1>15
  <2>3. IsJoined(new, Block, s, f, l, h)
    BY <1>9, <2>1, <2>2, JoinedProperties
  <2> QED BY <1>2, <1>16, <2>3 DEF IsJoined
<1>18. f + d = l /\ f <= n - d /\ f \in Nat /\ l \in Nat /\ f > 0
  BY <1>7, <1>8a, <1>16
<1>19. new[1].start = 0
  <2>1. 1 \in 1 .. n - d
    BY <1>7, <1>16, <1>18
  <2>2. new[1] = IF 1 < f THEN s[1] ELSE IF 1 = f THEN h ELSE s[1 + d]
    BY <1>17, <2>1
  <2>3. 1 < f \/ 1 = f
    BY <1>18
  <2> QED BY <1>12, <1>13, <2>2, <2>3
<1>20. new[n - d].end = MAX - 1
  <2>1. CASE f = n - d
    BY <1>7, <1>12, <1>13, <1>17, <1>18, <2>1
  <2>2. CASE f # n - d
    <3>1. n - d > f /\ n - d \in 1 .. n - d /\ (n - d) + d = n
      BY <1>7, <1>16, <1>18, <2>2
    <3>2. new[n - d] = s[n]
      BY <1>17, <1>18, <3>1
    <3> QED BY <1>12, <3>2
  <2> QED BY <2>1, <2>2
<1>21. ASSUME NEW i \in 1 .. n - d
       PROVE  /\ new[i].size = new[i].end - new[i].start + 1
              /\ new[i].size = 0 => i = n - d /\ new[i].id = Unused
  <2>1. CASE i < f
    <3>1. i \in 1 .. n /\ i # n /\ new[i] = s[i]
      BY <1>7, <1>17, <1>18, <2>1
    <3> QED BY <1>12, <3>1
  <2>2. CASE i = f
    BY <1>13, <1>14, <1>16, <1>17, <1>18, <2>2
  <2>3. CASE i > f
    <3>1. i + d \in 1 .. n /\ new[i] = s[i + d] /\ (i + d = n => i = n - d)
      BY <1>7, <1>17, <1>18, <2>3
    <3> QED BY <1>12, <3>1
  <2> QED BY <1>18, <2>1, <2>2, <2>3
<1>22. ASSUME NEW i \in 2 .. n - d
       PROVE  /\ new[i].start = new[i - 1].end + 1
              /\ ~(new[i - 1].id = Unused /\ new[i].id = Unused)
  <2>1. i - 1 \in 1 .. n - d /\ i \in 1 .. n - d
    BY <1>7, <1>16
  <2>2. CASE i < f
    <3>1. i \in 2 .. n /\ new[i] = s[i] /\ new[i - 1] = s[i - 1]
      BY <1>7, <1>17, <1>18, <2>1, <2>2
    <3> QED BY <1>12, <3>1
  <2>3. CASE i = f
    <3>1. f \in 2 .. n /\ new[i] = h /\ new[i - 1] = s[f - 1]
      BY <1>7, <1>17, <1>18, <2>1, <2>3
    <3>2. s[f].start = s[f - 1].end + 1
      BY <1>12, <3>1
    <3>3. s[f - 1].id # Unused
      <4>1. CASE f = k
        BY <1>7, <1>8, <1>8a, <3>1, <4>1
      <4>2. CASE f = k - 1
        BY <1>8, <1>12, <3>1, <4>2
      <4> QED BY <1>8, <4>1, <4>2
    <3> QED BY <1>13, <3>1, <3>2, <3>3
  <2>4. CASE i = f + 1
    <3>1. l + 1 \in 2 .. n /\ new[i] = s[l + 1] /\ new[i - 1] = h
      <4>1. i + d = l + 1 /\ i - 1 = f /\ ~(i < f) /\ i # f /\ l + 1 \in 2 .. n
        BY <1>7, <1>16, <1>18, <2>1, <2>4
      <4> QED BY <1>17, <2>1, <4>1
    <3>2. s[l + 1].start = s[(l + 1) - 1].end + 1 /\ (l + 1) - 1 = l
      BY <1>12, <1>18, <3>1
    <3>3. s[l + 1].id # Unused
      <4>1. CASE l = k
        BY <1>7, <1>8, <1>8a, <3>1, <4>1
      <4>2. CASE l = k + 1
        BY <1>8, <1>12, <3>1, <3>2, <4>2
      <4> QED BY <1>8, <4>1, <4>2
    <3> QED BY <1>13, <3>1, <3>2, <3>3
  <2>5. CASE i > f + 1
    <3>1. i + d \in 2 .. n /\ new[i] = s[i + d] /\ new[i - 1] = s[(i + d) - 1]
      <4>1. /\ i + d \in 2 .. n /\ ~(i < f) /\ i # f /\ ~(i - 1 < f) /\ i - 1 # f
            /\ (i - 1) + d = (i + d) - 1
        BY <1>7, <1>16, <1>18, <2>1, <2>5
      <4> QED BY <1>17, <2>1, <4>1
    <3> QED BY <1>12, <3>1
  <2> QED BY <1>18, <2>1, <2>2, <2>3, <2>4, <2>5
<1>23. Tiles(new)
  BY <1>7, <1>17, <1>18, <1>19, <1>20, <1>21, <1>22 DEF Tiles
<1>24. IsFreed(new, k)
  <2>1. \A j \in f .. l : j = k \/ (j = k - 1 /\ f = k - 1) \/ (j = k + 1 /\ l = k + 1)
    BY <1>8a
  <2>2. \A j \in f .. f + d : j # k => IsHole(j)
    BY <1>1, <1>8, <1>18, <2>1 DEF IsHole
  <2>3. f \in {k - 1, k} /\ f \in 1 .. n - d /\ f + d \in {k, k + 1}
    BY <1>7, <1>8, <1>16, <1>18
  <2>4. /\ Len(new) = Len(blocks) - d
        /\ \A i \in 1 .. Len(blocks) - d :
             new[i] = IF i < f THEN blocks[i] ELSE IF i = f THEN h ELSE blocks[i + d]
    BY <1>1, <1>2, <1>17
  <2> QED BY <1>1, <1>2, <1>13, <1>15, <1>16, <2>2, <2>3, <2>4 DEF IsFreed
<1> QED BY <1>6, <1>23, <1>24

(* first_fit(), best_fit(), worst_fit(): a hole becomes a process, or a    *)
(* process and a hole.                                                     *)
IsDivided(new, k, id, n) ==
  LET b == blocks[k]
      N == Len(blocks)
      rest == [id |-> Unused, start |-> b.start + n, end |-> b.end, size |-> b.size - n]
  IN /\ new \in Seq(Block)
     /\ IF b.size = n
          THEN /\ Len(new) = N
               /\ \A i \in 1 .. N : new[i] = IF i = k THEN [b EXCEPT !.id = id] ELSE blocks[i]
          ELSE /\ Len(new) = N + 1
               /\ \A i \in 1 .. N + 1 :
                    new[i] = IF i < k THEN blocks[i]
                             ELSE IF i = k THEN [id |-> id, start |-> b.start, end |-> b.start + n - 1, size |-> n]
                             ELSE IF i = k + 1 THEN rest
                             ELSE blocks[i - 1]

LEMMA DividedEntries ==
  ASSUME ListOK, NEW k \in DOMAIN blocks, IsHole(k), NEW id \in Ids, id # Unused,
         NEW n \in Nat, n > 0, n <= blocks[k].size
  PROVE  IsDivided(Divided(k, id, n), k, id, n)
<1>1. PICK s : s = blocks
  OBVIOUS
<1>2. PICK N : N = Len(s)
  OBVIOUS
<1>3. PICK b : b = s[k]
  OBVIOUS
<1>4. PICK new : new = Divided(k, id, n)
  OBVIOUS
<1>5. /\ s \in Seq(Block) /\ N \in Nat /\ N > 0 /\ k \in 1 .. N
      /\ \A i \in 1 .. N : s[i] \in Block
  BY <1>1, <1>2, LenProperties, ElementOfSeq DEF ListOK, Tiles
<1>6. \A i \in 1 .. N : s[i].start \in Nat /\ s[i].end \in Int /\ s[i].size \in Nat
  BY <1>5 DEF Block
<1>7. s[k].size = s[k].end - s[k].start + 1
  BY <1>1, <1>2, <1>5 DEF ListOK, Tiles
<1>8. /\ b \in Block /\ b.start \in Nat /\ b.end \in Int /\ b.size \in Nat
      /\ b.size = b.end - b.start + 1 /\ n <= b.size /\ b.id = Unused
  BY <1>1, <1>3, <1>5, <1>6, <1>7 DEF IsHole
<1>9. CASE b.size = n
  <2>1. new = [s EXCEPT ![k].id = id]
    BY <1>1, <1>3, <1>4, <1>9 DEF Divided
  <2>2. PICK c : c = [b EXCEPT !.id = id]
    OBVIOUS
  <2>3. /\ c \in Block /\ c.start = b.start /\ c.end = b.end /\ c.size = b.size /\ c.id = id
    BY <1>8, <2>2 DEF Block
  <2>4. /\ new \in Seq(Block) /\ Len(new) = N
        /\ \A i \in 1 .. N : new[i] = IF i = k THEN c ELSE s[i]
    <3>1. new = [s EXCEPT ![k] = c]
      BY <1>3, <2>1, <2>2
    <3> QED BY <1>2, <1>5, <2>3, <3>1, ExceptSeq
  <2> QED BY <1>1, <1>2, <1>3, <1>4, <1>9, <2>2, <2>4 DEF IsDivided
<1>10. CASE b.size # n
  <2>1. PICK c : c = [id |-> id, start |-> b.start, end |-> b.start + n - 1, size |-> n]
    OBVIOUS
  <2>2. PICK h : h = [id |-> Unused, start |-> b.start + n, end |-> b.end, size |-> b.size - n]
    OBVIOUS
  <2>3. PICK s1 : s1 = [s EXCEPT ![k] = c]
    OBVIOUS
  <2>4. /\ c \in Block /\ c.start = b.start /\ c.end = b.start + n - 1 /\ c.size = n /\ c.id = id
    BY <1>8, <2>1 DEF Block
  <2>5. /\ h \in Block /\ h.start = b.start + n /\ h.end = b.end /\ h.size = b.size - n /\ h.id = Unused
        /\ h.size > 0 /\ h.size = h.end - h.start + 1
    <3>1. b.size - n \in Nat /\ b.size - n > 0 /\ b.start + n \in Nat
      BY <1>8, <1>10
    <3> QED BY <1>8, <2>2, <3>1 DEF Block
  <2>6. /\ s1 \in Seq(Block) /\ Len(s1) = N
        /\ \A i \in 1 .. N : s1[i] = IF i = k THEN c ELSE s[i]
    BY <1>2, <1>5, <2>3, <2>4, ExceptSeq
  <2>7. new = Joined(s1, k + 1, k, h)
    <3>1. new = InsertAt(s1, k + 1, h)
      BY <1>1, <1>3, <1>4, <1>10, <2>1, <2>2, <2>3 DEF Divided
    <3> QED BY <3>1 DEF InsertAt, Joined
  <2>8. /\ new \in Seq(Block) /\ Len(new) = N + 1
        /\ \A i \in 1 .. N + 1 : new[i] = IF i < k + 1 THEN s1[i] ELSE IF i = k + 1 THEN h ELSE s1[i - 1]
    <3>1. k + 1 \in Nat /\ k \in Nat /\ 0 < k + 1 /\ k + 1 <= k + 1 /\ k <= Len(s1)
      BY <1>5, <2>6
    <3>2. IsJoined(new, Block, s1, k + 1, k, h)
      BY <2>5, <2>6, <2>7, <3>1, JoinedProperties
    <3>3. Len(s1) - (k - (k + 1)) = N + 1 /\ \A i \in 1 .. N + 1 : i + (k - (k + 1)) = i - 1
      BY <1>5, <2>6
    <3> QED BY <3>2, <3>3 DEF IsJoined
  <2>9. \A i \in 1 .. N + 1 :
          new[i] = IF i < k THEN s[i] ELSE IF i = k THEN c ELSE IF i = k + 1 THEN h ELSE s[i - 1]
    <3>1. ASSUME NEW i \in 1 .. N + 1, i < k PROVE i \in 1 .. N /\ i < k + 1 /\ i # k
      BY <1>5, <3>1
    <3>2. ASSUME NEW i \in 1 .. N + 1, ~(i < k), i # k, i # k + 1
          PROVE i - 1 \in 1 .. N /\ ~(i < k + 1) /\ i - 1 # k
      BY <1>5, <3>2
    <3>3. k < k + 1 /\ k \in Int
      BY <1>5
    <3> QED BY <1>5, <2>6, <2>8, <3>1, <3>2, <3>3
  <2> QED BY <1>1, <1>2, <1>3, <1>4, <1>10, <2>1, <2>2, <2>8, <2>9 DEF IsDivided
<1> QED BY <1>9, <1>10

LEMMA DividedTiles ==
  ASSUME ListOK, NEW k \in DOMAIN blocks, IsHole(k), NEW id \in Ids, id # Unused,
         NEW n \in Nat, n > 0, n <= blocks[k].size
  PROVE  Tiles(Divided(k, id, n))
<1>1. PICK s : s = blocks
  OBVIOUS
<1>2. PICK N : N = Len(s)
  OBVIOUS
<1>3. PICK b : b = s[k]
  OBVIOUS
<1>4. PICK new : new = Divided(k, id, n)
  OBVIOUS
<1>5. /\ s \in Seq(Block) /\ N \in Nat /\ N > 0 /\ k \in 1 .. N
      /\ \A i \in 1 .. N : s[i] \in Block
  BY <1>1, <1>2, LenProperties, ElementOfSeq DEF ListOK, Tiles
<1>6. \A i \in 1 .. N : s[i].start \in Nat /\ s[i].end \in Int /\ s[i].size \in Nat
  BY <1>5 DEF Block
<1>7. /\ s[1].start = 0 /\ s[N].end = MAX - 1
      /\ \A i \in 1 .. N :
           /\ s[i].size = s[i].end - s[i].start + 1
           /\ s[i].size = 0 => i = N /\ s[i].id = Unused
           /\ i > 1 => s[i].start = s[i - 1].end + 1
      /\ \A i \in 2 .. N : ~(s[i - 1].id = Unused /\ s[i].id = Unused)
  BY <1>1, <1>2 DEF ListOK, Tiles
<1>8. /\ b \in Block /\ b.start \in Nat /\ b.end \in Int /\ b.size \in Nat
      /\ b.size = b.end - b.start + 1 /\ n <= b.size /\ b.id = Unused
  BY <1>1, <1>3, <1>5, <1>6, <1>7 DEF IsHole
<1>9. CASE b.size = n
  <2>2. PICK c : c = [b EXCEPT !.id = id]
    OBVIOUS
  <2>3. /\ c \in Block /\ c.start = b.start /\ c.end = b.end /\ c.size = b.size /\ c.id = id
    BY <1>8, <2>2 DEF Block
  <2>4. /\ new \in Seq(Block) /\ Len(new) = N
        /\ \A i \in 1 .. N : new[i] = IF i = k THEN c ELSE s[i]
    <3>1. IsDivided(new, k, id, n)
      BY <1>4, DividedEntries
    <3> QED BY <1>1, <1>2, <1>3, <1>9, <2>2, <3>1 DEF IsDivided
  <2>5. /\ new[1].start = 0 /\ new[N].end = MAX - 1
        /\ \A i \in 1 .. N :
             /\ new[i].size = new[i].end - new[i].start + 1
             /\ new[i].size = 0 => i = N /\ new[i].id = Unused
    <3>1. \A i \in 1 .. N : new[i].start = s[i].start /\ new[i].end = s[i].end /\ new[i].size = s[i].size
      BY <1>3, <2>3, <2>4
    <3>2. 1 \in 1 .. N /\ N \in 1 .. N
      BY <1>5
    <3>3. ASSUME NEW i \in 1 .. N, new[i].size = 0 PROVE i = N /\ new[i].id = Unused
      BY <1>7, <1>9, <2>3, <2>4, <3>1, <3>3
    <3> QED BY <1>7, <3>1, <3>2, <3>3
  <2>6. ASSUME NEW i \in 2 .. N
        PROVE  /\ new[i].start = new[i - 1].end + 1
               /\ ~(new[i - 1].id = Unused /\ new[i].id = Unused)
    <3>1. i \in 1 .. N /\ i - 1 \in 1 .. N /\ i > 1
      BY <1>5
    <3>2. /\ new[i].start = s[i].start /\ new[i - 1].end = s[i - 1].end
          /\ new[i].id \in {s[i].id, id} /\ new[i - 1].id \in {s[i - 1].id, id}
      BY <1>3, <2>3, <2>4, <3>1
    <3> QED BY <1>7, <3>1, <3>2
  <2> QED BY <1>4, <1>5, <2>4, <2>5, <2>6 DEF Tiles
<1>10. CASE b.size # n
  <2>1. PICK c : c = [id |-> id, start |-> b.start, end |-> b.start + n - 1, size |-> n]
    OBVIOUS
  <2>2. PICK h : h = [id |-> Unused, start |-> b.start + n, end |-> b.end, size |-> b.size - n]
    OBVIOUS
  <2>4. /\ c \in Block /\ c.start = b.start /\ c.end = b.start + n - 1 /\ c.size = n /\ c.id = id
    BY <1>8, <2>1 DEF Block
  <2>5. /\ h \in Block /\ h.start = b.start + n /\ h.end = b.end /\ h.size = b.size - n /\ h.id = Unused
        /\ h.size > 0 /\ h.size = h.end - h.start + 1
    <3>1. b.size - n \in Nat /\ b.size - n > 0 /\ b.start + n \in Nat
      BY <1>8, <1>10
    <3> QED BY <1>8, <2>2, <3>1 DEF Block
  <2>8. /\ new \in Seq(Block) /\ Len(new) = N + 1
        /\ \A i \in 1 .. N + 1 :
             new[i] = IF i < k THEN s[i] ELSE IF i = k THEN c ELSE IF i = k + 1 THEN h ELSE s[i - 1]
    <3>1. IsDivided(new, k, id, n)
      BY <1>4, DividedEntries
    <3> QED BY <1>1, <1>2, <1>3, <1>10, <2>1, <2>2, <3>1 DEF IsDivided
  <2>10. /\ new[1].start = 0 /\ new[N + 1].end = MAX - 1
    <3>1. 1 \in 1 .. N + 1 /\ N + 1 \in 1 .. N + 1 /\ (1 < k \/ 1 = k) /\ ~(N + 1 < k) /\ N + 1 # k /\ (N + 1) - 1 = N
      BY <1>5
    <3>2. new[1].start = 0
      <4>1. new[1] = s[1] \/ (1 = k /\ new[1] = c)
        BY <2>8, <3>1
      <4> QED BY <1>3, <1>7, <2>4, <4>1
    <3>3. new[N + 1].end = MAX - 1
      <4>1. new[N + 1] = s[N] \/ (N + 1 = k + 1 /\ new[N + 1] = h)
        BY <2>8, <3>1
      <4>2. N + 1 = k + 1 => N = k
        BY <1>5
      <4> QED BY <1>3, <1>7, <2>5, <4>1, <4>2
    <3> QED BY <3>2, <3>3
  <2>11. ASSUME NEW i \in 1 .. N + 1
         PROVE  /\ new[i].size = new[i].end - new[i].start + 1
                /\ new[i].size = 0 => i = N + 1 /\ new[i].id = Unused
    <3>1. CASE i < k
      <4>1. i \in 1 .. N /\ i # N /\ new[i] = s[i]
        BY <1>5, <2>8, <3>1
      <4> QED BY <1>7, <4>1
    <3>2. CASE i = k
      <4>1. new[i] = c
        BY <1>5, <2>8, <3>2
      <4>2. n = (b.start + n - 1) - b.start + 1 /\ n # 0
        BY <1>8
      <4> QED BY <2>4, <4>1, <4>2
    <3>3. CASE i = k + 1
      <4>1. new[i] = h
        BY <1>5, <2>8, <3>3
      <4> QED BY <2>5, <4>1
    <3>4. CASE i > k + 1
      <4>1. i - 1 \in 1 .. N /\ (i - 1 = N => i = N + 1) /\ ~(i < k) /\ i # k /\ i # k + 1
        BY <1>5, <3>4
      <4>2. new[i] = s[i - 1]
        BY <2>8, <4>1
      <4> QED BY <1>7, <4>1, <4>2
    <3> QED BY <1>5, <3>1, <3>2, <3>3, <3>4
  <2>12. ASSUME NEW i \in 2 .. N + 1
         PROVE  /\ new[i].start = new[i - 1].end + 1
                /\ ~(new[i - 1].id = Unused /\ new[i].id = Unused)
    <3>0. i \in 1 .. N + 1 /\ i - 1 \in 1 .. N + 1
      BY <1>5
    <3>1. CASE i < k
      <4>1. i \in 2 .. N /\ i \in 1 .. N /\ i > 1 /\ i - 1 < k
        BY <1>5, <3>1
      <4>2. new[i] = s[i] /\ new[i - 1] = s[i - 1]
        BY <2>8, <3>0, <3>1, <4>1
      <4> QED BY <1>7, <4>1, <4>2
    <3>2. CASE i = k
      <4>1. i \in 2 .. N /\ i \in 1 .. N /\ i > 1 /\ i - 1 < k /\ ~(i < k)
        BY <1>5, <3>2
      <4>2. new[i] = c /\ new[i - 1] = s[i - 1]
        BY <2>8, <3>0, <3>2, <4>1
      <4> QED BY <1>3, <1>7, <2>4, <3>2, <4>1, <4>2
    <3>3. CASE i = k + 1
      <4>1. i - 1 = k /\ ~(i < k) /\ i # k /\ ~(i - 1 < k)
        BY <1>5, <3>3
      <4>2. new[i] = h /\ new[i - 1] = c
        BY <2>8, <3>0, <3>3, <4>1
      <4>3. b.start + n = (b.start + n - 1) + 1
        BY <1>8
      <4> QED BY <2>4, <2>5, <4>2, <4>3
    <3>4. CASE i = k + 2
      <4>1. /\ i - 1 = k + 1 /\ ~(i < k) /\ i # k /\ i # k + 1 /\ ~(i - 1 < k) /\ i - 1 # k
            /\ k + 1 \in 2 .. N /\ k + 1 \in 1 .. N /\ k + 1 > 1 /\ (k + 1) - 1 = k
        BY <1>5, <3>4
      <4>2. new[i] = s[k + 1] /\ new[i - 1] = h
        BY <2>8, <3>0, <4>1
      <4>3. s[k + 1].start = s[k].end + 1 /\ s[k + 1].id # Unused
        BY <1>3, <1>7, <1>8, <4>1
      <4> QED BY <1>3, <2>5, <4>2, <4>3
    <3>5. CASE i > k + 2
      <4>1. /\ ~(i < k) /\ i # k /\ i # k + 1 /\ ~(i - 1 < k) /\ i - 1 # k /\ i - 1 # k + 1
            /\ i - 1 \in 2 .. N /\ i - 1 \in 1 .. N /\ i - 1 > 1
        BY <1>5, <3>5
      <4>2. new[i] = s[i - 1] /\ new[i - 1] = s[(i - 1) - 1]
        BY <2>8, <3>0, <4>1
      <4> QED BY <1>7, <4>1, <4>2
    <3> QED BY <1>5, <3>1, <3>2, <3>3, <3>4, <3>5
  <2> QED BY <1>4, <1>5, <2>8, <2>10, <2>11, <2>12 DEF Tiles
<1> QED BY <1>9, <1>10

-----------------------------------------------------------------------------
(* A property of numbers that fails somewhere fails first somewhere.       *)
LEMMA LeastOf ==
  ASSUME NEW S \in SUBSET Nat, S # {}
  PROVE  \E m \in S : \A k \in S : m <= k
<1>1. PICK m \in S : \A k \in S : ~ (<<k, m>> \in OpToRel(<, Nat))
  BY NatLessThanWellFounded, WFMin
<1>2. \A k \in S : ~ (k < m)
  BY <1>1 DEF OpToRel
<1>3. \A a, b \in Nat : ~ (a < b) => b <= a
  OBVIOUS
<1> QED BY <1>2, <1>3

(* The loop of compact() has a value after each of its turns.              *)
Start == [list |-> << >>, unused_space |-> 0]
Runs(f, n) == f = [k \in 0 .. n |-> IF k = 0 THEN Start ELSE Moved(f[k - 1], blocks[k])]

LEMMA RunExtends ==
  ASSUME NEW n \in Nat, NEW f, Runs(f, n)
  PROVE  \E g : Runs(g, n + 1)
<1> DEFINE g == [k \in 0 .. n + 1 |-> IF k = n + 1 THEN Moved(f[n], blocks[n + 1]) ELSE f[k]]
<1>1. ASSUME NEW k \in 0 .. n + 1
      PROVE  g[k] = IF k = 0 THEN Start ELSE Moved(g[k - 1], blocks[k])
  <2>1. CASE k = n + 1
    <3>1. k # 0 /\ k - 1 = n /\ n \in 0 .. n + 1 /\ n # n + 1
      BY <2>1
    <3>2. g[k - 1] = f[n]
      BY <3>1
    <3> QED BY <2>1, <3>1, <3>2
  <2>2. CASE k # n + 1
    <3>1. k \in 0 .. n
      BY <2>2
    <3>2. g[k] = f[k] /\ f[k] = IF k = 0 THEN Start ELSE Moved(f[k - 1], blocks[k])
      BY <2>2, <3>1 DEF Runs
    <3>3. k # 0 => g[k - 1] = f[k - 1]
      <4>1. k # 0 => k - 1 \in 0 .. n + 1 /\ k - 1 # n + 1
        BY <3>1
      <4> QED BY <4>1
    <3> QED BY <3>2, <3>3
  <2> QED BY <2>1, <2>2
<1>2. g = [k \in 0 .. n + 1 |-> g[k]]
  OBVIOUS
<1> HIDE DEF g
<1>3. Runs(g, n + 1)
  BY <1>1, <1>2 DEF Runs
<1> QED BY <1>3

LEMMA RunExists ==
  ASSUME NEW n \in Nat
  PROVE  \E f : Runs(f, n)
<1> DEFINE Bad == {m \in Nat : ~ \E f : Runs(f, m)}
<1>1. 0 \notin Bad
  <2> DEFINE f == [k \in 0 .. 0 |-> Start]
  <2>1. \A k \in 0 .. 0 : k = 0
    OBVIOUS
  <2>2. Runs(f, 0)
    BY <2>1 DEF Runs
  <2> QED BY <2>2
<1>2. ASSUME NEW m \in Nat, m \notin Bad PROVE m + 1 \notin Bad
  BY <1>2, RunExtends
<1>3. Bad = {}
  <2> SUFFICES ASSUME Bad # {} PROVE FALSE
    OBVIOUS
  <2>1. Bad \subseteq Nat
    OBVIOUS
  <2> HIDE DEF Bad
  <2>2. PICK m \in Bad : \A k \in Bad : m <= k
    BY <2>1, LeastOf
  <2>3. \A k \in Bad : ~ (k < m)
    BY <2>1, <2>2
  <2>4. PICK k \in Nat : m = k + 1
    <3>1. m \in Nat /\ m # 0
      BY <1>1, <2>1
    <3>2. m - 1 \in Nat /\ m = (m - 1) + 1
      BY <3>1
    <3> QED BY <3>2
  <2>5. k \notin Bad
    BY <2>3, <2>4
  <2> QED BY <1>2, <2>4, <2>5
<1> QED BY <1>3

LEMMA TurnByTurn ==
  ASSUME ListOK
  PROVE  /\ AfterTurn[0] = Start
         /\ \A k \in 1 .. Len(blocks) : AfterTurn[k] = Moved(AfterTurn[k - 1], blocks[k])
<1>1. Len(blocks) \in Nat
  BY LenProperties DEF ListOK, Tiles
<1>2. \E f : Runs(f, Len(blocks))
  BY <1>1, RunExists
<1>3. AfterTurn = CHOOSE f : Runs(f, Len(blocks))
  BY DEF AfterTurn, Runs, Start
<1>4. Runs(AfterTurn, Len(blocks))
  BY <1>2, <1>3
<1>5. PICK f : f = AfterTurn
  OBVIOUS
<1>6. \A k \in 0 .. Len(blocks) : f[k] = IF k = 0 THEN Start ELSE Moved(f[k - 1], blocks[k])
  BY <1>4, <1>5 DEF Runs
<1>7. 0 \in 0 .. Len(blocks) /\ \A k \in 1 .. Len(blocks) : k \in 0 .. Len(blocks) /\ k # 0
  BY <1>1
<1> QED BY <1>5, <1>6, <1>7

-----------------------------------------------------------------------------
(* The invariant of that loop: the processes of the first k blocks follow  *)
(* each other from address 0, and with the holes among these blocks they   *)
(* are as large as the k blocks.                                           *)
Place(s) == IF Len(s) = 0 THEN 0 ELSE s[Len(s)].end + 1
Position(k) == IF k = 0 THEN 0 ELSE blocks[k].end + 1

Packed(s) ==
  \A i \in 1 .. Len(s) :
    /\ s[i].id # Unused /\ s[i].size > 0
    /\ s[i].size = s[i].end - s[i].start + 1
    /\ s[i].start = IF i = 1 THEN 0 ELSE s[i - 1].end + 1

Compacting(k, done) ==
  /\ done \in [list : Seq(Block), unused_space : Nat]
  /\ Packed(done.list)
  /\ Place(done.list) \in Nat
  /\ Place(done.list) = Position(k) - done.unused_space
  /\ Len(done.list) = 0 => \A j \in 1 .. k : IsHole(j)

LEMMA BlockFacts ==
  ASSUME ListOK, NEW k \in 1 .. Len(blocks)
  PROVE  /\ blocks[k] \in Block /\ blocks[k].start \in Nat /\ blocks[k].end \in Int
         /\ blocks[k].size \in Nat
         /\ blocks[k].size = blocks[k].end - blocks[k].start + 1
         /\ blocks[k].size = 0 => IsHole(k)
         /\ Position(k) \in Int /\ Position(k - 1) \in Int
         /\ Position(k) = Position(k - 1) + blocks[k].size
<1>1. Len(blocks) \in Nat /\ \A i \in 1 .. Len(blocks) : blocks[i] \in Block
  BY LenProperties, ElementOfSeq DEF ListOK, Tiles
<1>2. \A i \in 1 .. Len(blocks) : blocks[i].start \in Nat /\ blocks[i].end \in Int /\ blocks[i].size \in Nat
  BY <1>1 DEF Block
<1>3. /\ blocks[k].size = blocks[k].end - blocks[k].start + 1
      /\ blocks[k].size = 0 => IsHole(k)
      /\ k > 1 => blocks[k].start = blocks[k - 1].end + 1
      /\ blocks[1].start = 0
  BY DEF ListOK, Tiles, IsHole
<1>4. k = 1 \/ (k > 1 /\ k - 1 \in 1 .. Len(blocks))
  BY <1>1
<1>5. /\ Position(k) = blocks[k].end + 1
      /\ Position(k - 1) = IF k = 1 THEN 0 ELSE blocks[k - 1].end + 1
  BY <1>1 DEF Position
<1>6. Position(k - 1) \in Int /\ Position(k - 1) = blocks[k].start
  BY <1>2, <1>3, <1>4, <1>5
<1> QED BY <1>1, <1>2, <1>3, <1>5, <1>6

LEMMA TurnKeeps ==
  ASSUME ListOK, NEW k \in 1 .. Len(blocks), NEW done, Compacting(k - 1, done)
  PROVE  Compacting(k, Moved(done, blocks[k]))
<1>1. PICK b : b = blocks[k]
  OBVIOUS
<1>2. PICK s : s = done.list
  OBVIOUS
<1>3. PICK u : u = done.unused_space
  OBVIOUS
<1>4. /\ s \in Seq(Block) /\ u \in Nat /\ done = [list |-> s, unused_space |-> u] /\ Len(s) \in Nat
      /\ Packed(s) /\ Place(s) \in Nat /\ Place(s) = Position(k - 1) - u
      /\ Len(s) = 0 => \A j \in 1 .. k - 1 : IsHole(j)
  BY <1>2, <1>3, LenProperties DEF Compacting
<1>5. /\ b \in Block /\ b.start \in Nat /\ b.end \in Int /\ b.size \in Nat
      /\ (b.size = 0 => b.id = Unused)
      /\ Position(k) \in Int /\ Position(k - 1) \in Int /\ Position(k) = Position(k - 1) + b.size
  BY <1>1, BlockFacts DEF IsHole
<1>6. CASE b.id = Unused
  <2>1. Moved(done, b) = [list |-> s, unused_space |-> u + b.size]
    BY <1>4, <1>6 DEF Moved
  <2>2. u + b.size \in Nat /\ Place(s) = Position(k) - (u + b.size)
    BY <1>4, <1>5
  <2>3. \A j \in 1 .. k : j \in 1 .. k - 1 \/ j = k
    OBVIOUS
  <2>4. Len(s) = 0 => \A j \in 1 .. k : IsHole(j)
    BY <1>1, <1>4, <1>6, <2>3 DEF IsHole
  <2> QED BY <1>1, <1>4, <2>1, <2>2, <2>4 DEF Compacting
<1>7. CASE b.id # Unused
  <2>1. PICK p : p = Place(s)
    OBVIOUS
  <2>2. PICK c : c = [b EXCEPT !.start = p, !.end = p + b.size - 1]
    OBVIOUS
  <2>2a. p \in Nat /\ b.size \in Nat /\ b.size # 0 /\ p = Position(k - 1) - u
    BY <1>4, <1>5, <1>7, <2>1
  <2>2b. PICK z \in Nat : z = b.size
    BY <2>2a
  <2>2c. PICK e \in Int : e = p + z - 1
    BY <2>2a
  <2>2d. z > 0 /\ z = e - p + 1 /\ e + 1 = p + z
    BY <2>2a, <2>2b, <2>2c
  <2>3. /\ c \in Block /\ c.id = b.id /\ c.start = p /\ c.end = e /\ c.size = z
    <3>1. c = [b EXCEPT !.start = p, !.end = e]
      BY <2>2, <2>2b, <2>2c
    <3> QED BY <1>5, <2>2a, <2>2b, <3>1 DEF Block
  <2>4. PICK s1 : s1 = Append(s, c)
    OBVIOUS
  <2>5. Moved(done, b) = [list |-> s1, unused_space |-> u]
    <3>1. s = << >> <=> Len(s) = 0
      BY <1>4, EmptySeq
    <3>2. p = IF s = << >> THEN 0 ELSE Last(s).end + 1
      BY <2>1, <3>1 DEF Place, Last
    <3> QED BY <1>4, <1>7, <2>2, <2>4, <3>2 DEF Moved
  <2>6. /\ s1 \in Seq(Block) /\ Len(s1) = Len(s) + 1 /\ s1[Len(s) + 1] = c
        /\ \A i \in 1 .. Len(s) : s1[i] = s[i]
    <3>1. \A i \in 1 .. Len(s) : i \in 1 .. Len(s) + 1 /\ i # Len(s) + 1
      BY <1>4
    <3> QED BY <1>4, <2>3, <2>4, <3>1, AppendProperties
  <2>7. Place(s1) = p + z
    <3>1. Len(s) + 1 # 0
      BY <1>4
    <3> QED BY <2>3, <2>6, <2>2d, <3>1 DEF Place
  <2>8. Packed(s1)
    <3> SUFFICES ASSUME NEW i \in 1 .. Len(s) + 1
                 PROVE  /\ s1[i].id # Unused /\ s1[i].size > 0
                        /\ s1[i].size = s1[i].end - s1[i].start + 1
                        /\ s1[i].start = IF i = 1 THEN 0 ELSE s1[i - 1].end + 1
      BY <2>6 DEF Packed
    <3>1. CASE i \in 1 .. Len(s)
      <4>1. i = 1 \/ i - 1 \in 1 .. Len(s)
        BY <1>4, <3>1
      <4>2. s1[i] = s[i] /\ (i = 1 \/ s1[i - 1] = s[i - 1])
        BY <2>6, <3>1, <4>1
      <4> QED BY <1>4, <3>1, <4>2 DEF Packed
    <3>2. CASE i = Len(s) + 1
      <4>1. s1[i] = c
        BY <2>6, <3>2
      <4>2. p = IF i = 1 THEN 0 ELSE s1[i - 1].end + 1
        <5>1. CASE Len(s) = 0
          BY <2>1, <3>2, <5>1 DEF Place
        <5>2. CASE Len(s) # 0
          <6>1. i # 1 /\ i - 1 = Len(s) /\ Len(s) \in 1 .. Len(s)
            BY <1>4, <3>2, <5>2
          <6>2. s1[i - 1] = s[Len(s)]
            BY <2>6, <6>1
          <6> QED BY <2>1, <5>2, <6>1, <6>2 DEF Place
        <5> QED BY <5>1, <5>2
      <4> QED BY <1>7, <2>3, <2>2d, <4>1, <4>2
    <3> QED BY <1>4, <3>1, <3>2
  <2>9. /\ Place(s1) \in Nat /\ Place(s1) = Position(k) - u /\ Len(s1) # 0
    <3>1. Position(k) = Position(k - 1) + z /\ Position(k) \in Int /\ Position(k - 1) \in Int
      BY <1>5, <2>2b
    <3>2. Len(s1) # 0
      BY <1>4, <2>6
    <3> QED BY <1>4, <2>7, <2>2a, <3>1, <3>2
  <2> QED BY <1>1, <1>4, <2>5, <2>6, <2>8, <2>9 DEF Compacting
<1> QED BY <1>6, <1>7

LEMMA AllTurns ==
  ASSUME ListOK
  PROVE  \A k \in 0 .. Len(blocks) : Compacting(k, AfterTurn[k])
<1> DEFINE Bad == {m \in 0 .. Len(blocks) : ~Compacting(m, AfterTurn[m])}
<1>1. Len(blocks) \in Nat
  BY LenProperties DEF ListOK, Tiles
<1>2. 0 \notin Bad
  <2>1. << >> \in Seq(Block) /\ Len(<< >>) = 0
    BY EmptySeq
  <2>2. PICK s : s = << >>
    OBVIOUS
  <2>3. s \in Seq(Block) /\ Len(s) = 0 /\ Start = [list |-> s, unused_space |-> 0]
    BY <2>1, <2>2 DEF Start
  <2>4. Packed(s) /\ Place(s) = 0 /\ Position(0) = 0
    BY <2>3 DEF Packed, Place, Position
  <2>5. Compacting(0, Start)
    BY <2>3, <2>4 DEF Compacting
  <2> QED BY <2>5, TurnByTurn
<1>3. ASSUME NEW m \in 1 .. Len(blocks), m - 1 \notin Bad PROVE m \notin Bad
  <2>1. m - 1 \in 0 .. Len(blocks)
    BY <1>1
  <2>2. Compacting(m - 1, AfterTurn[m - 1])
    BY <1>3, <2>1
  <2> QED BY <2>2, TurnByTurn, TurnKeeps
<1>4. Bad = {}
  <2> SUFFICES ASSUME Bad # {} PROVE FALSE
    OBVIOUS
  <2>1. Bad \subseteq Nat /\ Bad \subseteq 0 .. Len(blocks)
    BY <1>1
  <2> HIDE DEF Bad
  <2>2. PICK m \in Bad : \A k \in Bad : m <= k
    BY <2>1, LeastOf
  <2>3. \A k \in Bad : ~ (k < m)
    BY <2>1, <2>2
  <2>4. m \in 1 .. Len(blocks) /\ m - 1 < m
    BY <1>1, <1>2, <2>1
  <2> QED BY <1>3, <2>3, <2>4
<1> QED BY <1>4

(* compact(): what is left of the list has its hole at the end.            *)
LEMMA CompactTiles ==
  ASSUME ListOK, Len(blocks) # 1, NEW s, NEW u,
         s = AfterTurn[Len(blocks)].list, u = AfterTurn[Len(blocks)].unused_space
  PROVE  Tiles(Append(s, [id |-> Unused, start |-> Last(s).end + 1, end |-> MAX - 1, size |-> u]))
<1>1. Compacting(Len(blocks), AfterTurn[Len(blocks)])
  <2>1. Len(blocks) \in 0 .. Len(blocks)
    BY LenProperties DEF ListOK, Tiles
  <2> QED BY <2>1, AllTurns
<1>2. /\ s \in Seq(Block) /\ u \in Nat /\ Len(s) \in Nat /\ Packed(s)
      /\ Place(s) \in Nat /\ Place(s) = Position(Len(blocks)) - u
      /\ Len(s) = 0 => \A j \in 1 .. Len(blocks) : IsHole(j)
  BY <1>1, LenProperties DEF Compacting
<1>3. Len(blocks) \in Nat /\ Len(blocks) > 1
  <2>1. Len(blocks) \in Nat /\ Len(blocks) > 0
    BY LenProperties DEF ListOK, Tiles
  <2> QED BY <2>1
<1>4. Position(Len(blocks)) = MAX /\ MAX \in Nat
  <2>1. blocks[Len(blocks)].end = MAX - 1 /\ MAX \in Nat
    BY AllocatorAssumption DEF ListOK, Tiles
  <2> QED BY <1>3, <2>1 DEF Position
<1>5. Len(s) > 0
  <2>1. 1 \in 1 .. Len(blocks) /\ 2 \in 1 .. Len(blocks) /\ 2 \in 2 .. Len(blocks) /\ 2 - 1 = 1
    BY <1>3
  <2>2. ~(blocks[2 - 1].id = Unused /\ blocks[2].id = Unused)
    BY <2>1 DEF ListOK, Tiles
  <2>3. ~(IsHole(1) /\ IsHole(2))
    BY <2>1, <2>2 DEF IsHole
  <2>4. Len(s) # 0
    BY <1>2, <2>1, <2>3
  <2> QED BY <1>2, <2>4
<1>6. PICK p : p = Last(s).end + 1
  OBVIOUS
<1>7. p = Place(s) /\ p \in Nat /\ u = MAX - p
  BY <1>2, <1>4, <1>5, <1>6 DEF Place, Last
<1>8. PICK h : h = [id |-> Unused, start |-> p, end |-> MAX - 1, size |-> u]
  OBVIOUS
<1>9. h \in Block /\ h.id = Unused /\ h.start = p /\ h.end = MAX - 1 /\ h.size = u /\ u = (MAX - 1) - p + 1
  <2>1. MAX - 1 \in Int /\ u = (MAX - 1) - p + 1
    <3>1. MAX \in Int /\ p \in Int /\ u = MAX - p
      BY <1>4, <1>7
    <3>2. \A a, b \in Int : a - 1 \in Int /\ a - b = (a - 1) - b + 1
      OBVIOUS
    <3> QED BY <3>1, <3>2
  <2> QED BY <1>2, <1>7, <1>8, <2>1 DEF Block
<1>10. PICK new : new = Append(s, h)
  OBVIOUS
<1>11. PICK n : n = Len(s)
  OBVIOUS
<1>12. /\ new \in Seq(Block) /\ Len(new) = n + 1 /\ new[n + 1] = h
       /\ \A i \in 1 .. n : new[i] = s[i]
  <2>1. \A i \in 1 .. Len(s) : i \in 1 .. Len(s) + 1 /\ i # Len(s) + 1
    BY <1>2
  <2> QED BY <1>2, <1>9, <1>10, <1>11, <2>1, AppendProperties
<1>13. n \in Nat /\ n > 0
  BY <1>2, <1>5, <1>11
<1>14. /\ \A i \in 1 .. n :
            /\ s[i].id # Unused /\ s[i].size > 0
            /\ s[i].size = s[i].end - s[i].start + 1
            /\ s[i].start = IF i = 1 THEN 0 ELSE s[i - 1].end + 1
       /\ p = s[n].end + 1
  BY <1>2, <1>7, <1>11, <1>13 DEF Packed, Place
<1>15. new[1].start = 0 /\ new[n + 1].end = MAX - 1
  <2>1. 1 \in 1 .. n
    BY <1>13
  <2> QED BY <1>9, <1>12, <1>14, <2>1
<1>16. ASSUME NEW i \in 1 .. n + 1
       PROVE  /\ new[i].size = new[i].end - new[i].start + 1
              /\ new[i].size = 0 => i = n + 1 /\ new[i].id = Unused
  <2>1. CASE i \in 1 .. n
    <3>1. s[i].size > 0 => s[i].size # 0
      OBVIOUS
    <3> QED BY <1>12, <1>14, <2>1, <3>1
  <2>2. CASE i = n + 1
    BY <1>9, <1>12, <2>2
  <2> QED BY <1>13, <2>1, <2>2
<1>17. ASSUME NEW i \in 2 .. n + 1
       PROVE  /\ new[i].start = new[i - 1].end + 1
              /\ ~(new[i - 1].id = Unused /\ new[i].id = Unused)
  <2>1. i # 1 /\ i - 1 \in 1 .. n
    BY <1>13
  <2>2. new[i - 1] = s[i - 1] /\ s[i - 1].id # Unused
    BY <1>12, <1>14, <2>1
  <2>3. CASE i \in 1 .. n
    BY <1>12, <1>14, <2>1, <2>2, <2>3
  <2>4. CASE i = n + 1
    <3>1. i - 1 = n
      BY <1>13, <2>4
    <3> QED BY <1>9, <1>12, <1>14, <2>2, <2>4, <3>1
  <2> QED BY <1>13, <2>3, <2>4
<1>18. Tiles(new)
  <2>1. Len(new) > 0 /\ \A i \in 1 .. n + 1 : i > 1 => i \in 2 .. n + 1
    BY <1>12, <1>13
  <2> QED BY <1>12, <1>15, <1>16, <1>17, <2>1 DEF Tiles
<1> QED BY <1>6, <1>8, <1>10, <1>18

-----------------------------------------------------------------------------
(* Every strategy takes a hole that is large enough.                       *)
LEMMA ChosenSuits ==
  ASSUME NEW id, NEW n, NEW type, Valid(id, n, type), NEW k \in Chosen(type, n)
  PROVE  k \in DOMAIN blocks /\ IsHole(k) /\ blocks[k].size >= n
<1>0. \A S : Suitable(n) \cap S \subseteq Suitable(n)
  OBVIOUS
<1>1. first_fit(n) \subseteq Suitable(n)
  BY DEF first_fit
<1>2. best_fit(n) \subseteq Suitable(n)
  BY <1>0 DEF best_fit
<1>3. worst_fit(n) \subseteq Suitable(n)
  BY <1>0 DEF worst_fit
<1>4. type = "F" \/ type = "B" \/ type = "W"
  BY DEF Valid
<1>5. Chosen(type, n) \subseteq Suitable(n)
  BY <1>1, <1>2, <1>3, <1>4 DEF Chosen
<1> QED BY <1>5 DEF Suitable, Suits

LEMMA RequestInv ==
  ASSUME Inv, NEW id \in Ids, NEW n \in Sizes, NEW type, Request(id, n, type)
  PROVE  Inv'
<1>1. ListOK
  BY InvIsList DEF Inv, TypeOK
<1>2. /\ status' \in {"running", "exited", "dangling"}
      /\ reply' \in {"none", "placed", "refused", "invalid", "released", "unknown"}
  BY DEF Request, Inv, TypeOK
<1>3. ListOK'
  <2>1. CASE blocks' = blocks
    BY <1>1, <2>1 DEF ListOK
  <2>2. CASE blocks' # blocks
    <3>1. Valid(id, n, type) /\ \E k \in Chosen(type, n) : blocks' = Divided(k, id, n)
      BY <2>2 DEF Request
    <3>2. PICK k \in Chosen(type, n) : blocks' = Divided(k, id, n)
      BY <3>1
    <3>3. k \in DOMAIN blocks /\ IsHole(k) /\ blocks[k].size >= n
      BY <3>1, ChosenSuits
    <3>4. n \in Nat /\ n > 0 /\ id # Unused
      BY <3>1, AllocatorAssumption DEF Valid, Unused
    <3>5. n <= blocks[k].size
      BY <3>3
    <3>6. Tiles(Divided(k, id, n))
      BY <1>1, <3>3, <3>4, <3>5, DividedTiles
    <3> QED BY <3>2, <3>6 DEF ListOK
  <2> QED BY <2>1, <2>2
<1> QED BY <1>2, <1>3, ListGivesInv

LEMMA ReleaseInv ==
  ASSUME Inv, NEW id \in Ids, Release(id)
  PROVE  Inv'
<1>1. ListOK
  BY InvIsList DEF Inv, TypeOK
<1>2. /\ status' \in {"running", "exited", "dangling"}
      /\ reply' \in {"none", "placed", "refused", "invalid", "released", "unknown"}
  BY DEF Release, Inv, TypeOK
<1>3. ListOK'
  <2>1. CASE blocks' = blocks
    BY <1>1, <2>1 DEF ListOK
  <2>2. CASE blocks' # blocks
    <3>1. PICK k \in DOMAIN blocks : blocks' = Freed(k)
      BY <2>2 DEF Release
    <3>2. Tiles(Freed(k))
      BY <1>1, FreedTiles
    <3> QED BY <3>1, <3>2 DEF ListOK
  <2> QED BY <2>1, <2>2
<1> QED BY <1>2, <1>3, ListGivesInv

LEMMA CompactInv ==
  ASSUME Inv, Compact
  PROVE  Inv'
<1>1. ListOK
  BY InvIsList DEF Inv, TypeOK
<1>2. /\ status' \in {"running", "exited", "dangling"}
      /\ reply' \in {"none", "placed", "refused", "invalid", "released", "unknown"}
  BY DEF Compact, Inv, TypeOK
<1>3. ListOK'
  <2>1. CASE Len(blocks) = 1
    BY <1>1, <2>1 DEF Compact, ListOK
  <2>2. CASE Len(blocks) # 1
    <3>1. PICK s : s = AfterTurn[Len(blocks)].list
      OBVIOUS
    <3>2. PICK u : u = AfterTurn[Len(blocks)].unused_space
      OBVIOUS
    <3>3. PICK new : new = Append(s, [id |-> Unused, start |-> Last(s).end + 1, end |-> MAX - 1, size |-> u])
      OBVIOUS
    <3>4. blocks' = new
      BY <2>2, <3>1, <3>2, <3>3 DEF Compact
    <3>5. Tiles(new)
      BY <1>1, <2>2, <3>1, <3>2, <3>3, CompactTiles
    <3> QED BY <3>4, <3>5 DEF ListOK
  <2> QED BY <2>1, <2>2
<1> QED BY <1>2, <1>3, ListGivesInv

(* allocator.c: after every sequence of commands start, end and size of    *)
(* all blocks agree, the blocks tile the memory, and no two holes are      *)
(* neighbours, for every size of the memory.                               *)
THEOREM InvHolds == Spec => []Inv
<1>1. Inv /\ [Next]_vars => Inv'
  <2> SUFFICES ASSUME Inv, [Next]_vars PROVE Inv'
    OBVIOUS
  <2>1. CASE \E id \in Ids, n \in Sizes, type \in Types : Request(id, n, type)
    BY <2>1, RequestInv
  <2>2. CASE \E id \in Ids : Release(id)
    BY <2>2, ReleaseInv
  <2>3. CASE Compact
    BY <2>3, CompactInv
  <2>4. CASE Exit
    BY <2>4 DEF Exit, Inv, TypeOK, Tiling, Coalesced, IsHole
  <2>5. CASE UNCHANGED vars
    BY <2>5 DEF vars, Inv, TypeOK, Tiling, Coalesced, IsHole
  <2> QED BY <2>1, <2>2, <2>3, <2>4, <2>5 DEF Next, Terminated
<1> QED BY <1>1, InitInv, PTL DEF Spec

(* allocator.c: no size is ever negative and the list is never empty, so   *)
(* that compact() always finds a process to put its hole behind.           *)
THEOREM TypeCorrect == Spec => []TypeOK
<1>1. Inv => TypeOK
  BY DEF Inv
<1> QED BY <1>1, InvHolds, PTL

(* allocator.c: no byte of the memory is lost or given twice.              *)
THEOREM MemoryIsTiled == Spec => []Tiling
<1>1. Inv => Tiling
  BY DEF Inv
<1> QED BY <1>1, InvHolds, PTL

(* release(): all nine cases together leave no two holes side by side.     *)
THEOREM HolesAreJoined == Spec => []Coalesced
<1>1. Inv => Coalesced
  BY DEF Inv
<1> QED BY <1>1, InvHolds, PTL

-----------------------------------------------------------------------------
(* The list by its fields.                                                 *)
LEMMA ListFacts ==
  ASSUME ListOK
  PROVE  /\ blocks \in Seq(Block) /\ Len(blocks) \in Nat /\ Len(blocks) > 0
         /\ DOMAIN blocks = 1 .. Len(blocks)
         /\ \A k \in 1 .. Len(blocks) :
              /\ blocks[k] \in Block /\ blocks[k].start \in Nat /\ blocks[k].end \in Int
              /\ blocks[k].size \in Nat
              /\ blocks[k].size = blocks[k].end - blocks[k].start + 1
              /\ blocks[k].size = 0 => k = Len(blocks) /\ IsHole(k)
              /\ k > 1 => blocks[k].start = blocks[k - 1].end + 1
         /\ \A k \in 1 .. Len(blocks) :
              blocks[k].start \in Int /\ blocks[k].end \in Int /\ blocks[k].size \in Int
         /\ \A k \in 2 .. Len(blocks) : ~(IsHole(k - 1) /\ IsHole(k))
         /\ blocks[1].start = 0 /\ blocks[Len(blocks)].end = MAX - 1
         /\ MAX \in Nat /\ MAX > 0
<1>1. /\ blocks \in Seq(Block) /\ Len(blocks) \in Nat /\ Len(blocks) > 0
      /\ DOMAIN blocks = 1 .. Len(blocks)
  BY LenProperties DEF ListOK, Tiles
<1>2. \A k \in 1 .. Len(blocks) : blocks[k] \in Block
  BY <1>1, ElementOfSeq
<1>3. \A k \in 1 .. Len(blocks) :
        blocks[k].start \in Nat /\ blocks[k].end \in Int /\ blocks[k].size \in Nat
  BY <1>2 DEF Block
<1>4. MAX \in Nat /\ MAX > 0
  BY AllocatorAssumption
<1>5. \A k \in 1 .. Len(blocks) :
        blocks[k].start \in Int /\ blocks[k].end \in Int /\ blocks[k].size \in Int
  BY <1>3
<1> QED BY <1>1, <1>2, <1>3, <1>4, <1>5 DEF ListOK, Tiles, IsHole

(* A block ends before any later one starts.                               *)
LEMMA Ascend ==
  ASSUME ListOK, NEW i \in 1 .. Len(blocks), NEW j \in 1 .. Len(blocks), i < j
  PROVE  blocks[i].start <= blocks[i].end /\ blocks[i].end < blocks[j].start
<1> DEFINE Bad == {m \in i + 1 .. Len(blocks) : ~(blocks[i].end < blocks[m].start)}
<1>0. Len(blocks) \in Nat
  BY ListFacts
<1>1. Len(blocks) \in Nat /\ i \in Nat
  BY <1>0
<1>2. Bad = {}
  <2> SUFFICES ASSUME Bad # {} PROVE FALSE
    OBVIOUS
  <2>1. Bad \in SUBSET Nat
    BY <1>1
  <2>2. PICK m \in Bad : \A k \in Bad : m <= k
    BY <2>1, LeastOf
  <2>3. /\ m \in 1 .. Len(blocks) /\ m > 1 /\ m - 1 \in 1 .. Len(blocks)
        /\ (m - 1 = i \/ m - 1 \in i + 1 .. Len(blocks)) /\ m - 1 # Len(blocks)
    BY <1>1
  <2>4. /\ blocks[m].start = blocks[m - 1].end + 1
        /\ blocks[m - 1].start <= blocks[m - 1].end
    <3>1. /\ blocks[m].start = blocks[m - 1].end + 1
          /\ blocks[m - 1].size # 0
          /\ blocks[m - 1].size = blocks[m - 1].end - blocks[m - 1].start + 1
      BY <2>3, ListFacts
    <3>2. blocks[m - 1].start \in Nat /\ blocks[m - 1].end \in Int /\ blocks[m - 1].size \in Nat
      BY <2>3, ListFacts
    <3>3. \A a, b, c \in Int : a \in Nat /\ a # 0 /\ a = b - c + 1 => c <= b
      OBVIOUS
    <3> QED BY <3>1, <3>2, <3>3
  <2>5. blocks[m].start \in Int /\ blocks[m - 1].end \in Int /\ blocks[i].end \in Int /\ blocks[m - 1].start \in Int
    BY <2>3, ListFacts
  <2>6. CASE m - 1 = i
    BY <2>4, <2>5, <2>6
  <2>7. CASE m - 1 \in i + 1 .. Len(blocks)
    <3>1. m - 1 \notin Bad
      BY <2>2, <2>3
    <3>2. blocks[i].end < blocks[m - 1].start
      BY <2>7, <3>1
    <3> QED BY <2>4, <2>5, <3>2
  <2> QED BY <2>3, <2>6, <2>7
<1>3. j \in i + 1 .. Len(blocks)
  BY <1>1
<1>4. blocks[i].start <= blocks[i].end
  <2>1. i # Len(blocks)
    BY <1>1
  <2>2. /\ blocks[i].size # 0 /\ blocks[i].size = blocks[i].end - blocks[i].start + 1
        /\ blocks[i].start \in Nat /\ blocks[i].end \in Int /\ blocks[i].size \in Nat
    BY <2>1, ListFacts
  <2>3. \A a, b, c \in Int : a \in Nat /\ a # 0 /\ a = b - c + 1 => c <= b
    OBVIOUS
  <2> QED BY <2>2, <2>3
<1> QED BY <1>2, <1>3, <1>4

(* Every address is in a block.                                            *)
Within(a, k) == blocks[k].start <= a /\ a <= blocks[k].end

LEMMA Cover ==
  ASSUME ListOK, NEW a \in 0 .. MAX - 1
  PROVE  \E k \in 1 .. Len(blocks) : Within(a, k)
<1> DEFINE Bad == {b \in 0 .. MAX - 1 : ~ \E k \in 1 .. Len(blocks) : Within(b, k)}
<1>1. MAX \in Nat /\ MAX > 0 /\ Len(blocks) \in Nat /\ Len(blocks) > 0
  BY ListFacts
<1>2. Bad = {}
  <2> SUFFICES ASSUME Bad # {} PROVE FALSE
    OBVIOUS
  <2>1. Bad \in SUBSET Nat
    BY <1>1
  <2>2. PICK b \in Bad : \A k \in Bad : b <= k
    BY <2>1, LeastOf
  <2>3. \A k \in 1 .. Len(blocks) : ~Within(b, k)
    OBVIOUS
  <2>3a. b \in 0 .. MAX - 1
    OBVIOUS
  <2>4. PICK k \in 1 .. Len(blocks) : blocks[k].start = b
    <3>1. CASE b = 0
      <4>1. 1 \in 1 .. Len(blocks)
        BY <1>1
      <4>2. blocks[1].start = 0
        BY ListFacts
      <4> QED BY <3>1, <4>1, <4>2
    <3>2. CASE b # 0
      <4>1. b - 1 \in 0 .. MAX - 1 /\ b - 1 < b
        BY <1>1, <2>3a, <3>2
      <4>2. b - 1 \notin Bad
        BY <2>2, <4>1
      <4>3. PICK k \in 1 .. Len(blocks) : Within(b - 1, k)
        BY <4>1, <4>2
      <4>4a. b \in Int
        BY <2>3a
      <4>4. blocks[k].start \in Int /\ blocks[k].end \in Int /\ b \in Int
        BY <4>4a, ListFacts
      <4>5. blocks[k].end = b - 1
        BY <2>3, <4>3, <4>4 DEF Within
      <4>6. k # Len(blocks)
        <5>1. blocks[Len(blocks)].end = MAX - 1
          BY ListFacts
        <5> QED BY <1>1, <2>3a, <4>5, <5>1
      <4>7. k + 1 \in 1 .. Len(blocks) /\ k + 1 > 1 /\ (k + 1) - 1 = k
        BY <1>1, <4>6
      <4>8. blocks[k + 1].start = blocks[k].end + 1
        BY <4>7, ListFacts
      <4>9. blocks[k + 1].start = b
        BY <2>3a, <4>5, <4>8
      <4> QED BY <4>7, <4>9
    <3> QED BY <3>1, <3>2
  <2>5. /\ blocks[k].start \in Nat /\ blocks[k].end \in Int /\ blocks[k].size \in Nat
        /\ blocks[k].size = blocks[k].end - blocks[k].start + 1
        /\ blocks[k].size = 0 => k = Len(blocks)
        /\ blocks[Len(blocks)].end = MAX - 1
    BY ListFacts
  <2>6. CASE blocks[k].size = 0
    BY <1>1, <2>3a, <2>4, <2>5, <2>6
  <2>7. CASE blocks[k].size # 0
    <3>1. \A x, y, z \in Int : x \in Nat /\ x # 0 /\ x = y - z + 1 => z <= y
      OBVIOUS
    <3>2. blocks[k].start <= blocks[k].end
      BY <2>5, <2>7, <3>1
    <3>3. b <= b
      BY <2>3a
    <3> QED BY <2>3, <2>4, <3>2, <3>3 DEF Within
  <2> QED BY <2>6, <2>7
<1> QED BY <1>2

LEMMA Apart ==
  ASSUME ListOK, NEW i \in 1 .. Len(blocks), NEW j \in 1 .. Len(blocks), NEW a \in Int,
         Within(a, i), Within(a, j)
  PROVE  i = j
<1>0. i \in Int /\ j \in Int
  OBVIOUS
<1>1. /\ i \in Int /\ j \in Int
      /\ blocks[i].start \in Int /\ blocks[i].end \in Int /\ blocks[j].start \in Int /\ blocks[j].end \in Int
  BY <1>0, ListFacts
<1>2. CASE i < j
  <2>1. blocks[i].end < blocks[j].start
    BY <1>2, Ascend
  <2> QED BY <1>1, <2>1 DEF Within
<1>3. CASE j < i
  <2>1. blocks[j].end < blocks[i].start
    BY <1>3, Ascend
  <2> QED BY <1>1, <2>1 DEF Within
<1> QED BY <1>1, <1>2, <1>3

-----------------------------------------------------------------------------
(* The abstract state that the list stands for.                            *)
Region(k) == [id |-> blocks[k].id, start |-> blocks[k].start, size |-> blocks[k].size]
Processes == {k \in DOMAIN blocks : ~IsHole(k)}
Regions == {Region(k) : k \in Processes}

LEMMA InAddresses ==
  ASSUME ListOK, NEW k \in 1 .. Len(blocks), NEW a \in Int
  PROVE  a \in Abstract!Addresses(Region(k)) <=> Within(a, k)
<1>1. /\ blocks[k].start \in Int /\ blocks[k].end \in Int /\ blocks[k].size \in Int
      /\ blocks[k].size = blocks[k].end - blocks[k].start + 1
  BY ListFacts
<1>2. \A x, y, z \in Int : z = y - x + 1 => x + z - 1 = y
  OBVIOUS
<1>3. blocks[k].start + blocks[k].size - 1 = blocks[k].end
  BY <1>1, <1>2
<1>4. Abstract!Addresses(Region(k)) = blocks[k].start .. blocks[k].end
  BY <1>3 DEF Abstract!Addresses, Region
<1> QED BY <1>1, <1>4 DEF Within

LEMMA TakenBy ==
  ASSUME ListOK, NEW a
  PROVE  a \in Abstract!Taken <=> a \in Int /\ \E k \in Processes : Within(a, k)
<1>1. Processes \subseteq 1 .. Len(blocks)
  BY ListFacts DEF Processes
<1>2. Abstract!Taken = UNION {Abstract!Addresses(r) : r \in Regions}
  BY DEF Abstract!Taken, Abstract!Addresses, Regions, Region, Processes
<1>3. a \in Abstract!Taken <=> \E k \in Processes : a \in Abstract!Addresses(Region(k))
  BY <1>2 DEF Regions
<1>4. ASSUME NEW k \in Processes, a \in Abstract!Addresses(Region(k)) PROVE a \in Int
  <2>1. blocks[k].start \in Int /\ blocks[k].size \in Int
    BY <1>1, ListFacts
  <2> QED BY <1>4, <2>1 DEF Abstract!Addresses, Region
<1> QED BY <1>1, <1>3, <1>4, InAddresses

LEMMA TakenWithin ==
  ASSUME ListOK, NEW k \in 1 .. Len(blocks), NEW a \in Int, Within(a, k)
  PROVE  a \in Abstract!Taken <=> ~IsHole(k)
<1>1. \A j \in Processes : j \in 1 .. Len(blocks) /\ ~IsHole(j)
  BY ListFacts DEF Processes
<1>2. ~IsHole(k) => k \in Processes
  BY ListFacts DEF Processes
<1> QED BY <1>1, <1>2, TakenBy, Apart

(* The holes of the list are the holes of the memory.                      *)
Hole(k) == [start |-> blocks[k].start, size |-> blocks[k].size]

LEMMA HoleIsHole ==
  ASSUME ListOK, NEW k \in 1 .. Len(blocks), IsHole(k), blocks[k].size > 0
  PROVE  Hole(k) \in Abstract!Holes
<1>1. PICK x \in Nat : x = blocks[k].start
  BY ListFacts
<1>2. PICK z \in Nat : z = blocks[k].size
  BY ListFacts
<1>3. PICK y \in Int : y = blocks[k].end
  BY ListFacts
<1>4. z > 0 /\ z = y - x + 1
  BY <1>1, <1>2, <1>3, ListFacts
<1>5. MAX \in Nat /\ MAX > 0 /\ Len(blocks) \in Nat
  BY ListFacts
<1>6. /\ blocks[Len(blocks)].end = MAX - 1
      /\ blocks[1].start = 0
  BY ListFacts
<1>7. y <= MAX - 1 /\ (k # Len(blocks) => k + 1 \in 1 .. Len(blocks) /\ blocks[k + 1].start = y + 1)
  <2>1. CASE k = Len(blocks)
    BY <1>3, <1>5, <1>6, <2>1
  <2>2. CASE k # Len(blocks)
    <3>1. k < Len(blocks) /\ Len(blocks) \in 1 .. Len(blocks)
      BY <1>5, <2>2
    <3>2. y < blocks[Len(blocks)].start /\ blocks[Len(blocks)].start <= blocks[Len(blocks)].end + 1
      <4>1. y < blocks[Len(blocks)].start
        BY <1>3, <3>1, Ascend
      <4>2. /\ blocks[Len(blocks)].size \in Nat /\ blocks[Len(blocks)].end \in Int /\ blocks[Len(blocks)].start \in Int
            /\ blocks[Len(blocks)].size = blocks[Len(blocks)].end - blocks[Len(blocks)].start + 1
        BY <3>1, ListFacts
      <4>3. \A a \in Nat, b, c \in Int : a = b - c + 1 => c <= b + 1
        OBVIOUS
      <4> QED BY <4>1, <4>2, <4>3
    <3>3. blocks[Len(blocks)].start \in Int
      BY <3>1, ListFacts
    <3>4. k + 1 \in 1 .. Len(blocks) /\ k + 1 > 1 /\ (k + 1) - 1 = k
      BY <1>5, <3>1
    <3>5. blocks[k + 1].start = y + 1
      BY <1>3, <3>4, ListFacts
    <3>6. blocks[Len(blocks)].start <= MAX
      BY <1>5, <1>6, <3>2, <3>3
    <3>7. y <= MAX - 1
      BY <1>5, <3>2, <3>3, <3>6
    <3> QED BY <3>4, <3>5, <3>7
  <2> QED BY <2>1, <2>2
<1>8. /\ x \in 0 .. MAX - 1 /\ z \in 1 .. MAX /\ x + z <= MAX /\ x + z = y + 1
      /\ x \in Int /\ y \in Int /\ x - 1 \in Int
  BY <1>4, <1>5, <1>7
<1>9. ASSUME x > 0 PROVE x - 1 \in Abstract!Taken
  <2>1. k > 1 /\ k - 1 \in 1 .. Len(blocks) /\ k \in 2 .. Len(blocks) /\ k - 1 < k
    BY <1>1, <1>5, <1>6, <1>9
  <2>2. ~IsHole(k - 1) /\ x = blocks[k - 1].end + 1 /\ blocks[k - 1].end \in Int
    BY <1>1, <2>1, ListFacts
  <2>3. blocks[k - 1].end = x - 1
    BY <2>2
  <2>4. blocks[k - 1].start <= x - 1
    BY <2>1, <2>3, Ascend
  <2>5. x - 1 <= x - 1
    OBVIOUS
  <2>6. Within(x - 1, k - 1)
    BY <2>3, <2>4, <2>5 DEF Within
  <2> QED BY <1>8, <2>1, <2>2, <2>6, TakenWithin
<1>10. ASSUME x + z < MAX PROVE x + z \in Abstract!Taken
  <2>1. k # Len(blocks)
    BY <1>3, <1>5, <1>6, <1>8, <1>10
  <2>2. /\ k + 1 \in 1 .. Len(blocks) /\ k + 1 \in 2 .. Len(blocks) /\ (k + 1) - 1 = k
        /\ blocks[k + 1].start = x + z
    <3>1. k + 1 \in 1 .. Len(blocks) /\ blocks[k + 1].start = x + z
      BY <1>7, <1>8, <2>1
    <3> QED BY <1>5, <3>1
  <2>3. ~IsHole(k + 1)
    BY <2>2, ListFacts
  <2>4. /\ blocks[k + 1].size # 0 /\ blocks[k + 1].size \in Nat
        /\ blocks[k + 1].end \in Int
        /\ blocks[k + 1].size = blocks[k + 1].end - blocks[k + 1].start + 1
    BY <2>2, <2>3, ListFacts
  <2>5. \A a \in Nat, b, c \in Int : a # 0 /\ a = b - c + 1 => c <= b
    OBVIOUS
  <2>6. x + z <= blocks[k + 1].end /\ x + z <= x + z /\ x + z \in Int
    BY <1>8, <2>2, <2>4, <2>5
  <2>7. Within(x + z, k + 1)
    BY <2>2, <2>6 DEF Within
  <2> QED BY <2>2, <2>3, <2>6, <2>7, TakenWithin
<1>11. Abstract!Addresses([start |-> x, size |-> z]) \cap Abstract!Taken = {}
  <2> SUFFICES ASSUME NEW a \in x .. x + z - 1 PROVE a \notin Abstract!Taken
    BY DEF Abstract!Addresses
  <2>1. a \in Int /\ x <= a /\ a <= y
    BY <1>8
  <2>2. Within(a, k)
    BY <1>1, <1>3, <2>1 DEF Within
  <2> QED BY <2>1, <2>2, TakenWithin
<1> QED BY <1>1, <1>2, <1>8, <1>9, <1>10, <1>11 DEF Hole, Abstract!Holes

LEMMA HoleIsBlock ==
  ASSUME ListOK, NEW hole \in Abstract!Holes
  PROVE  \E k \in 1 .. Len(blocks) : IsHole(k) /\ hole = Hole(k)
<1>1. PICK x \in Int : x = hole.start
  BY DEF Abstract!Holes
<1>2. PICK z \in Int : z = hole.size
  BY DEF Abstract!Holes
<1>3. /\ hole = [start |-> x, size |-> z] /\ x \in 0 .. MAX - 1 /\ z \in 1 .. MAX
      /\ x + z <= MAX
      /\ x > 0 => x - 1 \in Abstract!Taken
      /\ x + z < MAX => x + z \in Abstract!Taken
      /\ \A a \in x .. x + z - 1 : a \notin Abstract!Taken
  BY <1>1, <1>2 DEF Abstract!Holes, Abstract!Addresses
<1>4. MAX \in Nat /\ MAX > 0 /\ Len(blocks) \in Nat
  BY ListFacts
<1>5. PICK k \in 1 .. Len(blocks) : Within(x, k)
  BY <1>3, Cover
<1>6. IsHole(k)
  <2>1. x \in x .. x + z - 1
    BY <1>3, <1>4
  <2> QED BY <1>3, <1>5, <2>1, TakenWithin
<1>7. PICK s \in Int : s = blocks[k].start
  BY ListFacts
<1>8. PICK e \in Int : e = blocks[k].end
  BY ListFacts
<1>9. /\ s <= x /\ x <= e /\ s \in Nat
  BY <1>5, <1>7, <1>8, ListFacts DEF Within
<1>10. x = s
  <2> SUFFICES ASSUME x # s PROVE FALSE
    OBVIOUS
  <2>1. x > 0 /\ s <= x - 1 /\ x - 1 <= e /\ x - 1 \in Int
    BY <1>9
  <2>2. Within(x - 1, k)
    BY <1>7, <1>8, <2>1 DEF Within
  <2> QED BY <1>3, <1>6, <2>1, <2>2, TakenWithin
<1>11. e <= MAX - 1
  <2>1. blocks[Len(blocks)].end = MAX - 1
    BY ListFacts
  <2>2. CASE k = Len(blocks)
    BY <1>4, <1>8, <2>1, <2>2
  <2>3. CASE k # Len(blocks)
    <3>1. Len(blocks) \in 1 .. Len(blocks) /\ k < Len(blocks)
      BY <1>4, <2>3
    <3>2. e < blocks[Len(blocks)].start
      BY <1>8, <3>1, Ascend
    <3>3. /\ blocks[Len(blocks)].size \in Nat /\ blocks[Len(blocks)].end \in Int /\ blocks[Len(blocks)].start \in Int
          /\ blocks[Len(blocks)].size = blocks[Len(blocks)].end - blocks[Len(blocks)].start + 1
      BY <3>1, ListFacts
    <3>4. \A a \in Nat, b, c, d \in Int : a = b - c + 1 /\ d < c => d <= b
      OBVIOUS
    <3> QED BY <2>1, <3>2, <3>3, <3>4
  <2> QED BY <2>2, <2>3
<1>12. x + z - 1 = e
  <2>1. ASSUME x + z - 1 < e PROVE FALSE
    <3>1. x + z < MAX /\ s <= x + z /\ x + z <= e /\ x + z \in Int
      BY <1>3, <1>4, <1>9, <1>10, <1>11, <2>1
    <3>2. Within(x + z, k)
      BY <1>7, <1>8, <3>1 DEF Within
    <3> QED BY <1>3, <1>6, <3>1, <3>2, TakenWithin
  <2>2. ASSUME e < x + z - 1 PROVE FALSE
    <3>1. k # Len(blocks)
      <4>1. blocks[Len(blocks)].end = MAX - 1
        BY ListFacts
      <4> QED BY <1>3, <1>4, <1>8, <2>2, <4>1
    <3>2. k + 1 \in 1 .. Len(blocks) /\ k + 1 \in 2 .. Len(blocks) /\ (k + 1) - 1 = k /\ k + 1 > 1
      BY <1>4, <3>1
    <3>3. ~IsHole(k + 1)
      BY <1>6, <3>2, ListFacts
    <3>4. blocks[k + 1].start = e + 1
      BY <1>8, <3>2, ListFacts
    <3>5. /\ blocks[k + 1].size # 0 /\ blocks[k + 1].size \in Nat
          /\ blocks[k + 1].end \in Int /\ blocks[k + 1].start \in Int
          /\ blocks[k + 1].size = blocks[k + 1].end - blocks[k + 1].start + 1
      BY <3>2, <3>3, ListFacts
    <3>6. \A a \in Nat, b, c \in Int : a # 0 /\ a = b - c + 1 => c <= b
      OBVIOUS
    <3>7. blocks[k + 1].start <= e + 1 /\ e + 1 <= blocks[k + 1].end /\ e + 1 \in Int
      BY <3>4, <3>5, <3>6
    <3>8. Within(e + 1, k + 1)
      BY <3>7 DEF Within
    <3>9. e + 1 \in Abstract!Taken
      BY <3>2, <3>3, <3>7, <3>8, TakenWithin
    <3>10. e + 1 \in x .. x + z - 1
      BY <1>3, <1>4, <1>9, <2>2
    <3> QED BY <1>3, <3>9, <3>10
  <2>3. x + z - 1 \in Int
    OBVIOUS
  <2> QED BY <2>1, <2>2, <2>3
<1>13. blocks[k].size = z
  <2>1. blocks[k].size = e - s + 1
    BY <1>7, <1>8, ListFacts
  <2> QED BY <1>10, <1>12, <2>1
<1> QED BY <1>3, <1>6, <1>7, <1>10, <1>13 DEF Hole

(* Which holes suit, and which of them come first.                         *)
LEMMA FittingHoles ==
  ASSUME ListOK, NEW n \in Nat, n > 0
  PROVE  /\ \A k \in Suitable(n) : k \in 1 .. Len(blocks) /\ Hole(k) \in Abstract!Fitting(n)
         /\ \A hole \in Abstract!Fitting(n) : \E k \in Suitable(n) : hole = Hole(k)
<1>1. ASSUME NEW k \in Suitable(n)
      PROVE  k \in 1 .. Len(blocks) /\ Hole(k) \in Abstract!Fitting(n)
  <2>1. k \in DOMAIN blocks /\ IsHole(k) /\ blocks[k].size >= n
    BY DEF Suitable, Suits
  <2>2. k \in 1 .. Len(blocks)
    BY <2>1, ListFacts
  <2>3. blocks[k].size \in Int
    BY <2>2, ListFacts
  <2>4. blocks[k].size > 0
    BY <2>1, <2>3
  <2>5. Hole(k) \in Abstract!Holes
    BY <2>1, <2>2, <2>4, HoleIsHole
  <2> QED BY <2>1, <2>2, <2>5 DEF Abstract!Fitting, Hole
<1>2. ASSUME NEW hole \in Abstract!Fitting(n)
      PROVE  \E k \in Suitable(n) : hole = Hole(k)
  <2>1. hole \in Abstract!Holes /\ hole.size >= n
    BY DEF Abstract!Fitting
  <2>2. PICK k \in 1 .. Len(blocks) : IsHole(k) /\ hole = Hole(k)
    BY <2>1, HoleIsBlock
  <2>3. k \in DOMAIN blocks
    BY ListFacts
  <2>4. blocks[k].size >= n
    BY <2>1, <2>2 DEF Hole
  <2>5. k \in Suitable(n)
    BY <2>2, <2>3, <2>4 DEF Suitable, Suits
  <2> QED BY <2>2, <2>5
<1> QED BY <1>1, <1>2

LEMMA LowerStart ==
  ASSUME ListOK, NEW i \in 1 .. Len(blocks), NEW j \in 1 .. Len(blocks), i <= j
  PROVE  blocks[i].start <= blocks[j].start /\ (i # j => blocks[i].start < blocks[j].start)
<1>1. blocks[i].start \in Int /\ blocks[i].end \in Int /\ blocks[j].start \in Int
  BY ListFacts
<1>2. CASE i = j
  BY <1>1, <1>2
<1>3. CASE i # j
  <2>1. i < j
    BY <1>3
  <2>2. blocks[i].start <= blocks[i].end /\ blocks[i].end < blocks[j].start
    BY <2>1, Ascend
  <2> QED BY <1>1, <2>2
<1> QED BY <1>2, <1>3

-----------------------------------------------------------------------------
(* The loops of best_fit() and worst_fit() have a value after each turn.   *)
Better(f, k, n, better) == IsHole(k) /\ (~IsHole(f[k - 1]) \/ (Suits(k, n) /\ <<k, f[k - 1]>> \in better))
Scans(f, m, n, better) ==
  f = [k \in 1 .. m |-> IF k = 1 THEN 1 ELSE IF Better(f, k, n, better) THEN k ELSE f[k - 1]]

LEMMA ScanExtends ==
  ASSUME NEW n, NEW better, NEW m \in Nat, m > 0, NEW f, Scans(f, m, n, better)
  PROVE  \E g : Scans(g, m + 1, n, better)
<1> DEFINE g == [k \in 1 .. m + 1 |-> IF k = m + 1 THEN IF Better(f, k, n, better) THEN k ELSE f[m]
                                                   ELSE f[k]]
<1>1. ASSUME NEW k \in 1 .. m + 1
      PROVE  g[k] = IF k = 1 THEN 1 ELSE IF Better(g, k, n, better) THEN k ELSE g[k - 1]
  <2>1. CASE k = m + 1
    <3>1. k # 1 /\ k - 1 = m /\ m \in 1 .. m + 1 /\ m # m + 1
      BY <2>1
    <3>2. g[k - 1] = f[m] /\ g[k - 1] = f[k - 1]
      BY <3>1
    <3>3. g[k] = IF Better(f, k, n, better) THEN k ELSE f[m]
      BY <2>1
    <3> HIDE DEF g
    <3>4. Better(g, k, n, better) <=> Better(f, k, n, better)
      BY <3>2 DEF Better
    <3> QED BY <3>1, <3>2, <3>3, <3>4
  <2>2. CASE k # m + 1
    <3>1. k \in 1 .. m
      BY <2>2
    <3>2. g[k] = f[k] /\ f[k] = IF k = 1 THEN 1 ELSE IF Better(f, k, n, better) THEN k ELSE f[k - 1]
      BY <2>2, <3>1 DEF Scans
    <3>3. k # 1 => g[k - 1] = f[k - 1]
      <4>1. k # 1 => k - 1 \in 1 .. m + 1 /\ k - 1 # m + 1
        BY <3>1
      <4> QED BY <4>1
    <3> HIDE DEF g
    <3>4. k # 1 => (Better(g, k, n, better) <=> Better(f, k, n, better))
      BY <3>3 DEF Better
    <3> QED BY <3>2, <3>3, <3>4
  <2> QED BY <2>1, <2>2
<1>2. g = [k \in 1 .. m + 1 |-> g[k]]
  OBVIOUS
<1> HIDE DEF g
<1>3. Scans(g, m + 1, n, better)
  BY <1>1, <1>2 DEF Scans
<1> QED BY <1>3

LEMMA ScanExists ==
  ASSUME NEW n, NEW better, NEW m \in Nat, m > 0
  PROVE  \E f : Scans(f, m, n, better)
<1> DEFINE Bad == {i \in Nat : i > 0 /\ ~ \E f : Scans(f, i, n, better)}
<1>1. 1 \notin Bad
  <2> DEFINE f == [k \in 1 .. 1 |-> 1]
  <2>1. \A k \in 1 .. 1 : k = 1
    OBVIOUS
  <2>2. Scans(f, 1, n, better)
    BY <2>1 DEF Scans
  <2> QED BY <2>2
<1>2. ASSUME NEW i \in Nat, i > 0, i \notin Bad PROVE i + 1 \notin Bad
  BY <1>2, ScanExtends
<1>3. Bad = {}
  <2> SUFFICES ASSUME Bad # {} PROVE FALSE
    OBVIOUS
  <2>1. Bad \in SUBSET Nat /\ \A i \in Bad : i > 0
    OBVIOUS
  <2> HIDE DEF Bad
  <2>2. PICK i \in Bad : \A k \in Bad : i <= k
    BY <2>1, LeastOf
  <2>3. i - 1 \in Nat /\ i - 1 > 0 /\ (i - 1) + 1 = i /\ ~(i <= i - 1)
    <3>1. i \in Nat /\ i > 0 /\ i # 1
      BY <1>1, <2>1
    <3> QED BY <3>1
  <2>4. i - 1 \notin Bad
    BY <2>2, <2>3
  <2>5. i \notin Bad
    BY <1>2, <2>3, <2>4
  <2> QED BY <2>2, <2>5
<1> QED BY <1>3

(* What the loop is at: the best of the suitable holes passed, and of      *)
(* equally good ones the first.                                            *)
BestYet(b, k, n, better) ==
  /\ b \in 1 .. k
  /\ \A j \in 1 .. k : Suits(j, n) => IsHole(b) /\ <<j, b>> \notin better /\ (b <= j \/ <<b, j>> \in better)

LEMMA ScanKeeps ==
  ASSUME ListOK, NEW n, NEW better,
         \A i, j \in 1 .. Len(blocks) : <<i, j>> \in better => <<j, i>> \notin better,
         \A i, j, k \in 1 .. Len(blocks) : <<i, j>> \in better /\ <<k, j>> \notin better => <<i, k>> \in better,
         \A i \in 1 .. Len(blocks) : <<i, i>> \notin better,
         NEW k \in 2 .. Len(blocks), NEW b, BestYet(b, k - 1, n, better)
  PROVE  BestYet(IF IsHole(k) /\ (~IsHole(b) \/ (Suits(k, n) /\ <<k, b>> \in better)) THEN k ELSE b, k, n, better)
<1>1. Len(blocks) \in Nat
  BY ListFacts
<1>2. /\ k \in 1 .. k /\ k \in Int /\ k \in 1 .. Len(blocks)
      /\ b \in 1 .. k - 1 /\ b \in 1 .. k /\ b \in 1 .. Len(blocks) /\ b <= k
      /\ \A j \in 1 .. k : j = k \/ j \in 1 .. k - 1
      /\ \A j \in 1 .. k - 1 : j \in 1 .. Len(blocks)
  BY <1>1 DEF BestYet
<1>3. CASE IsHole(k) /\ (~IsHole(b) \/ (Suits(k, n) /\ <<k, b>> \in better))
  <2>1. ASSUME NEW j \in 1 .. k, Suits(j, n)
        PROVE  IsHole(k) /\ <<j, k>> \notin better /\ (k <= j \/ <<k, j>> \in better)
    <3>1. CASE j = k
      BY <1>2, <1>3, <3>1
    <3>2. CASE j # k
      <4>1. j \in 1 .. k - 1 /\ j \in 1 .. Len(blocks)
        BY <1>2, <3>2
      <4>2. IsHole(b) /\ <<j, b>> \notin better
        BY <2>1, <4>1 DEF BestYet
      <4>3. <<k, j>> \in better
        BY <1>2, <1>3, <4>1, <4>2
      <4> QED BY <1>2, <1>3, <4>1, <4>3
    <3> QED BY <3>1, <3>2
  <2> QED BY <1>2, <1>3, <2>1 DEF BestYet
<1>4. CASE ~(IsHole(k) /\ (~IsHole(b) \/ (Suits(k, n) /\ <<k, b>> \in better)))
  <2>1. ASSUME NEW j \in 1 .. k, Suits(j, n)
        PROVE  IsHole(b) /\ <<j, b>> \notin better /\ (b <= j \/ <<b, j>> \in better)
    <3>1. CASE j = k
      BY <1>2, <1>4, <2>1, <3>1 DEF Suits
    <3>2. CASE j # k
      BY <1>2, <2>1, <3>2 DEF BestYet
    <3> QED BY <3>1, <3>2
  <2> QED BY <1>2, <1>4, <2>1 DEF BestYet
<1> QED BY <1>3, <1>4

LEMMA ScanIsBest ==
  ASSUME ListOK, NEW n, NEW better,
         \A i, j \in 1 .. Len(blocks) : <<i, j>> \in better => <<j, i>> \notin better,
         \A i, j, k \in 1 .. Len(blocks) : <<i, j>> \in better /\ <<k, j>> \notin better => <<i, k>> \in better,
         \A i \in 1 .. Len(blocks) : <<i, i>> \notin better
  PROVE  BestYet(Scan(n, better), Len(blocks), n, better)
<1>1. Len(blocks) \in Nat /\ Len(blocks) > 0 /\ DOMAIN blocks = 1 .. Len(blocks)
  BY ListFacts
<1>2. Scan(n, better) = (CHOOSE f : Scans(f, Len(blocks), n, better))[Len(blocks)]
  BY <1>1 DEF Scan, Scans, Better
<1>3. PICK f : f = CHOOSE g : Scans(g, Len(blocks), n, better)
  OBVIOUS
<1>4. Scans(f, Len(blocks), n, better)
  BY <1>1, <1>3, ScanExists
<1>5. \A k \in 1 .. Len(blocks) : f[k] = IF k = 1 THEN 1 ELSE IF Better(f, k, n, better) THEN k ELSE f[k - 1]
  BY <1>4 DEF Scans
<1> DEFINE Bad == {k \in 1 .. Len(blocks) : ~BestYet(f[k], k, n, better)}
<1>6. 1 \notin Bad
  <2>1. 1 \in 1 .. Len(blocks) /\ f[1] = 1 /\ 1 \in 1 .. 1 /\ 1 <= 1
    BY <1>1, <1>5
  <2>2. \A j \in 1 .. 1 : j = 1
    OBVIOUS
  <2>3. BestYet(1, 1, n, better)
    BY <2>1, <2>2 DEF BestYet, Suits
  <2> QED BY <2>1, <2>3
<1>7. ASSUME NEW k \in 2 .. Len(blocks), k - 1 \notin Bad PROVE k \notin Bad
  <2>1. k \in 1 .. Len(blocks) /\ k - 1 \in 1 .. Len(blocks) /\ k # 1
    BY <1>1
  <2>2. BestYet(f[k - 1], k - 1, n, better)
    BY <1>7, <2>1
  <2>3. f[k] = IF IsHole(k) /\ (~IsHole(f[k - 1]) \/ (Suits(k, n) /\ <<k, f[k - 1]>> \in better)) THEN k ELSE f[k - 1]
    BY <1>5, <2>1 DEF Better
  <2>4. BestYet(f[k], k, n, better)
    BY <2>2, <2>3, ScanKeeps
  <2> QED BY <2>4
<1>8. Bad = {}
  <2> SUFFICES ASSUME Bad # {} PROVE FALSE
    OBVIOUS
  <2>1. Bad \in SUBSET Nat /\ Bad \subseteq 1 .. Len(blocks)
    BY <1>1
  <2> HIDE DEF Bad
  <2>2. PICK m \in Bad : \A k \in Bad : m <= k
    BY <2>1, LeastOf
  <2>3. m \in 2 .. Len(blocks) /\ ~(m <= m - 1)
    BY <1>1, <1>6, <2>1
  <2>4. m - 1 \notin Bad
    BY <2>2, <2>3
  <2> QED BY <1>7, <2>3, <2>4
<1>9. Len(blocks) \in 1 .. Len(blocks)
  BY <1>1
<1> QED BY <1>2, <1>3, <1>8, <1>9

(* Each strategy takes a hole that its name promises, if it takes one.     *)
LEMMA FirstFit ==
  ASSUME ListOK, NEW n \in Nat, n > 0
  PROVE  /\ \A k \in first_fit(n) : Hole(k) \in Abstract!Preferred("F", Abstract!Fitting(n))
         /\ first_fit(n) = {} => Abstract!Fitting(n) = {}
<1>1. \A k \in Suitable(n) : k \in 1 .. Len(blocks) /\ Hole(k) \in Abstract!Fitting(n)
  BY FittingHoles
<1>2. ASSUME NEW k \in first_fit(n)
      PROVE  Hole(k) \in Abstract!Preferred("F", Abstract!Fitting(n))
  <2>1. k \in Suitable(n) /\ \A j \in Suitable(n) : k <= j
    BY DEF first_fit
  <2>2. ASSUME NEW other \in Abstract!Fitting(n) PROVE Hole(k).start <= other.start
    <3>1. PICK j \in Suitable(n) : other = Hole(j)
      BY FittingHoles
    <3>2. blocks[k].start <= blocks[j].start
      BY <1>1, <2>1, LowerStart
    <3> QED BY <3>1, <3>2 DEF Hole
  <2> QED BY <1>1, <2>1, <2>2 DEF Abstract!Preferred
<1>3. ASSUME first_fit(n) = {} PROVE Abstract!Fitting(n) = {}
  <2> SUFFICES ASSUME Suitable(n) # {} PROVE FALSE
    BY FittingHoles
  <2>1. Suitable(n) \in SUBSET Nat
    BY <1>1
  <2>2. PICK k \in Suitable(n) : \A j \in Suitable(n) : k <= j
    BY <2>1, LeastOf
  <2> QED BY <1>3, <2>2 DEF first_fit
<1> QED BY <1>2, <1>3

LEMMA BestFit ==
  ASSUME ListOK, NEW n \in Nat, n > 0, NEW k \in best_fit(n)
  PROVE  Hole(k) \in Abstract!Preferred("B", Abstract!Fitting(n))
<1>1. /\ \A j \in Suitable(n) : j \in 1 .. Len(blocks) /\ Hole(j) \in Abstract!Fitting(n)
      /\ k \in Suitable(n) /\ k = Scan(n, Smaller)
  BY FittingHoles DEF best_fit
<1>2. /\ DOMAIN blocks = 1 .. Len(blocks) /\ Len(blocks) \in Nat
      /\ \A j \in 1 .. Len(blocks) : blocks[j].size \in Int
  BY ListFacts
<1>3. \A i, j \in 1 .. Len(blocks) : <<i, j>> \in Smaller <=> blocks[i].size < blocks[j].size
  <2> SUFFICES ASSUME NEW i \in 1 .. Len(blocks), NEW j \in 1 .. Len(blocks)
               PROVE  <<i, j>> \in Smaller <=> blocks[i].size < blocks[j].size
    OBVIOUS
  <2>1. PICK p : p = <<i, j>>
    OBVIOUS
  <2>2. p[1] = i /\ p[2] = j
    BY <2>1
  <2>2a. p \in (DOMAIN blocks) \X (DOMAIN blocks)
    BY <1>2, <2>1
  <2>3. p \in Smaller <=> blocks[i].size < blocks[j].size
    BY <2>2, <2>2a DEF Smaller
  <2> QED BY <2>1, <2>3
<1>4. BestYet(k, Len(blocks), n, Smaller)
  <2>1. \A a, b \in Int : a < b => ~(b < a)
    OBVIOUS
  <2>2. \A a, b, c \in Int : a < b /\ ~(c < b) => a < c
    OBVIOUS
  <2>3. \A a \in Int : ~(a < a)
    OBVIOUS
  <2>4. \A i, j \in 1 .. Len(blocks) : <<i, j>> \in Smaller => <<j, i>> \notin Smaller
    BY <1>2, <1>3, <2>1
  <2>5. \A i, j, l \in 1 .. Len(blocks) : <<i, j>> \in Smaller /\ <<l, j>> \notin Smaller => <<i, l>> \in Smaller
    BY <1>2, <1>3, <2>2
  <2>6. \A i \in 1 .. Len(blocks) : <<i, i>> \notin Smaller
    BY <1>2, <1>3, <2>3
  <2> QED BY <1>1, <2>4, <2>5, <2>6, ScanIsBest
<1>5. ASSUME NEW other \in Abstract!Fitting(n)
      PROVE  Hole(k).size < other.size \/ (Hole(k).size = other.size /\ Hole(k).start <= other.start)
  <2>1. PICK j \in Suitable(n) : other = Hole(j)
    BY FittingHoles
  <2>2. j \in 1 .. Len(blocks) /\ k \in 1 .. Len(blocks) /\ Suits(j, n)
    BY <1>1 DEF Suitable
  <2>3. ~(blocks[j].size < blocks[k].size) /\ (k <= j \/ blocks[k].size < blocks[j].size)
    BY <1>3, <1>4, <2>2 DEF BestYet
  <2>4. blocks[k].size < blocks[j].size \/ (blocks[k].size = blocks[j].size /\ k <= j)
    BY <1>2, <2>2, <2>3
  <2>5. k <= j => blocks[k].start <= blocks[j].start
    BY <2>2, LowerStart
  <2> QED BY <2>1, <2>4, <2>5 DEF Hole
<1> QED BY <1>1, <1>5 DEF Abstract!Preferred

LEMMA WorstFit ==
  ASSUME ListOK, NEW n \in Nat, n > 0
  PROVE  /\ \A k \in worst_fit(n) : Hole(k) \in Abstract!Preferred("W", Abstract!Fitting(n))
         /\ worst_fit(n) = {} => Abstract!Fitting(n) = {}
<1>1. \A j \in Suitable(n) : j \in 1 .. Len(blocks) /\ Hole(j) \in Abstract!Fitting(n)
  BY FittingHoles
<1>2. /\ DOMAIN blocks = 1 .. Len(blocks) /\ Len(blocks) \in Nat
      /\ \A j \in 1 .. Len(blocks) : blocks[j].size \in Int
  BY ListFacts
<1>3. \A i, j \in 1 .. Len(blocks) : <<i, j>> \in Larger <=> blocks[i].size > blocks[j].size
  <2> SUFFICES ASSUME NEW i \in 1 .. Len(blocks), NEW j \in 1 .. Len(blocks)
               PROVE  <<i, j>> \in Larger <=> blocks[i].size > blocks[j].size
    OBVIOUS
  <2>1. PICK p : p = <<i, j>>
    OBVIOUS
  <2>2. p[1] = i /\ p[2] = j
    BY <2>1
  <2>2a. p \in (DOMAIN blocks) \X (DOMAIN blocks)
    BY <1>2, <2>1
  <2>3. p \in Larger <=> blocks[i].size > blocks[j].size
    BY <2>2, <2>2a DEF Larger
  <2> QED BY <2>1, <2>3
<1>4. PICK k : k = Scan(n, Larger)
  OBVIOUS
<1>5. BestYet(k, Len(blocks), n, Larger)
  <2>1. \A a, b \in Int : a > b => ~(b > a)
    OBVIOUS
  <2>2. \A a, b, c \in Int : a > b /\ ~(c > b) => a > c
    OBVIOUS
  <2>3. \A a \in Int : ~(a > a)
    OBVIOUS
  <2>4. \A i, j \in 1 .. Len(blocks) : <<i, j>> \in Larger => <<j, i>> \notin Larger
    BY <1>2, <1>3, <2>1
  <2>5. \A i, j, l \in 1 .. Len(blocks) : <<i, j>> \in Larger /\ <<l, j>> \notin Larger => <<i, l>> \in Larger
    BY <1>2, <1>3, <2>2
  <2>6. \A i \in 1 .. Len(blocks) : <<i, i>> \notin Larger
    BY <1>2, <1>3, <2>3
  <2> QED BY <1>4, <2>4, <2>5, <2>6, ScanIsBest
<1>6. ASSUME NEW j \in Suitable(n)
      PROVE  /\ k \in 1 .. Len(blocks) /\ IsHole(k)
             /\ blocks[k].size > blocks[j].size \/ (blocks[k].size = blocks[j].size /\ k <= j)
  <2>1. j \in 1 .. Len(blocks) /\ k \in 1 .. Len(blocks) /\ Suits(j, n)
    BY <1>1, <1>5 DEF Suitable, BestYet
  <2>2. IsHole(k) /\ ~(blocks[j].size > blocks[k].size) /\ (k <= j \/ blocks[k].size > blocks[j].size)
    BY <1>3, <1>5, <2>1 DEF BestYet
  <2> QED BY <1>2, <2>1, <2>2
<1>7. ASSUME NEW other \in Abstract!Fitting(n), k \in Suitable(n)
      PROVE  Hole(k).size > other.size \/ (Hole(k).size = other.size /\ Hole(k).start <= other.start)
  <2>1. PICK j \in Suitable(n) : other = Hole(j)
    BY FittingHoles
  <2>2. k <= j => blocks[k].start <= blocks[j].start
    BY <1>1, <1>7, <2>1, LowerStart
  <2> QED BY <1>6, <2>1, <2>2 DEF Hole
<1>8. ASSUME Abstract!Fitting(n) # {} PROVE k \in Suitable(n)
  <2>1. PICK j \in Suitable(n) : TRUE
    BY <1>8, FittingHoles
  <2>2. blocks[j].size >= n
    BY DEF Suitable, Suits
  <2>3. k \in 1 .. Len(blocks) /\ blocks[k].size \in Int /\ blocks[j].size \in Int
    BY <1>1, <1>2, <1>6
  <2>4. blocks[k].size >= n
    BY <1>6, <2>2, <2>3
  <2> QED BY <1>2, <1>6, <2>3, <2>4 DEF Suitable, Suits
<1>9. worst_fit(n) = Suitable(n) \cap {k}
  BY <1>4 DEF worst_fit
<1>10. ASSUME NEW l \in worst_fit(n)
      PROVE  Hole(l) \in Abstract!Preferred("W", Abstract!Fitting(n))
  <2>1. l = k /\ k \in Suitable(n)
    BY <1>9
  <2> QED BY <1>1, <1>7, <2>1 DEF Abstract!Preferred
<1> QED BY <1>8, <1>9, <1>10

-----------------------------------------------------------------------------
(* The regions of any list.                                                *)
RegionsOf(s) ==
  {[id |-> s[k].id, start |-> s[k].start, size |-> s[k].size] :
     k \in {j \in 1 .. Len(s) : s[j].id # Unused}}

LEMMA RegionsOfBlocks ==
  ASSUME ListOK
  PROVE  /\ Regions = RegionsOf(blocks)
         /\ Processes = {k \in 1 .. Len(blocks) : ~IsHole(k)}
<1>1. DOMAIN blocks = 1 .. Len(blocks)
  BY ListFacts
<1> QED BY <1>1 DEF Regions, RegionsOf, Processes, Region, IsHole

LEMMA DividedRegions ==
  ASSUME ListOK, NEW k \in DOMAIN blocks, IsHole(k), NEW id \in Ids, id # Unused,
         NEW n \in Nat, n > 0, n <= blocks[k].size
  PROVE  RegionsOf(Divided(k, id, n)) =
           Regions \cup {[id |-> id, start |-> blocks[k].start, size |-> n]}
<1>1. PICK new : new = Divided(k, id, n)
  OBVIOUS
<1>2. PICK N \in Nat : N = Len(blocks)
  BY ListFacts
<1>3. k \in 1 .. N /\ Processes = {j \in 1 .. N : blocks[j].id # Unused}
  BY <1>2, ListFacts, RegionsOfBlocks DEF IsHole
<1>4. IsDivided(new, k, id, n)
  BY <1>1, DividedEntries
<1> DEFINE own == [id |-> id, start |-> blocks[k].start, size |-> n]
           RegionIn(s, i) == [id |-> s[i].id, start |-> s[i].start, size |-> s[i].size]
<1>5. blocks[k].id = Unused
  BY DEF IsHole
<1>6. CASE blocks[k].size = n
  <2>1. /\ Len(new) = N
        /\ \A i \in 1 .. N : new[i] = IF i = k THEN [blocks[k] EXCEPT !.id = id] ELSE blocks[i]
    BY <1>2, <1>4, <1>6 DEF IsDivided
  <2>2. blocks[k] \in Block
    BY <1>2, <1>3, ListFacts
  <2>3. RegionIn(new, k) = own /\ new[k].id = id
    BY <1>3, <1>6, <2>1, <2>2 DEF Block
  <2>4. \A i \in 1 .. N : i # k => RegionIn(new, i) = RegionIn(blocks, i) /\ new[i].id = blocks[i].id
    BY <2>1
  <2>5. RegionsOf(new) = {RegionIn(new, i) : i \in {j \in 1 .. N : new[j].id # Unused}}
    BY <2>1 DEF RegionsOf
  <2>6. Regions = {RegionIn(blocks, i) : i \in {j \in 1 .. N : blocks[j].id # Unused}}
    BY <1>2, RegionsOfBlocks DEF RegionsOf
  <2> HIDE DEF RegionIn, own
  <2>7. RegionsOf(new) = Regions \cup {own}
    BY <1>3, <1>5, <2>3, <2>4, <2>5, <2>6
  <2> QED BY <1>1, <2>7 DEF own
<1>7. CASE blocks[k].size # n
  <2> DEFINE rest == [id |-> Unused, start |-> blocks[k].start + n, end |-> blocks[k].end, size |-> blocks[k].size - n]
             first == [id |-> id, start |-> blocks[k].start, end |-> blocks[k].start + n - 1, size |-> n]
  <2>1. /\ Len(new) = N + 1
        /\ \A i \in 1 .. N + 1 :
             new[i] = IF i < k THEN blocks[i] ELSE IF i = k THEN first ELSE IF i = k + 1 THEN rest ELSE blocks[i - 1]
    BY <1>2, <1>4, <1>7 DEF IsDivided
  <2>2. RegionIn(new, k) = own /\ new[k].id = id /\ k \in 1 .. N + 1
    BY <1>3, <2>1
  <2>3. new[k + 1].id = Unused
    <3>1. k + 1 \in 1 .. N + 1 /\ ~(k + 1 < k) /\ k + 1 # k
      BY <1>2, <1>3
    <3> QED BY <2>1, <3>1
  <2>4. \A i \in 1 .. N : i < k => i \in 1 .. N + 1 /\ RegionIn(new, i) = RegionIn(blocks, i) /\ new[i].id = blocks[i].id
    <3>1. \A i \in 1 .. N : i \in 1 .. N + 1
      BY <1>2
    <3> QED BY <2>1, <3>1
  <2>5. \A i \in 1 .. N : i > k => /\ i + 1 \in 1 .. N + 1
                                   /\ RegionIn(new, i + 1) = RegionIn(blocks, i) /\ new[i + 1].id = blocks[i].id
    <3>1. \A i \in 1 .. N : i > k => /\ i + 1 \in 1 .. N + 1 /\ ~(i + 1 < k) /\ i + 1 # k /\ i + 1 # k + 1
                                     /\ (i + 1) - 1 = i
      BY <1>2, <1>3
    <3> QED BY <2>1, <3>1
  <2>6. RegionsOf(new) = {RegionIn(new, i) : i \in {j \in 1 .. N + 1 : new[j].id # Unused}}
    BY <2>1 DEF RegionsOf
  <2>7. Regions = {RegionIn(blocks, i) : i \in {j \in 1 .. N : blocks[j].id # Unused}}
    BY <1>2, RegionsOfBlocks DEF RegionsOf
  <2> HIDE DEF RegionIn, own, first, rest
  <2>8. ASSUME NEW r \in RegionsOf(new) PROVE r \in Regions \cup {own}
    <3>1. PICK i \in 1 .. N + 1 : new[i].id # Unused /\ r = RegionIn(new, i)
      BY <2>6
    <3>2. i # k + 1
      BY <2>3, <3>1
    <3>3. CASE i < k
      <4>1. i \in 1 .. N
        BY <1>2, <1>3, <3>3
      <4> QED BY <2>4, <2>7, <3>1, <3>3, <4>1
    <3>4. CASE i = k
      BY <2>2, <3>1, <3>4
    <3>5. CASE i > k + 1
      <4>1. i - 1 \in 1 .. N /\ i - 1 > k /\ (i - 1) + 1 = i
        BY <1>2, <1>3, <3>5
      <4>2. RegionIn(new, i) = RegionIn(blocks, i - 1) /\ new[i].id = blocks[i - 1].id
        BY <2>5, <4>1
      <4> QED BY <2>7, <3>1, <4>1, <4>2
    <3> QED BY <1>2, <1>3, <3>2, <3>3, <3>4, <3>5
  <2>9. ASSUME NEW r \in Regions PROVE r \in RegionsOf(new)
    <3>1. PICK i \in 1 .. N : blocks[i].id # Unused /\ r = RegionIn(blocks, i)
      BY <2>7
    <3>2. CASE i < k
      BY <2>4, <2>6, <3>1, <3>2
    <3>3. CASE i > k
      BY <2>5, <2>6, <3>1, <3>3
    <3> QED BY <1>2, <1>3, <1>5, <3>1, <3>2, <3>3
  <2>10. own \in RegionsOf(new)
    BY <2>2, <2>6
  <2> QED BY <1>1, <2>8, <2>9, <2>10 DEF own
<1> QED BY <1>6, <1>7

LEMMA FreedRegions ==
  ASSUME ListOK, NEW k \in DOMAIN blocks
  PROVE  RegionsOf(Freed(k)) = {Region(j) : j \in Processes \ {k}}
<1>1. PICK new : new = Freed(k)
  OBVIOUS
<1>2. PICK N \in Nat : N = Len(blocks)
  BY ListFacts
<1>3. k \in 1 .. N /\ Processes = {j \in 1 .. N : blocks[j].id # Unused}
  BY <1>2, ListFacts, RegionsOfBlocks DEF IsHole
<1>4a. PICK f \in {k - 1, k}, d \in Nat, h \in Block :
        /\ f \in 1 .. Len(blocks) - d /\ f + d \in {k, k + 1} /\ h.id = Unused
        /\ \A j \in f .. f + d : j # k => IsHole(j)
        /\ Len(new) = Len(blocks) - d
        /\ \A i \in 1 .. Len(blocks) - d :
             new[i] = IF i < f THEN blocks[i] ELSE IF i = f THEN h ELSE blocks[i + d]
  <2>1. IsFreed(new, k)
    BY <1>1, FreedTiles
  <2> QED BY <2>1 DEF IsFreed
<1>4. /\ f \in 1 .. N - d /\ f + d \in {k, k + 1} /\ h.id = Unused
      /\ \A j \in f .. f + d : j # k => IsHole(j)
      /\ Len(new) = N - d
      /\ \A i \in 1 .. N - d :
           new[i] = IF i < f THEN blocks[i] ELSE IF i = f THEN h ELSE blocks[i + d]
  BY <1>2, <1>4a
<1> DEFINE RegionIn(s, i) == [id |-> s[i].id, start |-> s[i].start, size |-> s[i].size]
<1>5. RegionsOf(new) = {RegionIn(new, i) : i \in {j \in 1 .. N - d : new[j].id # Unused}}
  BY <1>4 DEF RegionsOf
<1>6. \A j : Region(j) = RegionIn(blocks, j)
  BY DEF Region
<1>7. \A i \in 1 .. N - d : i < f => RegionIn(new, i) = RegionIn(blocks, i) /\ new[i].id = blocks[i].id
  BY <1>4
<1>8. \A i \in 1 .. N - d : i > f => RegionIn(new, i) = RegionIn(blocks, i + d) /\ new[i].id = blocks[i + d].id
  BY <1>3, <1>4
<1>9. new[f].id = Unused
  BY <1>3, <1>4
<1> HIDE DEF RegionIn
<1>10. ASSUME NEW r \in RegionsOf(new) PROVE r \in {Region(j) : j \in Processes \ {k}}
  <2>1. PICK i \in 1 .. N - d : new[i].id # Unused /\ r = RegionIn(new, i)
    BY <1>5
  <2>2. CASE i < f
    <3>1. i \in 1 .. N /\ i # k
      BY <1>2, <1>3, <1>4, <2>2
    <3> QED BY <1>3, <1>6, <1>7, <2>1, <2>2, <3>1
  <2>3. CASE i > f
    <3>1. i + d \in 1 .. N /\ i + d # k
      BY <1>2, <1>3, <1>4, <2>3
    <3> QED BY <1>3, <1>6, <1>8, <2>1, <2>3, <3>1
  <2> QED BY <1>2, <1>3, <1>4, <1>9, <2>1, <2>2, <2>3
<1>11. ASSUME NEW j \in Processes, j # k PROVE Region(j) \in RegionsOf(new)
  <2>1. j \in 1 .. N /\ blocks[j].id # Unused
    BY <1>3
  <2>2. ~(j \in f .. f + d)
    BY <1>4, <1>11, <2>1 DEF IsHole
  <2>3. CASE j < f
    <3>1. j \in 1 .. N - d
      BY <1>2, <1>3, <1>4, <2>1, <2>3
    <3> QED BY <1>5, <1>6, <1>7, <2>1, <2>3, <3>1
  <2>4. CASE j > f + d
    <3>1. j - d \in 1 .. N - d /\ j - d > f /\ (j - d) + d = j
      BY <1>2, <1>3, <1>4, <2>1, <2>4
    <3> QED BY <1>5, <1>6, <1>8, <2>1, <3>1
  <2> QED BY <1>2, <1>3, <1>4, <2>1, <2>2, <2>3, <2>4
<1> QED BY <1>1, <1>10, <1>11

LEMMA AppendRegions ==
  ASSUME NEW s \in Seq(Block), NEW c \in Block
  PROVE  RegionsOf(Append(s, c)) =
           IF c.id = Unused THEN RegionsOf(s)
           ELSE RegionsOf(s) \cup {[id |-> c.id, start |-> c.start, size |-> c.size]}
<1>1. PICK t : t = Append(s, c)
  OBVIOUS
<1>2. PICK n \in Nat : n = Len(s)
  BY LenProperties
<1>3. /\ Len(t) = n + 1 /\ t[n + 1] = c
      /\ \A i \in 1 .. n : t[i] = s[i]
  <2>1. \A i \in 1 .. Len(s) : i \in 1 .. Len(s) + 1 /\ i # Len(s) + 1
    BY <1>2
  <2> QED BY <1>1, <1>2, <2>1, AppendProperties
<1> DEFINE RegionIn(q, i) == [id |-> q[i].id, start |-> q[i].start, size |-> q[i].size]
<1>4. RegionsOf(t) = {RegionIn(t, i) : i \in {j \in 1 .. n + 1 : t[j].id # Unused}}
  BY <1>3 DEF RegionsOf
<1>5. RegionsOf(s) = {RegionIn(s, i) : i \in {j \in 1 .. n : s[j].id # Unused}}
  BY <1>2 DEF RegionsOf
<1>6. \A i \in 1 .. n : i \in 1 .. n + 1 /\ RegionIn(t, i) = RegionIn(s, i) /\ t[i].id = s[i].id
  <2>1. \A i \in 1 .. n : i \in 1 .. n + 1
    BY <1>2
  <2> QED BY <1>3, <2>1
<1>7. RegionIn(t, n + 1) = [id |-> c.id, start |-> c.start, size |-> c.size] /\ t[n + 1].id = c.id
  BY <1>3
<1>8. n + 1 \in 1 .. n + 1 /\ \A i \in 1 .. n + 1 : i \in 1 .. n \/ i = n + 1
  BY <1>2
<1> HIDE DEF RegionIn
<1>9. RegionsOf(t) = IF c.id = Unused THEN RegionsOf(s) ELSE RegionsOf(s) \cup {RegionIn(t, n + 1)}
  <2>1. CASE c.id = Unused
    BY <1>4, <1>5, <1>6, <1>7, <1>8, <2>1
  <2>2. CASE c.id # Unused
    BY <1>4, <1>5, <1>6, <1>7, <1>8, <2>2
  <2> QED BY <2>1, <2>2
<1> QED BY <1>1, <1>7, <1>9

(* How many addresses below a belong to somebody.                          *)
TakenBelow(a) == Cardinality(Abstract!Taken \cap (0 .. a - 1))

LEMMA TakenGrows ==
  ASSUME ListOK
  PROVE  /\ TakenBelow(0) = 0
         /\ \A k \in 1 .. Len(blocks) :
              TakenBelow(Position(k)) =
                TakenBelow(Position(k - 1)) + IF IsHole(k) THEN 0 ELSE blocks[k].size
         /\ \A k \in 1 .. Len(blocks) : Position(k - 1) = blocks[k].start
<1>1. TakenBelow(0) = 0
  <2>1. Abstract!Taken \cap (0 .. 0 - 1) = {}
    OBVIOUS
  <2> QED BY <2>1, FS_EmptySet DEF TakenBelow
<1>2. ASSUME NEW k \in 1 .. Len(blocks)
      PROVE  /\ Position(k - 1) = blocks[k].start
             /\ TakenBelow(Position(k)) =
                  TakenBelow(Position(k - 1)) + IF IsHole(k) THEN 0 ELSE blocks[k].size
  <2>1. PICK x \in Nat : x = blocks[k].start
    BY ListFacts
  <2>2. PICK y \in Int : y = blocks[k].end
    BY ListFacts
  <2>3. PICK z \in Nat : z = blocks[k].size
    BY ListFacts
  <2>4. z = y - x + 1
    BY <2>1, <2>2, <2>3, ListFacts
  <2>5. Position(k - 1) = x /\ Position(k) = y + 1
    <3>1. Position(k) = Position(k - 1) + z /\ Position(k - 1) \in Int
      BY <2>3, BlockFacts
    <3>2. Position(k) = y + 1
      <4>1. k # 0
        OBVIOUS
      <4> QED BY <2>2, <4>1 DEF Position
    <3> QED BY <2>4, <3>1, <3>2
  <2> DEFINE S == Abstract!Taken \cap (0 .. x - 1)
             T == Abstract!Taken \cap (0 .. y)
  <2>6. \A a \in x .. y : a \in Abstract!Taken <=> ~IsHole(k)
    <3> SUFFICES ASSUME NEW a \in x .. y PROVE a \in Abstract!Taken <=> ~IsHole(k)
      OBVIOUS
    <3>1. a \in Int /\ x <= a /\ a <= y
      OBVIOUS
    <3>2. Within(a, k)
      BY <2>1, <2>2, <3>1 DEF Within
    <3> QED BY <3>1, <3>2, TakenWithin
  <2>7. IsFiniteSet(S) /\ IsFiniteSet(x .. y)
    <3>1. IsFiniteSet(0 .. x - 1) /\ IsFiniteSet(x .. y)
      BY FS_Interval
    <3> QED BY <3>1, FS_Subset
  <2>8. TakenBelow(Position(k - 1)) = Cardinality(S) /\ TakenBelow(Position(k)) = Cardinality(T)
    <3>1. (y + 1) - 1 = y
      OBVIOUS
    <3> QED BY <2>5, <3>1 DEF TakenBelow
  <2>9. Cardinality(S) \in Nat
    BY <2>7, FS_CardinalityType
  <2>10. \A a : a \in 0 .. y <=> a \in 0 .. x - 1 \/ a \in x .. y
    BY <2>4
  <2>11. CASE IsHole(k)
    <3>1. T = S
      BY <2>6, <2>10, <2>11
    <3>2. Cardinality(S) = Cardinality(S) + 0
      BY <2>9
    <3> HIDE DEF S, T
    <3>3. TakenBelow(Position(k)) = TakenBelow(Position(k - 1)) + 0
      BY <2>8, <3>1, <3>2
    <3> QED BY <2>1, <2>5, <2>11, <3>3
  <2>12. CASE ~IsHole(k)
    <3>1. T = S \cup (x .. y) /\ S \cap (x .. y) = {}
      BY <2>6, <2>10, <2>12
    <3>2. Cardinality(x .. y) = z
      <4>1. Cardinality(x .. y) = IF x > y THEN 0 ELSE y - x + 1
        BY FS_Interval
      <4> QED BY <2>4, <4>1
    <3>3. Cardinality(S \cup (x .. y)) = Cardinality(S) + Cardinality(x .. y) - Cardinality(S \cap (x .. y))
      BY <2>7, FS_Union
    <3>4. Cardinality(S \cap (x .. y)) = 0
      BY <3>1, FS_EmptySet
    <3>5. Cardinality(T) = Cardinality(S) + z
      <4>1. Cardinality(T) = Cardinality(S) + z - 0
        BY <3>1, <3>2, <3>3, <3>4
      <4>2. \A m \in Nat : m + z - 0 = m + z
        OBVIOUS
      <4> QED BY <2>9, <4>1, <4>2
    <3> HIDE DEF S, T
    <3>6. TakenBelow(Position(k)) = TakenBelow(Position(k - 1)) + blocks[k].size
      BY <2>3, <2>8, <3>5
    <3> QED BY <2>1, <2>5, <2>12, <3>6
  <2> QED BY <2>11, <2>12
<1> QED BY <1>1, <1>2

(* compact() moves a process down by the holes that it has passed.         *)
SlidDown(j) == [id |-> blocks[j].id, start |-> TakenBelow(blocks[j].start), size |-> blocks[j].size]
Sliding(k, done) ==
  /\ Place(done.list) = TakenBelow(Position(k))
  /\ RegionsOf(done.list) = {SlidDown(j) : j \in {i \in 1 .. k : ~IsHole(i)}}

LEMMA TurnSlides ==
  ASSUME ListOK, NEW k \in 1 .. Len(blocks), NEW done, Compacting(k - 1, done), Sliding(k - 1, done)
  PROVE  Sliding(k, Moved(done, blocks[k]))
<1>1. PICK b : b = blocks[k]
  OBVIOUS
<1>2. PICK s : s = done.list
  OBVIOUS
<1>3. /\ s \in Seq(Block) /\ Len(s) \in Nat /\ Place(s) \in Nat
      /\ Place(s) = TakenBelow(Position(k - 1))
      /\ RegionsOf(s) = {SlidDown(j) : j \in {i \in 1 .. k - 1 : ~IsHole(i)}}
      /\ done = [list |-> s, unused_space |-> done.unused_space]
  BY <1>2, LenProperties DEF Compacting, Sliding
<1>4. b \in Block /\ b.size \in Nat
  BY <1>1, BlockFacts
<1>5. \A i \in 1 .. k : i \in 1 .. k - 1 \/ i = k
  OBVIOUS
<1>6. \A i \in 1 .. k - 1 : i \in 1 .. k
  OBVIOUS
<1>6a. k \in 1 .. k
  OBVIOUS
<1>7. CASE IsHole(k)
  <2>1. Moved(done, b).list = s
    BY <1>1, <1>3, <1>7 DEF Moved, IsHole
  <2>2. TakenBelow(Position(k)) = TakenBelow(Position(k - 1)) + 0
    BY <1>7, TakenGrows
  <2>3. Place(s) = TakenBelow(Position(k))
    BY <1>3, <2>2
  <2>4. RegionsOf(s) = {SlidDown(j) : j \in {i \in 1 .. k : ~IsHole(i)}}
    <3>1. {i \in 1 .. k : ~IsHole(i)} = {i \in 1 .. k - 1 : ~IsHole(i)}
      BY <1>5, <1>6, <1>7
    <3> QED BY <1>3, <3>1
  <2> QED BY <1>1, <2>1, <2>3, <2>4 DEF Sliding
<1>8. CASE ~IsHole(k)
  <2>1. PICK p \in Nat : p = Place(s)
    BY <1>3
  <2>1a. PICK z \in Nat : z = b.size
    BY <1>4
  <2>1b. PICK e \in Int : e = p + z - 1
    OBVIOUS
  <2>2. PICK c : c = [b EXCEPT !.start = p, !.end = e]
    OBVIOUS
  <2>3. c \in Block /\ c.id = b.id /\ c.start = p /\ c.end = e /\ c.size = b.size
    BY <1>4, <2>2 DEF Block
  <2>4. Moved(done, b).list = Append(s, c)
    <3>1. s = << >> <=> Len(s) = 0
      BY <1>3, EmptySeq
    <3>2. p = IF s = << >> THEN 0 ELSE Last(s).end + 1
      BY <2>1, <3>1 DEF Place, Last
    <3>3. b.id # Unused
      BY <1>1, <1>8 DEF IsHole
    <3>4. c = [b EXCEPT !.start = p, !.end = p + b.size - 1]
      BY <2>1a, <2>1b, <2>2
    <3>5. PICK u : u = done.unused_space
      OBVIOUS
    <3>6. done = [list |-> s, unused_space |-> u]
      BY <1>3, <3>5
    <3>7. Moved(done, b) = [list |-> Append(s, c), unused_space |-> u]
      BY <3>2, <3>3, <3>4, <3>6 DEF Moved
    <3> QED BY <3>7
  <2>5. Place(Append(s, c)) = p + z
    <3>1. Len(Append(s, c)) = Len(s) + 1 /\ Append(s, c)[Len(s) + 1] = c
      BY <1>3, <2>3, AppendProperties
    <3>2. Len(s) + 1 # 0 /\ e + 1 = p + z
      BY <1>3, <2>1b
    <3> QED BY <2>3, <3>1, <3>2 DEF Place
  <2>6. TakenBelow(Position(k)) = p + z /\ TakenBelow(b.start) = p
    <3>1. TakenBelow(Position(k)) = TakenBelow(Position(k - 1)) + b.size /\ Position(k - 1) = b.start
      BY <1>1, <1>8, TakenGrows
    <3> QED BY <1>3, <2>1, <2>1a, <3>1
  <2>7. RegionsOf(Append(s, c)) = RegionsOf(s) \cup {SlidDown(k)}
    <3>1. c.id # Unused
      BY <1>1, <1>8, <2>3 DEF IsHole
    <3>2. SlidDown(k) = [id |-> c.id, start |-> c.start, size |-> c.size]
      BY <1>1, <2>3, <2>6 DEF SlidDown
    <3> QED BY <1>3, <2>3, <3>1, <3>2, AppendRegions
  <2>8. RegionsOf(Append(s, c)) = {SlidDown(j) : j \in {i \in 1 .. k : ~IsHole(i)}}
    <3>1. {i \in 1 .. k : ~IsHole(i)} = {i \in 1 .. k - 1 : ~IsHole(i)} \cup {k}
      BY <1>5, <1>6, <1>6a, <1>8
    <3> QED BY <1>3, <2>7, <3>1
  <2> QED BY <1>1, <2>4, <2>5, <2>6, <2>8 DEF Sliding
<1> QED BY <1>7, <1>8

LEMMA AllSlide ==
  ASSUME ListOK
  PROVE  Sliding(Len(blocks), AfterTurn[Len(blocks)])
<1> DEFINE Bad == {m \in 0 .. Len(blocks) : ~Sliding(m, AfterTurn[m])}
<1>1. Len(blocks) \in Nat
  BY ListFacts
<1>2. 0 \notin Bad
  <2>1. PICK s : s = << >>
    OBVIOUS
  <2>2. Len(s) = 0
    BY <2>1
  <2>3. AfterTurn[0].list = s
    BY <2>1, TurnByTurn DEF Start
  <2>4. Place(s) = 0 /\ Position(0) = 0
    BY <2>2 DEF Place, Position
  <2>5. RegionsOf(s) = {}
    <3>1. 1 .. 0 = {}
      OBVIOUS
    <3> QED BY <2>2, <3>1 DEF RegionsOf
  <2>6. {SlidDown(j) : j \in {i \in 1 .. 0 : ~IsHole(i)}} = {}
    <3>1. 1 .. 0 = {}
      OBVIOUS
    <3> QED BY <3>1
  <2> QED BY <2>3, <2>4, <2>5, <2>6, TakenGrows DEF Sliding
<1>3. ASSUME NEW m \in 1 .. Len(blocks), m - 1 \notin Bad PROVE m \notin Bad
  <2>1. m - 1 \in 0 .. Len(blocks)
    BY <1>1
  <2>2. Sliding(m - 1, AfterTurn[m - 1])
    BY <1>3, <2>1
  <2>3. Compacting(m - 1, AfterTurn[m - 1])
    BY <2>1, AllTurns
  <2> QED BY <2>2, <2>3, TurnByTurn, TurnSlides
<1>4. Bad = {}
  <2> SUFFICES ASSUME Bad # {} PROVE FALSE
    OBVIOUS
  <2>1. Bad \in SUBSET Nat /\ Bad \subseteq 0 .. Len(blocks)
    BY <1>1
  <2> HIDE DEF Bad
  <2>2. PICK m \in Bad : \A k \in Bad : m <= k
    BY <2>1, LeastOf
  <2>3. m \in 1 .. Len(blocks) /\ ~(m <= m - 1)
    BY <1>1, <1>2, <2>1
  <2> QED BY <1>3, <2>2, <2>3
<1>5. Len(blocks) \in 0 .. Len(blocks)
  BY <1>1
<1> QED BY <1>4, <1>5

-----------------------------------------------------------------------------
LEMMA NewRegions ==
  ASSUME Tiles(blocks')
  PROVE  Regions' = RegionsOf(blocks')
<1>1. DOMAIN blocks' = 1 .. Len(blocks')
  BY LenProperties DEF Tiles
<1> QED BY <1>1 DEF Regions, RegionsOf, Processes, Region, IsHole

LEMMA SameRegions == blocks' = blocks => Regions' = Regions
BY DEF Regions, Processes, Region, IsHole

(* A request places a process in the hole that the strategy promises.      *)
LEMMA RequestRefines ==
  ASSUME Inv, NEW id \in Ids, NEW n \in Sizes, NEW type, Request(id, n, type)
  PROVE  Abstract!Place(id, n, type) \/ Abstract!Refuse(id, n, type) \/ Abstract!Reject(id, n, type)
<1>1. ListOK
  BY InvIsList DEF Inv, TypeOK
<1>2. Valid(id, n, type) <=> Abstract!Valid(id, n, type)
  BY DEF Valid, Abstract!Valid
<1>3. CASE ~Valid(id, n, type)
  <2>1. reply' = "invalid" /\ blocks' = blocks
    BY <1>3 DEF Request
  <2>2. Regions' = Regions
    BY <2>1, SameRegions
  <2> QED BY <1>2, <1>3, <2>1, <2>2 DEF Abstract!Reject, Regions, Processes, Region
<1>4. CASE Valid(id, n, type)
  <2>1. n \in Nat /\ n > 0 /\ id # Unused /\ (type = "F" \/ type = "B" \/ type = "W")
    BY <1>4, AllocatorAssumption DEF Valid, Unused
  <2>2. CASE Chosen(type, n) = {}
    <3>1. reply' = "refused" /\ blocks' = blocks
      BY <1>4, <2>2 DEF Request
    <3>2. Regions' = Regions
      BY <3>1, SameRegions
    <3>3. type = "B" \/ Abstract!Fitting(n) = {}
      <4>1. CASE type = "F"
        BY <1>1, <2>1, <2>2, <4>1, FirstFit DEF Chosen
      <4>2. CASE type = "W"
        BY <1>1, <2>1, <2>2, <4>2, WorstFit DEF Chosen
      <4> QED BY <2>1, <4>1, <4>2
    <3> QED BY <1>2, <1>4, <3>1, <3>2, <3>3 DEF Abstract!Refuse, Regions, Processes, Region
  <2>3. CASE Chosen(type, n) # {}
    <3>1. reply' = "placed" /\ \E k \in Chosen(type, n) : blocks' = Divided(k, id, n)
      BY <1>4, <2>3 DEF Request
    <3>2. PICK k \in Chosen(type, n) : blocks' = Divided(k, id, n)
      BY <3>1
    <3>3. k \in DOMAIN blocks /\ IsHole(k) /\ blocks[k].size >= n
      BY <1>4, ChosenSuits
    <3>4. n <= blocks[k].size
      BY <3>3
    <3>5. Tiles(blocks')
      BY <1>1, <2>1, <3>2, <3>3, <3>4, DividedTiles
    <3>6. Regions' = Regions \cup {[id |-> id, start |-> blocks[k].start, size |-> n]}
      BY <1>1, <2>1, <3>2, <3>3, <3>4, <3>5, DividedRegions, NewRegions
    <3>7. Hole(k) \in Abstract!Preferred(type, Abstract!Fitting(n))
      <4>1. CASE type = "F"
        BY <1>1, <2>1, <4>1, FirstFit DEF Chosen
      <4>2. CASE type = "B"
        BY <1>1, <2>1, <4>2, BestFit DEF Chosen
      <4>3. CASE type = "W"
        BY <1>1, <2>1, <4>3, WorstFit DEF Chosen
      <4> QED BY <2>1, <4>1, <4>2, <4>3
    <3>8. Hole(k).start = blocks[k].start
      BY DEF Hole
    <3>9. \E hole \in Abstract!Preferred(type, Abstract!Fitting(n)) :
            Regions' = Regions \cup {[id |-> id, start |-> hole.start, size |-> n]}
      BY <3>6, <3>7, <3>8
    <3> QED BY <1>2, <1>4, <3>1, <3>9 DEF Abstract!Place, Regions, Processes, Region
  <2> QED BY <2>2, <2>3
<1> QED BY <1>3, <1>4

(* A release gives back the lowest region of the process, and no other.    *)
LEMMA ReleaseRefines ==
  ASSUME Inv, NEW id \in Ids, Release(id)
  PROVE  Abstract!Free(id)
<1>1. ListOK
  BY InvIsList DEF Inv, TypeOK
<1> DEFINE own == {k \in DOMAIN blocks : blocks[k].id = id}
           held == {r \in Regions : r.id = id}
<1>2. DOMAIN blocks = 1 .. Len(blocks) /\ Processes = {k \in 1 .. Len(blocks) : blocks[k].id # Unused}
  BY <1>1, ListFacts, RegionsOfBlocks DEF IsHole
<1>3. CASE own = {}
  <2>1. blocks' = blocks /\ reply' \in {"unknown", "invalid"}
    BY <1>3 DEF Release
  <2>2. Regions' = Regions
    BY <2>1, SameRegions
  <2>3. held = {}
    BY <1>2, <1>3 DEF Regions, Region
  <2> QED BY <2>1, <2>2, <2>3 DEF Abstract!Free, Regions, Processes, Region
<1>4. CASE own # {}
  <2>1. PICK k \in own : (\A j \in own : k <= j) /\ blocks' = Freed(k)
    BY <1>4 DEF Release
  <2>2. k \in DOMAIN blocks /\ k \in 1 .. Len(blocks) /\ blocks[k].id = id
    BY <1>2
  <2>3. Regions' = {Region(j) : j \in Processes \ {k}}
    <3>1. Tiles(blocks')
      BY <1>1, <2>1, <2>2, FreedTiles
    <3> QED BY <1>1, <2>1, <2>2, <3>1, FreedRegions, NewRegions
  <2>4. CASE id = Unused
    <3>1. k \notin Processes
      BY <1>2, <2>2, <2>4
    <3>2. Regions' = Regions
      BY <2>3, <3>1 DEF Regions
    <3>3. held = {}
      BY <1>2, <2>4 DEF Regions, Region
    <3>4. reply' = "invalid"
      BY <1>4, <2>4 DEF Release
    <3> QED BY <3>2, <3>3, <3>4 DEF Abstract!Free, Regions, Processes, Region
  <2>5. CASE id # Unused
    <3>1. k \in Processes
      BY <1>2, <2>2, <2>5
    <3>2. Region(k) \in held
      BY <2>2, <3>1 DEF Regions, Region
    <3>3. \A j \in Processes : j # k /\ blocks[j].id = id => blocks[k].start < blocks[j].start
      <4> SUFFICES ASSUME NEW j \in Processes, j # k, blocks[j].id = id
                   PROVE  blocks[k].start < blocks[j].start
        OBVIOUS
      <4>1. j \in own /\ j \in 1 .. Len(blocks)
        BY <1>2
      <4>2. k <= j
        BY <2>1, <4>1
      <4> QED BY <1>1, <2>2, <4>1, <4>2, LowerStart
    <3>4. \A s \in held : ~(s.start < blocks[k].start)
      <4> SUFFICES ASSUME NEW j \in Processes, blocks[j].id = id
                   PROVE  ~(blocks[j].start < blocks[k].start)
        BY DEF Regions, Region
      <4>1. blocks[j].start \in Int /\ blocks[k].start \in Int
        <5>1. j \in 1 .. Len(blocks)
          BY <1>2
        <5> QED BY <1>1, <2>2, <5>1, ListFacts
      <4> QED BY <3>3, <4>1
    <3>5. ASSUME NEW j \in Processes, j # k
          PROVE  Region(j) \notin held \/ \E s \in held : s.start < Region(j).start
      <4>1. CASE blocks[j].id # id
        BY <4>1 DEF Region
      <4>2. CASE blocks[j].id = id
        <5>1. blocks[k].start < blocks[j].start
          BY <3>3, <3>5, <4>2
        <5>2. Region(k).start < Region(j).start
          BY <5>1 DEF Region
        <5> QED BY <3>2, <5>2
      <4> QED BY <4>1, <4>2
    <3>6. Region(k) \in held /\ ~ \E s \in held : s.start < Region(k).start
      BY <3>2, <3>4 DEF Region
    <3>7. Regions' = {r \in Regions : r \notin held \/ \E s \in held : s.start < r.start}
      <4> HIDE DEF held
      <4> QED BY <2>3, <3>5, <3>6 DEF Regions
    <3>8. reply' = "released"
      BY <1>4, <2>5 DEF Release
    <3>9. held # {}
      BY <3>2
    <3> QED BY <3>7, <3>8, <3>9 DEF Abstract!Free, Regions, Processes, Region
  <2> QED BY <2>4, <2>5
<1> QED BY <1>3, <1>4

(* compact() moves every region down by the free addresses below it.       *)
LEMMA CompactRefines ==
  ASSUME Inv, Compact
  PROVE  Abstract!Compact
<1>1. ListOK
  BY InvIsList DEF Inv, TypeOK
<1>2. Len(blocks) \in Nat /\ Len(blocks) > 0 /\ Processes = {k \in 1 .. Len(blocks) : ~IsHole(k)}
  BY <1>1, ListFacts, RegionsOfBlocks
<1> DEFINE Down(r) == [r EXCEPT !.start = TakenBelow(r.start)]
<1>3. \A j : Down(Region(j)) = SlidDown(j)
  BY DEF Region, SlidDown
<1>4. {Down(r) : r \in Regions} = {SlidDown(j) : j \in Processes}
  <2> HIDE DEF Down
  <2> QED BY <1>3 DEF Regions
<1>5. Regions' = {SlidDown(j) : j \in Processes}
  <2>1. CASE Len(blocks) = 1
    <3>1. blocks' = blocks
      BY <2>1 DEF Compact
    <3>2. \A j \in Processes : j = 1
      BY <1>2, <2>1
    <3>3. blocks[1].start = 0 /\ TakenBelow(0) = 0
      BY <1>1, ListFacts, TakenGrows
    <3>4. \A j \in Processes : SlidDown(j) = Region(j)
      BY <3>2, <3>3 DEF SlidDown, Region
    <3> QED BY <3>1, <3>4, SameRegions DEF Regions
  <2>2. CASE Len(blocks) # 1
    <3>1. PICK s : s = AfterTurn[Len(blocks)].list
      OBVIOUS
    <3>2. PICK u : u = AfterTurn[Len(blocks)].unused_space
      OBVIOUS
    <3>3. PICK h : h = [id |-> Unused, start |-> Last(s).end + 1, end |-> MAX - 1, size |-> u]
      OBVIOUS
    <3>4. blocks' = Append(s, h)
      BY <2>2, <3>1, <3>2, <3>3 DEF Compact
    <3>5. Tiles(Append(s, h))
      BY <1>1, <2>2, <3>1, <3>2, <3>3, CompactTiles
    <3>6. s \in Seq(Block)
      <4>1. Len(blocks) \in 0 .. Len(blocks)
        BY <1>2
      <4>2. Compacting(Len(blocks), AfterTurn[Len(blocks)])
        BY <1>1, <4>1, AllTurns
      <4> QED BY <3>1, <4>2 DEF Compacting
    <3>7. h \in Block
      <4>1. Len(s) \in Nat /\ Append(s, h)[Len(s) + 1] = h
        BY <3>6, LenProperties
      <4>2. Len(Append(s, h)) = Len(s) + 1
        OBVIOUS
      <4>3. Append(s, h) \in Seq(Block) /\ Len(s) + 1 \in 1 .. Len(Append(s, h))
        BY <3>5, <4>1, <4>2 DEF Tiles
      <4> QED BY <4>1, <4>3, ElementOfSeq
    <3>8. RegionsOf(Append(s, h)) = RegionsOf(s)
      BY <3>3, <3>6, <3>7, AppendRegions
    <3>9. RegionsOf(s) = {SlidDown(j) : j \in Processes}
      BY <1>1, <1>2, <3>1, AllSlide DEF Sliding
    <3>10. Regions' = RegionsOf(blocks')
      BY <3>4, <3>5, NewRegions
    <3> QED BY <3>4, <3>8, <3>9, <3>10
  <2> QED BY <2>1, <2>2
<1>6. Regions' = {Down(r) : r \in Regions} /\ reply' = "none"
  BY <1>4, <1>5 DEF Compact
<1>7. \A r : TakenBelow(r.start) = Abstract!Cardinality(Abstract!Taken \cap (0 .. r.start - 1))
  BY DEF TakenBelow, Cardinality, Abstract!Cardinality
<1> HIDE DEF Abstract!Taken
<1> QED BY <1>6, <1>7 DEF Abstract!Compact, Regions, Processes, Region

(* allocator.c, all three strategies, release() and compact(): for every   *)
(* size of the memory the list does what a set of regions does.            *)
THEOREM ImplementsMemoryRegions == Spec => IsMemoryRegions
<1>1. Init => Abstract!Init
  BY DEF Init, Abstract!Init, IsHole
<1>2. Inv /\ [Next]_vars => [Abstract!Next]_(Abstract!rvars)
  <2> SUFFICES ASSUME Inv, [Next]_vars PROVE Abstract!Next \/ UNCHANGED Abstract!rvars
    OBVIOUS
  <2>1. CASE \E id \in Ids, n \in Sizes, type \in Types : Request(id, n, type)
    BY <2>1, RequestRefines DEF Abstract!Next
  <2>2. CASE \E id \in Ids : Release(id)
    BY <2>2, ReleaseRefines DEF Abstract!Next
  <2>3. CASE Compact
    BY <2>3, CompactRefines DEF Abstract!Next
  <2>4. CASE Exit \/ Terminated \/ UNCHANGED vars
    BY <2>4 DEF Exit, Terminated, vars, Abstract!rvars, IsHole
  <2> QED BY <2>1, <2>2, <2>3, <2>4 DEF Next
<1>3. Abstract!Spec <=> Abstract!Init /\ [][Abstract!Next]_(Abstract!rvars)
  BY DEF Abstract!Spec
<1> QED BY <1>1, <1>2, <1>3, InvHolds, PTL DEF Spec, IsMemoryRegions
=============================================================================
