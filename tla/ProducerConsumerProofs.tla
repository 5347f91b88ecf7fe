----------------------- MODULE ProducerConsumerProofs -----------------------
(***************************************************************************)
(* The bounded buffer for any number of threads and any size.              *)
(*                                                                         *)
(* The argument: while the mutex exists a thread inside the critical       *)
(* section is the only one there (Exclusive), and afterwards a thread that *)
(* meets another one at work there ends what is claimed; either way one    *)
(* thread at most is between its load and its store (OneCommits), so the   *)
(* value of curSize it loaded is still the value of curSize when it stores *)
(* (Loaded).  Hence every step of a thread moves one unit between the two  *)
(* semaphores, the counter and the threads, and the sums of SlotAccounting *)
(* do not change.  From the sums follows that insert_item() and            *)
(* remove_item() never fail.                                               *)
(***************************************************************************)
EXTENDS ProducerConsumer, FiniteSetTheorems, TLAPS

(* What a thread has loaded is in range, which keeps curSize between 0 and *)
(* BufferSize.                                                             *)
RegInRange ==
  \A t \in Threads : pc[t] = "commit" =>
    /\ t \in Producers => reg[t] \in 0 .. BufferSize - 1
    /\ t \in Consumers => reg[t] \in 1 .. BufferSize

(* The mutex exists until main is past the cancellations.                  *)
Alive == main \in {"sleep", "cancel"} => live

Exclusive ==
  live => /\ mutex = Inside
          /\ \A t, u \in Inside : t = u

OneCommits == \A t, u \in Threads : pc[t] = "commit" /\ pc[u] = "commit" => t = u

Loaded ==
  \A t \in Threads : pc[t] = "commit" =>
    /\ reg[t] = curSize
    /\ t \in Producers => buffer[curSize] = item[t]
    /\ t \in Consumers => item[t] = buffer[0]

(* Nobody has been cancelled while main sleeps.                            *)
Uncancelled ==
  main = "sleep" => cancelled = {} /\ \A t \in Threads : pc[t] \notin {"gone", "killed"}

(* A producer that holds a free slot has an item for it.                   *)
ItemReady ==
  \A p \in Producers : pc[p] \in {"lock", "crit", "commit"} => item[p] \in Items

Inv ==
  /\ TypeOK /\ RegInRange /\ Alive /\ Exclusive /\ OneCommits /\ Loaded
  /\ SlotAccounting /\ Uncancelled /\ ItemReady

ThreadStep(t) ==
  \/ t \in Producers /\ ProducerStep(t)
  \/ t \in Consumers /\ ConsumerStep(t)
  \/ CommonStep(t)
  \/ CancelStep(t)

LEMMA NextCases ==
  Next <=> (\E t \in Threads : ThreadStep(t)) \/ MainStep \/ Terminated
BY DEF Next, ThreadStep, Threads

-----------------------------------------------------------------------------
(* The size of a set that gains or loses the element t at most.            *)
LEMMA SizeStep ==
  ASSUME NEW A, IsFiniteSet(A), NEW B, NEW t, B = A \cup {t} \/ B = A \ {t}
  PROVE  /\ Cardinality(A) \in Nat
         /\ t \in A /\ t \in B => Cardinality(B) = Cardinality(A)
         /\ t \notin A /\ t \notin B => Cardinality(B) = Cardinality(A)
         /\ t \notin A /\ t \in B => Cardinality(B) = Cardinality(A) + 1
         /\ t \in A /\ t \notin B => Cardinality(B) = Cardinality(A) - 1
<1>1. Cardinality(A) \in Nat
  BY FS_CardinalityType
<1>2. ASSUME B = A \cup {t}
      PROVE  Cardinality(B) = IF t \in A THEN Cardinality(A) ELSE Cardinality(A) + 1
  BY <1>2, FS_AddElement
<1>3. ASSUME B = A \ {t}
      PROVE  Cardinality(B) = IF t \in A THEN Cardinality(A) - 1 ELSE Cardinality(A)
  BY <1>3, FS_RemoveElement
<1>4. CASE B = A \cup {t}
  BY <1>1, <1>2, <1>4
<1>5. CASE B = A \ {t}
  BY <1>1, <1>3, <1>5
<1> QED BY <1>4, <1>5

HoldingPlaces == {"lock", "crit", "commit"}
OwingPlaces == {"print", "unlock", "post", "killed"}

(* The sets that SlotAccounting counts when a producer moves from y to x. *)
LEMMA ProducerMoves ==
  ASSUME TypeOK, NEW p \in Producers, NEW y, NEW x, Goto(p, y, x)
  PROVE  /\ Cardinality(Holding(Producers)) \in Nat
         /\ Cardinality(Owing(Producers)) \in Nat
         /\ Cardinality(Holding(Producers)') = Cardinality(Holding(Producers))
              + (IF x \in HoldingPlaces THEN 1 ELSE 0) - (IF y \in HoldingPlaces THEN 1 ELSE 0)
         /\ Cardinality(Owing(Producers)') = Cardinality(Owing(Producers))
              + (IF x \in OwingPlaces THEN 1 ELSE 0) - (IF y \in OwingPlaces THEN 1 ELSE 0)
         /\ Holding(Consumers)' = Holding(Consumers)
         /\ Owing(Consumers)' = Owing(Consumers)
<1>1. \A u \in Threads : pc'[u] = IF u = p THEN x ELSE pc[u]
  BY DEF Goto, TypeOK, Threads
<1>2. p \notin Consumers /\ IsFiniteSet(Producers) /\ pc[p] = y
  BY ThreadsAssumption DEF Goto
<1>3. Holding(Consumers)' = Holding(Consumers) /\ Owing(Consumers)' = Owing(Consumers)
  BY <1>1, <1>2 DEF Holding, Owing, Threads
<1>4. IsFiniteSet(Holding(Producers)) /\ IsFiniteSet(Owing(Producers))
  BY <1>2, FS_Subset DEF Holding, Owing
<1>5. /\ p \in Holding(Producers) <=> y \in HoldingPlaces
      /\ p \in Holding(Producers)' <=> x \in HoldingPlaces
      /\ p \in Owing(Producers) <=> y \in OwingPlaces
      /\ p \in Owing(Producers)' <=> x \in OwingPlaces
  BY <1>1, <1>2 DEF Holding, Owing, HoldingPlaces, OwingPlaces, Threads
<1>6. \/ Holding(Producers)' = Holding(Producers) \cup {p}
      \/ Holding(Producers)' = Holding(Producers) \ {p}
  BY <1>1 DEF Holding, Threads
<1>7. \/ Owing(Producers)' = Owing(Producers) \cup {p}
      \/ Owing(Producers)' = Owing(Producers) \ {p}
  BY <1>1 DEF Owing, Threads
<1>8. /\ Cardinality(Holding(Producers)) \in Nat
      /\ Cardinality(Holding(Producers)') = Cardinality(Holding(Producers))
              + (IF x \in HoldingPlaces THEN 1 ELSE 0) - (IF y \in HoldingPlaces THEN 1 ELSE 0)
  BY <1>4, <1>5, <1>6, SizeStep
<1>9. /\ Cardinality(Owing(Producers)) \in Nat
      /\ Cardinality(Owing(Producers)') = Cardinality(Owing(Producers))
              + (IF x \in OwingPlaces THEN 1 ELSE 0) - (IF y \in OwingPlaces THEN 1 ELSE 0)
  BY <1>4, <1>5, <1>7, SizeStep
<1> QED BY <1>3, <1>8, <1>9

(* The same for a consumer.                                                *)
LEMMA ConsumerMoves ==
  ASSUME TypeOK, NEW c \in Consumers, NEW y, NEW x, Goto(c, y, x)
  PROVE  /\ Cardinality(Holding(Consumers)) \in Nat
         /\ Cardinality(Owing(Consumers)) \in Nat
         /\ Cardinality(Holding(Consumers)') = Cardinality(Holding(Consumers))
              + (IF x \in HoldingPlaces THEN 1 ELSE 0) - (IF y \in HoldingPlaces THEN 1 ELSE 0)
         /\ Cardinality(Owing(Consumers)') = Cardinality(Owing(Consumers))
              + (IF x \in OwingPlaces THEN 1 ELSE 0) - (IF y \in OwingPlaces THEN 1 ELSE 0)
         /\ Holding(Producers)' = Holding(Producers)
         /\ Owing(Producers)' = Owing(Producers)
<1>1. \A u \in Threads : pc'[u] = IF u = c THEN x ELSE pc[u]
  BY DEF Goto, TypeOK, Threads
<1>2. c \notin Producers /\ IsFiniteSet(Consumers) /\ pc[c] = y
  BY ThreadsAssumption DEF Goto
<1>3. Holding(Producers)' = Holding(Producers) /\ Owing(Producers)' = Owing(Producers)
  BY <1>1, <1>2 DEF Holding, Owing, Threads
<1>4. IsFiniteSet(Holding(Consumers)) /\ IsFiniteSet(Owing(Consumers))
  BY <1>2, FS_Subset DEF Holding, Owing
<1>5. /\ c \in Holding(Consumers) <=> y \in HoldingPlaces
      /\ c \in Holding(Consumers)' <=> x \in HoldingPlaces
      /\ c \in Owing(Consumers) <=> y \in OwingPlaces
      /\ c \in Owing(Consumers)' <=> x \in OwingPlaces
  BY <1>1, <1>2 DEF Holding, Owing, HoldingPlaces, OwingPlaces, Threads
<1>6. \/ Holding(Consumers)' = Holding(Consumers) \cup {c}
      \/ Holding(Consumers)' = Holding(Consumers) \ {c}
  BY <1>1 DEF Holding, Threads
<1>7. \/ Owing(Consumers)' = Owing(Consumers) \cup {c}
      \/ Owing(Consumers)' = Owing(Consumers) \ {c}
  BY <1>1 DEF Owing, Threads
<1>8. /\ Cardinality(Holding(Consumers)) \in Nat
      /\ Cardinality(Holding(Consumers)') = Cardinality(Holding(Consumers))
              + (IF x \in HoldingPlaces THEN 1 ELSE 0) - (IF y \in HoldingPlaces THEN 1 ELSE 0)
  BY <1>4, <1>5, <1>6, SizeStep
<1>9. /\ Cardinality(Owing(Consumers)) \in Nat
      /\ Cardinality(Owing(Consumers)') = Cardinality(Owing(Consumers))
              + (IF x \in OwingPlaces THEN 1 ELSE 0) - (IF y \in OwingPlaces THEN 1 ELSE 0)
  BY <1>4, <1>5, <1>7, SizeStep
<1> QED BY <1>3, <1>8, <1>9
-----------------------------------------------------------------------------
LEMMA InitInv == Init => Inv
<1> SUFFICES ASSUME Init PROVE Inv
  OBVIOUS
<1> USE BufferAssumption, ThreadsAssumption DEF Init
<1>1. TypeOK /\ RegInRange /\ Alive /\ OneCommits /\ Loaded /\ Uncancelled /\ ItemReady
  BY DEF TypeOK, RegInRange, Alive, OneCommits, Loaded, Uncancelled, ItemReady, Slots, Places, Threads
<1>2. Exclusive
  BY DEF Exclusive, Inside
<1>3. SlotAccounting
  <2>1. \A S \in {Producers, Consumers} : Holding(S) = {} /\ Owing(S) = {}
    BY DEF Holding, Owing, Threads
  <2> QED BY <2>1, FS_EmptySet DEF SlotAccounting
<1> QED BY <1>1, <1>2, <1>3 DEF Inv

(* The types and the range of what a thread has loaded.                    *)
LEMMA StepTypes ==
  ASSUME TypeOK, RegInRange, SlotAccounting, NEW t \in Threads, ThreadStep(t)
  PROVE  TypeOK' /\ RegInRange'
<1> USE BufferAssumption, ThreadsAssumption
    DEF TypeOK, RegInRange, Threads, Places, Slots, Goto, data, sync, local, shutdown
<1>1. CASE t \in Producers /\ WaitEmpty(t)
  BY <1>1 DEF WaitEmpty
<1>2. CASE t \in Producers /\ InsertItem(t)
  BY <1>2 DEF InsertItem
<1>3. CASE Race(t)
  BY <1>3 DEF Race
<1>4. CASE t \in Producers /\ InsertCommit(t)
  BY <1>4 DEF InsertCommit
<1>5. CASE t \in Producers /\ PostFull(t)
  BY <1>5 DEF PostFull, LoopTop
<1>6. CASE t \in Consumers /\ WaitFull(t)
  BY <1>6 DEF WaitFull
<1>7. CASE t \in Consumers /\ RemoveItem(t)
  BY <1>7 DEF RemoveItem
<1>9. CASE t \in Consumers /\ RemoveCommit(t)
  <2>1. reg[t] \in 1 .. BufferSize
    BY <1>9 DEF RemoveCommit
  <2>2. Shifted(reg[t] - 1) \in [Slots -> Items \cup {Vacant}]
    BY <2>1 DEF Shifted
  <2> QED BY <1>9, <2>1, <2>2 DEF RemoveCommit
<1>10. CASE t \in Consumers /\ PostEmpty(t)
  BY <1>10 DEF PostEmpty, LoopTop
<1>11. CASE Lock(t)
  BY <1>11 DEF Lock
<1>12. CASE Announce(t)
  BY <1>12 DEF Announce
<1>13. CASE Unlock(t)
  BY <1>13 DEF Unlock
<1>14. CASE CancelStep(t)
  BY <1>14 DEF CancelStep, CancelledWaiting, CancelledPrinting
<1> QED BY <1>1, <1>2, <1>3, <1>4, <1>5, <1>6, <1>7, <1>9, <1>10, <1>11, <1>12,
           <1>13, <1>14
        DEF ThreadStep, ProducerStep, ConsumerStep, CommonStep

(* What the threads may do to the mutex, by place.                         *)
LEMMA StepExclusive ==
  ASSUME TypeOK, Exclusive, NEW t \in Threads, ThreadStep(t)
  PROVE  Exclusive' /\ live' = live
<1> USE DEF TypeOK, Exclusive, Inside, Goto, data, sync, local, shutdown
<1>1. CASE Lock(t)
  BY <1>1 DEF Lock
<1>2. CASE Unlock(t)
  BY <1>2 DEF Unlock
<1>3. CASE t \in Producers /\ ProducerStep(t)
  BY <1>3 DEF ProducerStep, WaitEmpty, InsertItem, InsertCommit, PostFull, LoopTop
<1>4. CASE t \in Consumers /\ ConsumerStep(t)
  BY <1>4 DEF ConsumerStep, WaitFull, RemoveItem, RemoveCommit, PostEmpty, LoopTop
<1>5. CASE Race(t) \/ Announce(t) \/ CancelStep(t)
  BY <1>5 DEF Race, Announce, CancelStep, CancelledWaiting, CancelledPrinting
<1> QED BY <1>1, <1>2, <1>3, <1>4, <1>5 DEF ThreadStep, CommonStep

(* One thread at most is between its load and its store: with the mutex    *)
(* because it excludes, without it because a second one would race.        *)
LEMMA StepOneCommits ==
  ASSUME TypeOK, OneCommits, NEW t \in Threads, ThreadStep(t)
  PROVE  OneCommits'
<1> USE DEF TypeOK, OneCommits, Racing, Goto, data, sync, local, shutdown
<1>1. CASE t \in Producers /\ InsertItem(t)
  BY <1>1 DEF InsertItem
<1>2. CASE t \in Consumers /\ RemoveItem(t)
  BY <1>2 DEF RemoveItem
<1>3. CASE t \in Producers /\ (WaitEmpty(t) \/ InsertCommit(t) \/ PostFull(t))
  BY <1>3 DEF WaitEmpty, InsertCommit, PostFull, LoopTop
<1>4. CASE t \in Consumers /\ (WaitFull(t) \/ RemoveCommit(t) \/ PostEmpty(t))
  BY <1>4 DEF WaitFull, RemoveCommit, PostEmpty, LoopTop
<1>5. CASE CommonStep(t) \/ CancelStep(t)
  BY <1>5 DEF CommonStep, Lock, Race, Announce, Unlock, CancelStep, CancelledWaiting, CancelledPrinting
<1> QED BY <1>1, <1>2, <1>3, <1>4, <1>5 DEF ThreadStep, ProducerStep, ConsumerStep

(* Only that thread touches the buffer, so what it loaded stays true until *)
(* it stores.                                                              *)
LEMMA StepLoaded ==
  ASSUME TypeOK, OneCommits, Loaded, NEW t \in Threads, ThreadStep(t)
  PROVE  Loaded'
<1> USE ThreadsAssumption
    DEF TypeOK, OneCommits, Loaded, Racing, Threads, Goto, data, sync, local, shutdown
<1>1. CASE t \in Producers /\ InsertItem(t)
  BY <1>1, BufferAssumption DEF InsertItem, Slots
<1>2. CASE t \in Producers /\ InsertCommit(t)
  BY <1>2 DEF InsertCommit
<1>3. CASE t \in Producers /\ (WaitEmpty(t) \/ PostFull(t))
  BY <1>3 DEF WaitEmpty, PostFull, LoopTop
<1>4. CASE t \in Consumers /\ RemoveItem(t)
  BY <1>4 DEF RemoveItem
<1>5. CASE t \in Consumers /\ RemoveCommit(t)
  BY <1>5 DEF RemoveCommit
<1>6. CASE t \in Consumers /\ (WaitFull(t) \/ PostEmpty(t))
  BY <1>6 DEF WaitFull, PostEmpty, LoopTop
<1>7. CASE CommonStep(t)
  BY <1>7 DEF CommonStep, Lock, Race, Announce, Unlock
<1>8. CASE CancelStep(t)
  BY <1>8 DEF CancelStep, CancelledWaiting, CancelledPrinting
<1> QED BY <1>1, <1>2, <1>3, <1>4, <1>5, <1>6, <1>7, <1>8
        DEF ThreadStep, ProducerStep, ConsumerStep

(* A thread about to insert holds a free slot, and one about to remove     *)
(* holds an item.                                                          *)
LEMMA CritHasRoom ==
  ASSUME TypeOK, SlotAccounting, NEW t \in Threads, pc[t] = "crit"
  PROVE  /\ t \in Producers => curSize < BufferSize
         /\ t \in Consumers => curSize > 0
<1>1. \A S \in {Producers, Consumers} :
        /\ IsFiniteSet(Holding(S)) /\ IsFiniteSet(Owing(S))
        /\ Cardinality(Holding(S)) \in Nat /\ Cardinality(Owing(S)) \in Nat
  BY ThreadsAssumption, FS_Subset, FS_CardinalityType DEF Holding, Owing
<1>2. \A S \in {Producers, Consumers} : t \in S => t \in Holding(S)
  BY DEF Holding
<1>3. \A S \in {Producers, Consumers} : t \in S => Cardinality(Holding(S)) >= 1
  BY <1>1, <1>2, FS_EmptySet
<1> QED BY <1>1, <1>3, BufferAssumption DEF SlotAccounting, TypeOK

LEMMA StepAccounting ==
  ASSUME TypeOK, Loaded, SlotAccounting, NEW t \in Threads, ThreadStep(t)
  PROVE  SlotAccounting'
<1>2. /\ empty \in Nat /\ full \in Nat /\ curSize \in Nat /\ BufferSize \in Nat
      /\ empty + Cardinality(Holding(Producers)) + curSize
           + Cardinality(Owing(Consumers)) = BufferSize
      /\ full + Cardinality(Holding(Consumers)) + Cardinality(Owing(Producers)) = curSize
  BY BufferAssumption DEF TypeOK, SlotAccounting
<1>3. /\ t \in Producers /\ pc[t] = "crit" => curSize < BufferSize
      /\ t \in Consumers /\ pc[t] = "crit" => curSize > 0
  BY CritHasRoom
<1>4. pc[t] = "commit" => reg[t] = curSize
  BY DEF Loaded
<1>5. LoopTop(t) \in {"wait", "gone"}
  BY DEF LoopTop
<1> SUFFICES
      /\ empty' + Cardinality(Holding(Producers)') + curSize'
           + Cardinality(Owing(Consumers)') = BufferSize
      /\ full' + Cardinality(Holding(Consumers)') + Cardinality(Owing(Producers)') = curSize'
  BY DEF SlotAccounting
<1>6. CASE t \in Producers
  <2>1. Cardinality(Holding(Consumers)) \in Nat /\ Cardinality(Owing(Consumers)) \in Nat
    BY ThreadsAssumption, FS_Subset, FS_CardinalityType DEF Holding, Owing
  <2> DEFINE Moves(y, x) ==
        /\ Cardinality(Holding(Producers)) \in Nat
        /\ Cardinality(Owing(Producers)) \in Nat
        /\ Cardinality(Holding(Producers)') = Cardinality(Holding(Producers))
             + (IF x \in HoldingPlaces THEN 1 ELSE 0) - (IF y \in HoldingPlaces THEN 1 ELSE 0)
        /\ Cardinality(Owing(Producers)') = Cardinality(Owing(Producers))
             + (IF x \in OwingPlaces THEN 1 ELSE 0) - (IF y \in OwingPlaces THEN 1 ELSE 0)
        /\ Holding(Consumers)' = Holding(Consumers)
        /\ Owing(Consumers)' = Owing(Consumers)
  <2>2. ASSUME NEW y, NEW x, Goto(t, y, x) PROVE Moves(y, x)
    BY <1>6, <2>2, ProducerMoves
  <2> USE DEF HoldingPlaces, OwingPlaces, data, sync, local, shutdown
  <2>3. CASE WaitEmpty(t)
    <3>1. Moves("wait", "lock")
      BY <2>2, <2>3 DEF WaitEmpty
    <3> QED BY <3>1, <2>1, <2>3, <1>2 DEF WaitEmpty
  <2>4. CASE InsertItem(t)
    <3>1. curSize < BufferSize
      BY <2>4, <1>3, <1>6 DEF InsertItem, Goto
    <3>2. Moves("crit", "commit")
      BY <2>2, <2>4, <3>1 DEF InsertItem
    <3> QED BY <3>2, <2>1, <2>4, <1>2 DEF InsertItem
  <2>5. CASE Race(t)
    BY <2>5, <1>2 DEF Race, Holding, Owing
  <2>6. CASE InsertCommit(t)
    <3>1. Moves("commit", "print")
      BY <2>2, <2>6 DEF InsertCommit
    <3>2. curSize' = curSize + 1 /\ empty' = empty /\ full' = full
      BY <2>6, <1>4 DEF InsertCommit, Goto
    <3> QED BY <3>1, <3>2, <2>1, <1>2
  <2>7. CASE PostFull(t)
    <3>1. Moves("post", LoopTop(t))
      BY <2>2, <2>7 DEF PostFull
    <3> QED BY <3>1, <2>1, <2>7, <1>2, <1>5 DEF PostFull
  <2>8. CASE Lock(t)
    <3>1. Moves("lock", "crit")
      BY <2>2, <2>8 DEF Lock
    <3> QED BY <3>1, <2>1, <2>8, <1>2 DEF Lock
  <2>9. CASE Announce(t)
    <3>1. Moves("print", "unlock")
      BY <2>2, <2>9 DEF Announce
    <3> QED BY <3>1, <2>1, <2>9, <1>2 DEF Announce
  <2>10. CASE Unlock(t)
    <3>1. Moves("unlock", "post")
      BY <2>2, <2>10 DEF Unlock
    <3> QED BY <3>1, <2>1, <2>10, <1>2 DEF Unlock
  <2>11. CASE CancelledWaiting(t)
    <3>1. Moves("wait", "gone")
      BY <2>2, <2>11 DEF CancelledWaiting
    <3> QED BY <3>1, <2>1, <2>11, <1>2 DEF CancelledWaiting
  <2>12. CASE CancelledPrinting(t)
    <3>1. Moves("print", "killed")
      BY <2>2, <2>12 DEF CancelledPrinting
    <3> QED BY <3>1, <2>1, <2>12, <1>2 DEF CancelledPrinting
  <2>13. t \notin Consumers
    BY <1>6, ThreadsAssumption
  <2> QED BY <2>3, <2>4, <2>5, <2>6, <2>7, <2>8, <2>9, <2>10, <2>11, <2>12, <2>13
          DEF ThreadStep, ProducerStep, CommonStep, CancelStep
<1>7. CASE t \in Consumers
  <2>1. Cardinality(Holding(Producers)) \in Nat /\ Cardinality(Owing(Producers)) \in Nat
    BY ThreadsAssumption, FS_Subset, FS_CardinalityType DEF Holding, Owing
  <2> DEFINE Moves(y, x) ==
        /\ Cardinality(Holding(Consumers)) \in Nat
        /\ Cardinality(Owing(Consumers)) \in Nat
        /\ Cardinality(Holding(Consumers)') = Cardinality(Holding(Consumers))
             + (IF x \in HoldingPlaces THEN 1 ELSE 0) - (IF y \in HoldingPlaces THEN 1 ELSE 0)
        /\ Cardinality(Owing(Consumers)') = Cardinality(Owing(Consumers))
             + (IF x \in OwingPlaces THEN 1 ELSE 0) - (IF y \in OwingPlaces THEN 1 ELSE 0)
        /\ Holding(Producers)' = Holding(Producers)
        /\ Owing(Producers)' = Owing(Producers)
  <2>2. ASSUME NEW y, NEW x, Goto(t, y, x) PROVE Moves(y, x)
    BY <1>7, <2>2, ConsumerMoves
  <2> USE DEF HoldingPlaces, OwingPlaces, data, sync, local, shutdown
  <2>3. CASE WaitFull(t)
    <3>1. Moves("wait", "lock")
      BY <2>2, <2>3 DEF WaitFull
    <3> QED BY <3>1, <2>1, <2>3, <1>2 DEF WaitFull
  <2>4. CASE RemoveItem(t)
    <3>1. curSize > 0
      BY <2>4, <1>3, <1>7 DEF RemoveItem, Goto
    <3>2. Moves("crit", "commit")
      BY <2>2, <2>4, <3>1 DEF RemoveItem
    <3> QED BY <3>2, <2>1, <2>4, <1>2 DEF RemoveItem
  <2>5. CASE Race(t)
    BY <2>5, <1>2 DEF Race, Holding, Owing
  <2>6. CASE RemoveCommit(t)
    <3>1. Moves("commit", "print")
      BY <2>2, <2>6 DEF RemoveCommit
    <3>2. curSize' = curSize - 1 /\ empty' = empty /\ full' = full
      BY <2>6, <1>4 DEF RemoveCommit, Goto
    <3> QED BY <3>1, <3>2, <2>1, <1>2
  <2>7. CASE PostEmpty(t)
    <3>1. Moves("post", LoopTop(t))
      BY <2>2, <2>7 DEF PostEmpty
    <3> QED BY <3>1, <2>1, <2>7, <1>2, <1>5 DEF PostEmpty
  <2>8. CASE Lock(t)
    <3>1. Moves("lock", "crit")
      BY <2>2, <2>8 DEF Lock
    <3> QED BY <3>1, <2>1, <2>8, <1>2 DEF Lock
  <2>9. CASE Announce(t)
    <3>1. Moves("print", "unlock")
      BY <2>2, <2>9 DEF Announce
    <3> QED BY <3>1, <2>1, <2>9, <1>2 DEF Announce
  <2>10. CASE Unlock(t)
    <3>1. Moves("unlock", "post")
      BY <2>2, <2>10 DEF Unlock
    <3> QED BY <3>1, <2>1, <2>10, <1>2 DEF Unlock
  <2>11. CASE CancelledWaiting(t)
    <3>1. Moves("wait", "gone")
      BY <2>2, <2>11 DEF CancelledWaiting
    <3> QED BY <3>1, <2>1, <2>11, <1>2 DEF CancelledWaiting
  <2>12. CASE CancelledPrinting(t)
    <3>1. Moves("print", "killed")
      BY <2>2, <2>12 DEF CancelledPrinting
    <3> QED BY <3>1, <2>1, <2>12, <1>2 DEF CancelledPrinting
  <2>13. t \notin Producers
    BY <1>7, ThreadsAssumption
  <2> QED BY <2>3, <2>4, <2>5, <2>6, <2>7, <2>8, <2>9, <2>10, <2>11, <2>12, <2>13
          DEF ThreadStep, ConsumerStep, CommonStep, CancelStep
<1> QED BY <1>6, <1>7 DEF Threads

LEMMA StepUncancelled ==
  ASSUME TypeOK, Uncancelled, NEW t \in Threads, ThreadStep(t)
  PROVE  Uncancelled' /\ main' \in {main, "undefined"}
<1> USE DEF TypeOK, Uncancelled, Goto, data, sync, local, shutdown
<1>1. CASE t \in Producers /\ ProducerStep(t)
  BY <1>1 DEF ProducerStep, WaitEmpty, InsertItem, InsertCommit, PostFull, LoopTop
<1>2. CASE t \in Consumers /\ ConsumerStep(t)
  BY <1>2 DEF ConsumerStep, WaitFull, RemoveItem, RemoveCommit, PostEmpty, LoopTop
<1>3. CASE CommonStep(t) \/ CancelStep(t)
  BY <1>3 DEF CommonStep, Lock, Race, Announce, Unlock, CancelStep, CancelledWaiting, CancelledPrinting
<1> QED BY <1>1, <1>2, <1>3 DEF ThreadStep

LEMMA StepItemReady ==
  ASSUME TypeOK, ItemReady, NEW t \in Threads, ThreadStep(t)
  PROVE  ItemReady'
<1> USE ThreadsAssumption DEF TypeOK, ItemReady, Threads, Goto, data, sync, local, shutdown
<1>1. CASE t \in Producers /\ ProducerStep(t)
  BY <1>1 DEF ProducerStep, WaitEmpty, InsertItem, InsertCommit, PostFull, LoopTop
<1>2. CASE t \in Consumers /\ ConsumerStep(t)
  BY <1>2 DEF ConsumerStep, WaitFull, RemoveItem, RemoveCommit, PostEmpty, LoopTop
<1>3. CASE CommonStep(t) \/ CancelStep(t)
  BY <1>3 DEF CommonStep, Lock, Race, Announce, Unlock, CancelStep, CancelledWaiting, CancelledPrinting
<1> QED BY <1>1, <1>2, <1>3 DEF ThreadStep

(* Whatever a thread does keeps Inv.                                       *)
LEMMA ThreadInv ==
  ASSUME Inv, NEW t \in Threads, ThreadStep(t)
  PROVE  Inv'
<1>1. TypeOK' /\ RegInRange'
  BY StepTypes DEF Inv
<1>2. Exclusive' /\ live' = live
  BY StepExclusive DEF Inv
<1>3. OneCommits' /\ Loaded'
  BY StepOneCommits, StepLoaded DEF Inv
<1>4. SlotAccounting'
  BY StepAccounting DEF Inv
<1>5. Uncancelled' /\ main' \in {main, "undefined"}
  BY StepUncancelled DEF Inv
<1>6. Alive'
  BY <1>2, <1>5 DEF Inv, Alive
<1>7. ItemReady'
  BY StepItemReady DEF Inv
<1> QED BY <1>1, <1>2, <1>3, <1>4, <1>5, <1>6, <1>7 DEF Inv

(* main() can only end the existence of the mutex.                         *)
LEMMA MainInv ==
  ASSUME Inv, MainStep
  PROVE  Inv'
<1>1. /\ UNCHANGED <<data, mutex, full, empty, pc, local>>
      /\ live' => live
      /\ Alive'
      /\ TypeOK'
  <2> USE DEF Inv, Alive, TypeOK, data, sync, local, shutdown
  <2>1. CASE WakeUp
    BY <2>1 DEF WakeUp
  <2>2. CASE DestroyMutex
    BY <2>2 DEF DestroyMutex
  <2>3. CASE Exit
    BY <2>3 DEF Exit
  <2>4. ASSUME NEW t \in Threads, Cancel(t)
        PROVE  /\ UNCHANGED <<data, mutex, live, full, empty, pc, local, main>>
               /\ cancelled' \in SUBSET Threads
    BY <2>4 DEF Cancel
  <2> QED BY <2>1, <2>2, <2>3, <2>4 DEF MainStep
<1>2. /\ Inside' = Inside
      /\ \A S : Holding(S)' = Holding(S) /\ Owing(S)' = Owing(S)
  BY <1>1 DEF Inside, Holding, Owing
<1>3. RegInRange' /\ Exclusive' /\ OneCommits' /\ Loaded'
  BY <1>1, <1>2 DEF Inv, RegInRange, Exclusive, OneCommits, Loaded, data, local
<1>4. SlotAccounting'
  BY <1>1, <1>2 DEF Inv, SlotAccounting, data
<1>5. Uncancelled' /\ ItemReady'
  BY <1>1 DEF Inv, ItemReady, local, Uncancelled, MainStep, WakeUp, Cancel, DestroyMutex, Exit
<1> QED BY <1>1, <1>3, <1>4, <1>5 DEF Inv

LEMMA NextInv == Inv /\ [Next]_vars => Inv'
<1> SUFFICES ASSUME Inv, [Next]_vars PROVE Inv'
  OBVIOUS
<1>1. CASE UNCHANGED vars
  BY <1>1 DEF Inv, TypeOK, RegInRange, Alive, Exclusive, OneCommits, Loaded,
              SlotAccounting, Uncancelled, ItemReady, Inside,
              Holding, Owing, vars, data, sync, local, shutdown
<1>2. CASE Next
  BY <1>1, <1>2, NextCases, ThreadInv, MainInv DEF Terminated
<1> QED BY <1>1, <1>2

(* The inductive invariant, for any threads and any buffer.                *)
THEOREM InvHolds == Spec => []Inv
BY InitInv, NextInv, PTL DEF Spec

(* The variables keep their types: curSize stays in the array, after the   *)
(* destruction of the mutex too, until two calls overlap.                  *)
THEOREM TypeCorrect == Spec => []TypeOK
<1>1. Inv => TypeOK
  BY DEF Inv
<1> QED BY <1>1, InvHolds, PTL

(* The two semaphores add up with the counter until two calls overlap.     *)
THEOREM SlotsAccountedFor == Spec => []SlotAccounting
<1>1. Inv => SlotAccounting
  BY DEF Inv
<1> QED BY <1>1, InvHolds, PTL

(* The mutex excludes.                                                     *)
THEOREM MutexExcludes == Spec => []MutualExclusion
<1>1. Inv => MutualExclusion
  BY DEF Inv, Exclusive, MutualExclusion
<1> QED BY <1>1, InvHolds, PTL

(* No insert_item() and no remove_item() fails until two calls overlap.    *)
THEOREM OperationsSucceed == Spec => []NoFailedOperation
<1>1. Inv => NoFailedOperation
  BY CritHasRoom DEF Inv, NoFailedOperation, Threads
<1> QED BY <1>1, InvHolds, PTL

(* As long as main sleeps some thread can run: if all of them waited, both *)
(* semaphores would be zero although every slot is free or full.           *)
THEOREM NeverStalls == Spec => []NoStall
<1>1. ASSUME Inv, main = "sleep", \A t \in Threads : ~CanRun(t) PROVE FALSE
  <2> USE DEF Inv
  <2>1. live
    BY <1>1 DEF Alive
  <2>2. \A t \in Threads : pc[t] \in {"wait", "lock"}
    BY <1>1 DEF TypeOK, Uncancelled, CanRun, Places
  <2>3. mutex = {}
    BY <1>1, <2>1, <2>2 DEF Exclusive, Inside
  <2>4. \A t \in Threads : pc[t] = "wait"
    BY <1>1, <2>2, <2>3 DEF CanRun
  <2>5. \A S \in {Producers, Consumers} : Holding(S) = {} /\ Owing(S) = {}
    BY <2>4 DEF Holding, Owing, Threads
  <2>6. empty + curSize = BufferSize /\ full = curSize
    <3>1. \A S \in {Producers, Consumers} :
            Cardinality(Holding(S)) = 0 /\ Cardinality(Owing(S)) = 0
      BY <2>5, FS_EmptySet
    <3>2. empty \in Nat /\ full \in Nat /\ curSize \in Nat
      BY <1>1, BufferAssumption DEF TypeOK
    <3>3. SlotAccounting
      BY <1>1
    <3> QED BY <3>1, <3>2, <3>3 DEF SlotAccounting
  <2>7. PICK p \in Producers : TRUE
    BY ThreadsAssumption
  <2>8. PICK c \in Consumers : c \notin Producers
    BY ThreadsAssumption
  <2>9. ~(empty > 0) /\ ~(full > 0)
    BY <1>1, <2>4, <2>7, <2>8 DEF CanRun, Threads
  <2> QED BY <1>1, <2>6, <2>9, BufferAssumption DEF TypeOK
<1>2. Inv => NoStall
  BY <1>1 DEF NoStall
<1> QED BY <1>2, InvHolds, PTL

-----------------------------------------------------------------------------
LEMMA TailOf ==
  ASSUME NEW S, NEW q \in Seq(S), q # << >>
  PROVE  /\ Tail(q) \in Seq(S) /\ Len(Tail(q)) = Len(q) - 1
         /\ \A i \in 1 .. Len(q) - 1 : Tail(q)[i] = q[i + 1]
OBVIOUS

(* The first n slots as a queue, when the last of them is filled and when  *)
(* the first of them is taken out and the others move forward.             *)
LEMMA QueueAppends ==
  ASSUME NEW S, NEW n \in Nat, NEW f, NEW g,
         \A i \in 1 .. n : f[i - 1] \in S /\ g[i - 1] = f[i - 1], g[n] \in S
  PROVE  /\ Len([i \in 1 .. n |-> f[i - 1]]) = n
         /\ [i \in 1 .. n + 1 |-> g[i - 1]] = Append([i \in 1 .. n |-> f[i - 1]], g[n])
OBVIOUS

LEMMA QueueTakes ==
  ASSUME NEW S, NEW n \in Nat \ {0}, NEW f, NEW g,
         \A i \in 1 .. n : f[i - 1] \in S, \A i \in 1 .. n - 1 : g[i - 1] = f[i]
  PROVE  /\ [i \in 1 .. n |-> f[i - 1]] # << >>
         /\ [i \in 1 .. n - 1 |-> g[i - 1]] = Tail([i \in 1 .. n |-> f[i - 1]])
         /\ f[0] = Head([i \in 1 .. n |-> f[i - 1]])
<1> DEFINE q == [i \in 1 .. n |-> f[i - 1]]
<1>1. q \in Seq(S) /\ Len(q) = n /\ q[1] = f[0]
  OBVIOUS
<1>2. q # << >> /\ Head(q) = q[1]
  BY <1>1
<1>3. /\ Tail(q) \in Seq(S) /\ Len(Tail(q)) = n - 1
      /\ \A i \in 1 .. n - 1 : Tail(q)[i] = q[i + 1]
  <2> HIDE DEF q
  <2> QED BY <1>1, <1>2, TailOf
<1>4. \A i \in 1 .. n - 1 : q[i + 1] = f[i]
  OBVIOUS
<1>5. Tail(q) = [i \in 1 .. n - 1 |-> g[i - 1]]
  <2>1. Tail(q) = [i \in 1 .. n - 1 |-> Tail(q)[i]]
    BY <1>3
  <2>2. \A i \in 1 .. n - 1 : Tail(q)[i] = g[i - 1]
    BY <1>3, <1>4
  <2> QED BY <2>1, <2>2
<1> QED BY <1>1, <1>2, <1>5

(* The abstract state, as the refinement mapping computes it.              *)
QueueOf == [i \in 1 .. curSize |-> buffer[i - 1]]
OfferedBy(p) == IF pc[p] \in {"lock", "crit", "commit"} THEN item[p] ELSE Vacant
TakenBy(c) == IF pc[c] \in {"print", "unlock", "post", "killed"} THEN item[c] ELSE Vacant

Offers == [p \in Producers |-> OfferedBy(p)]
Takings == [c \in Consumers |-> TakenBy(c)]
Closed == main = "undefined"

(* When the four components keep their values the abstract step stutters.  *)
LEMMA Mapped ==
  ASSUME UNCHANGED <<QueueOf, Offers, Takings, Closed>>
  PROVE  UNCHANGED Abstract!bvars
BY DEF Abstract!bvars, QueueOf, OfferedBy, TakenBy, Offers, Takings, Closed

(* The steps that the buffer does not see.                                 *)
LEMMA HiddenStep ==
  ASSUME Inv, NEW t \in Threads, ThreadStep(t),
         ~(t \in Producers /\ (WaitEmpty(t) \/ InsertCommit(t))),
         ~(t \in Consumers /\ (RemoveCommit(t) \/ PostEmpty(t)))
  PROVE  QueueOf' = QueueOf /\ Offers' = Offers /\ Takings' = Takings
<1> USE ThreadsAssumption
    DEF Inv, TypeOK, QueueOf, OfferedBy, TakenBy, Offers, Takings, Goto, Threads,
        data, sync, local, shutdown
<1>1. CASE t \in Producers /\ InsertItem(t)
  <2>1. curSize < BufferSize
    BY <1>1, CritHasRoom DEF InsertItem
  <2>2. \A i \in 1 .. curSize : buffer'[i - 1] = buffer[i - 1]
    BY <1>1, <2>1, BufferAssumption DEF InsertItem, Slots
  <2> QED BY <1>1, <2>1, <2>2 DEF InsertItem
<1>3. CASE t \in Producers /\ PostFull(t)
  BY <1>3 DEF PostFull, LoopTop
<1>4. CASE t \in Consumers /\ WaitFull(t)
  BY <1>4 DEF WaitFull
<1>5. CASE t \in Consumers /\ RemoveItem(t)
  <2>1. curSize > 0
    BY <1>5, CritHasRoom DEF RemoveItem
  <2> QED BY <1>5, <2>1 DEF RemoveItem
<1>7. CASE CommonStep(t)
  BY <1>7 DEF CommonStep, Lock, Race, Announce, Unlock
<1>8. CASE CancelStep(t)
  BY <1>8 DEF CancelStep, CancelledWaiting, CancelledPrinting
<1> QED BY <1>1, <1>3, <1>4, <1>5, <1>7, <1>8 DEF ThreadStep, ProducerStep, ConsumerStep

(* The four steps that it does see.                                        *)
LEMMA OfferStep ==
  ASSUME Inv, NEW t \in Producers, WaitEmpty(t)
  PROVE  \E v \in Items : Abstract!Offer(t, v)
<1> USE ThreadsAssumption
    DEF Inv, TypeOK, QueueOf, OfferedBy, TakenBy, Offers, Takings, Goto, Threads,
        data, sync, local, shutdown
<1>1. PICK v \in Items : item' = [item EXCEPT ![t] = v]
  BY DEF WaitEmpty
<1>2. QueueOf' = QueueOf /\ Takings' = Takings /\ Closed' = Closed
  BY <1>1 DEF WaitEmpty, Closed
<1>3. Offers[t] = Vacant /\ Offers' = [Offers EXCEPT ![t] = v]
  BY <1>1 DEF WaitEmpty
<1> HIDE DEF QueueOf, Offers, Takings, OfferedBy, TakenBy, Closed
<1>4. Abstract!Offer(t, v) <=>
        /\ Offers[t] = Vacant
        /\ Offers' = [Offers EXCEPT ![t] = v]
        /\ UNCHANGED <<QueueOf, Takings, Closed>>
  BY DEF Abstract!Offer, QueueOf, Offers, Takings, OfferedBy, TakenBy, Closed
<1> QED BY <1>2, <1>3, <1>4

LEMMA PutStep ==
  ASSUME Inv, NEW t \in Producers, InsertCommit(t)
  PROVE  Abstract!Put(t)
<1> USE ThreadsAssumption DEF Inv, TypeOK, Goto, Threads, data, sync, local, shutdown
<1>1. pc[t] = "commit" /\ curSize' = curSize + 1 /\ buffer[curSize] = item[t]
  BY DEF InsertCommit, Loaded
<1>2. curSize \in Nat /\ curSize < BufferSize
  BY <1>1, BufferAssumption DEF InsertCommit, RegInRange, Loaded
<1>3. buffer' = buffer
  BY DEF InsertCommit
<1>4. \A i \in 1 .. curSize : buffer[i - 1] \in Items \cup {Vacant}
  BY <1>2, BufferAssumption DEF Slots
<1>5. buffer[curSize] \in Items \cup {Vacant}
  BY <1>2, BufferAssumption DEF Slots
<1>6. Len(QueueOf) = curSize /\ QueueOf' = Append(QueueOf, buffer[curSize])
  <2>1. [i \in 1 .. curSize + 1 |-> buffer[i - 1]] = Append(QueueOf, buffer[curSize])
    BY <1>2, <1>4, <1>5, QueueAppends DEF QueueOf
  <2>2. Len(QueueOf) = curSize
    BY <1>2, <1>4, <1>5, QueueAppends DEF QueueOf
  <2> QED BY <2>1, <2>2, <1>1, <1>3 DEF QueueOf
<1>7. Offers[t] = item[t] /\ item[t] \in Items /\ Offers' = [Offers EXCEPT ![t] = Vacant]
  BY <1>1 DEF InsertCommit, Offers, OfferedBy, ItemReady
<1>8. Takings' = Takings /\ Closed' = Closed
  BY DEF InsertCommit, Takings, TakenBy, Closed
<1>9. Abstract!Put(t) <=>
        /\ Offers[t] # Vacant
        /\ Len(QueueOf) < BufferSize
        /\ QueueOf' = Append(QueueOf, Offers[t])
        /\ Offers' = [Offers EXCEPT ![t] = Vacant]
        /\ UNCHANGED <<Takings, Closed>>
  BY DEF Abstract!Put, QueueOf, Offers, Takings, OfferedBy, TakenBy, Closed
<1> QED BY <1>1, <1>2, <1>6, <1>7, <1>8, <1>9, BufferAssumption

LEMMA TakeStep ==
  ASSUME Inv, NEW t \in Consumers, RemoveCommit(t)
  PROVE  Abstract!Take(t)
<1> USE ThreadsAssumption DEF Inv, TypeOK, Goto, Threads, data, sync, local, shutdown
<1>1. pc[t] = "commit" /\ reg[t] = curSize /\ curSize' = curSize - 1 /\ item[t] = buffer[0]
  BY DEF RemoveCommit, Loaded
<1>2. curSize \in 1 .. BufferSize
  BY <1>1 DEF RegInRange
<1>3. buffer' = Shifted(curSize - 1)
  BY <1>1 DEF RemoveCommit
<1>4. \A i \in 1 .. curSize : buffer[i - 1] \in Items \cup {Vacant}
  BY <1>2, BufferAssumption DEF Slots
<1>5. \A i \in 1 .. curSize - 1 : buffer'[i - 1] = buffer[i]
  BY <1>2, <1>3, BufferAssumption DEF Shifted, Slots
<1>6. QueueOf # << >> /\ QueueOf' = Tail(QueueOf) /\ buffer[0] = Head(QueueOf)
  <2>1. /\ QueueOf # << >>
        /\ [i \in 1 .. curSize - 1 |-> buffer'[i - 1]] = Tail(QueueOf)
        /\ buffer[0] = Head(QueueOf)
    BY <1>2, <1>4, <1>5, QueueTakes DEF QueueOf
  <2> QED BY <2>1, <1>1 DEF QueueOf
<1>7. Takings[t] = Vacant /\ Takings' = [Takings EXCEPT ![t] = item[t]]
  BY <1>1 DEF RemoveCommit, Takings, TakenBy
<1>8. Offers' = Offers /\ Closed' = Closed
  BY DEF RemoveCommit, Offers, OfferedBy, Closed
<1>9. Abstract!Take(t) <=>
        /\ Takings[t] = Vacant
        /\ QueueOf # << >>
        /\ Takings' = [Takings EXCEPT ![t] = Head(QueueOf)]
        /\ QueueOf' = Tail(QueueOf)
        /\ UNCHANGED <<Offers, Closed>>
  BY DEF Abstract!Take, QueueOf, Offers, Takings, OfferedBy, TakenBy, Closed
<1> QED BY <1>1, <1>6, <1>7, <1>8, <1>9

LEMMA FinishStep ==
  ASSUME Inv, NEW t \in Consumers, PostEmpty(t)
  PROVE  Abstract!Finish(t) \/ UNCHANGED Abstract!bvars
<1> USE ThreadsAssumption DEF Inv, TypeOK, Goto, Threads, data, sync, local, shutdown
<1>1. Takings[t] = item[t] /\ Takings' = [Takings EXCEPT ![t] = Vacant]
  BY DEF PostEmpty, LoopTop, Takings, TakenBy
<1>2. QueueOf' = QueueOf /\ Offers' = Offers /\ Closed' = Closed
  BY DEF PostEmpty, LoopTop, QueueOf, Offers, OfferedBy, Closed
<1>3. Abstract!Finish(t) <=>
        /\ Takings[t] # Vacant
        /\ Takings' = [Takings EXCEPT ![t] = Vacant]
        /\ UNCHANGED <<QueueOf, Offers, Closed>>
  BY DEF Abstract!Finish, QueueOf, Offers, Takings, OfferedBy, TakenBy, Closed
<1>4. CASE Takings[t] = Vacant
  <2>1. Takings' = Takings
    BY <1>1, <1>4 DEF Takings
  <2> QED BY <2>1, <1>2, Mapped
<1> QED BY <1>1, <1>2, <1>3, <1>4

(* Once the buffer is closed nothing is promised, and it stays closed.     *)
LEMMA StaysClosed == ASSUME [Next]_vars, Closed PROVE Closed'
<1>1. CASE UNCHANGED vars
  BY <1>1 DEF vars, shutdown, Closed
<1>2. ASSUME NEW t \in Threads, ThreadStep(t) PROVE FALSE
  BY <1>2 DEF ThreadStep, ProducerStep, WaitEmpty, InsertItem, InsertCommit, PostFull,
              ConsumerStep, WaitFull, RemoveItem, RemoveCommit, PostEmpty,
              CommonStep, Lock, Race, Announce, Unlock,
              CancelStep, CancelledWaiting, CancelledPrinting, Goto, Over, Closed
<1>3. CASE MainStep
  BY <1>3 DEF MainStep, WakeUp, Cancel, DestroyMutex, Exit, Closed
<1> QED BY <1>1, <1>2, <1>3, NextCases DEF Terminated

(* Only a race closes the buffer.                                          *)
LEMMA StaysOpen == ASSUME NEW t \in Threads, ThreadStep(t), ~Race(t) PROVE Closed' = Closed
BY DEF ThreadStep, ProducerStep, WaitEmpty, InsertItem, InsertCommit, PostFull,
       ConsumerStep, WaitFull, RemoveItem, RemoveCommit, PostEmpty,
       CommonStep, Lock, Announce, Unlock,
       CancelStep, CancelledWaiting, CancelledPrinting, Closed, shutdown

LEMMA RefinementStep == ASSUME Inv, [Next]_vars PROVE [Abstract!Next]_(Abstract!bvars)
<1>1. CASE Closed
  <2>1. Closed'
    BY <1>1, StaysClosed
  <2> QED BY <1>1, <2>1 DEF Abstract!Next, Closed
<1>2. CASE UNCHANGED vars
  <2>1. UNCHANGED <<QueueOf, Offers, Takings, Closed>>
    BY <1>2 DEF vars, data, sync, local, shutdown, QueueOf, Offers, Takings, OfferedBy,
                TakenBy, Closed
  <2> QED BY <2>1, Mapped
<1>3. ASSUME ~Closed, NEW t \in Threads, ThreadStep(t)
      PROVE  [Abstract!Next]_(Abstract!bvars)
  <2>1. CASE t \in Producers /\ WaitEmpty(t)
    BY <2>1, OfferStep DEF Abstract!Next
  <2>2. CASE t \in Producers /\ InsertCommit(t)
    BY <2>2, PutStep DEF Abstract!Next
  <2>3. CASE t \in Consumers /\ RemoveCommit(t)
    BY <2>3, TakeStep DEF Abstract!Next
  <2>4. CASE t \in Consumers /\ PostEmpty(t)
    BY <2>4, FinishStep DEF Abstract!Next
  <2>5. CASE Race(t)
    <3>1. Closed' = TRUE /\ UNCHANGED <<QueueOf, Offers, Takings>>
      BY <2>5 DEF Race, data, sync, local, Closed, QueueOf, Offers, Takings, OfferedBy, TakenBy
    <3>2. Abstract!Close <=> Closed' = TRUE /\ UNCHANGED <<QueueOf, Offers, Takings>>
      BY DEF Abstract!Close, Closed, QueueOf, Offers, Takings, OfferedBy, TakenBy
    <3> QED BY <3>1, <3>2 DEF Abstract!Next
  <2>6. ~Race(t) => Closed' = Closed
    BY <1>3, StaysOpen
  <2> QED BY <1>3, <2>1, <2>2, <2>3, <2>4, <2>5, <2>6, HiddenStep, Mapped
<1>4. CASE ~Closed /\ MainStep
  <2>1. UNCHANGED <<QueueOf, Offers, Takings, Closed>>
    BY <1>4 DEF MainStep, WakeUp, Cancel, DestroyMutex, Exit, data, sync, local, shutdown,
                QueueOf, Offers, Takings, OfferedBy, TakenBy, Closed
  <2> QED BY <2>1, Mapped
<1> QED BY <1>1, <1>2, <1>3, <1>4, NextCases DEF Terminated

LEMMA RefinementInit == Init => Abstract!Init
BY BufferAssumption DEF Init, Abstract!Init, Threads

(* The program implements the FIFO buffer: what its producers put is taken *)
(* in that order, each item once, until two calls overlap, which they can  *)
(* only do when the mutex is destroyed.                                    *)
THEOREM ImplementsBoundedBuffer == Spec => IsBoundedBuffer
<1>1. Inv /\ [Next]_vars => [Abstract!Next]_(Abstract!bvars)
  BY RefinementStep
<1>2. Abstract!Spec <=> Abstract!Init /\ [][Abstract!Next]_(Abstract!bvars)
  BY DEF Abstract!Spec
<1> QED BY <1>1, <1>2, RefinementInit, InvHolds, PTL DEF Spec, IsBoundedBuffer
=============================================================================
