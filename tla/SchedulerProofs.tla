-------------------------- MODULE SchedulerProofs ---------------------------
(***************************************************************************)
(* The five schedulers for any file, any bursts and priorities and any     *)
(* quantum.                                                                *)
(*                                                                         *)
(* The argument: if the names of the tasks differ, the node that delete()  *)
(* finds is the one that was chosen, so no task is twice in the list and   *)
(* each has got what it does not need any more (EachGetsItsBurst).  The    *)
(* search keeps the best node passed so far, and of equal ones the one     *)
(* nearest to the end of the list, which came first (BestSoFar).  Read     *)
(* from its end, the list then is the queue of ReadyQueue.  Under SJF the  *)
(* tasks run in the order of their bursts (ShortestFirst), and comparing   *)
(* the tasks two by two shows that no order of them waits less.            *)
(***************************************************************************)
EXTENDS Scheduler, FiniteSetTheorems, SequenceTheorems, WellFoundedInduction, TLAPS

(* Removing an entry closes the gap.                                       *)
LEMMA RemoveAtProperties ==
  ASSUME NEW S, NEW s \in Seq(S), NEW i \in DOMAIN s
  PROVE  /\ RemoveAt(s, i) \in Seq(S)
         /\ Len(RemoveAt(s, i)) = Len(s) - 1
         /\ \A k \in 1 .. Len(s) - 1 : RemoveAt(s, i)[k] = s[IF k < i THEN k ELSE k + 1]
<1> DEFINE front == SubSeq(s, 1, i - 1)
           rest == SubSeq(s, i + 1, Len(s))
<1>1. i \in 1 .. Len(s) /\ Len(s) \in Nat
  BY LenProperties
<1>2. /\ front \in Seq(S) /\ Len(front) = i - 1
      /\ \A k \in 1 .. i - 1 : front[k] = s[k]
  BY <1>1
<1>3. /\ rest \in Seq(S) /\ Len(rest) = Len(s) - i
      /\ \A k \in 1 .. Len(s) - i : rest[k] = s[i + k]
  BY <1>1
<1> HIDE DEF front, rest
<1>4. /\ front \o rest \in Seq(S)
      /\ Len(front \o rest) = Len(s) - 1
      /\ \A k \in 1 .. Len(s) - 1 :
           (front \o rest)[k] = IF k <= i - 1 THEN front[k] ELSE rest[k - (i - 1)]
  <2>1. /\ front \o rest \in Seq(S) /\ Len(front \o rest) = Len(front) + Len(rest)
        /\ \A k \in 1 .. Len(front) + Len(rest) :
             (front \o rest)[k] = IF k <= Len(front) THEN front[k] ELSE rest[k - Len(front)]
    BY <1>2, <1>3, ConcatProperties
  <2>2. Len(front) + Len(rest) = Len(s) - 1
    BY <1>1, <1>2, <1>3
  <2> QED BY <1>2, <2>1, <2>2
<1>5. ASSUME NEW k \in 1 .. Len(s) - 1
      PROVE  (front \o rest)[k] = s[IF k < i THEN k ELSE k + 1]
  <2>1. CASE k < i
    BY <1>1, <1>2, <1>4, <2>1
  <2>2. CASE ~(k < i)
    <3>1. k - (i - 1) \in 1 .. Len(s) - i /\ i + (k - (i - 1)) = k + 1
      BY <1>1, <2>2
    <3>2. (front \o rest)[k] = rest[k - (i - 1)]
      BY <1>1, <1>4, <2>2
    <3>3. rest[k - (i - 1)] = s[i + (k - (i - 1))]
      BY <1>3, <3>1
    <3> QED BY <2>2, <3>1, <3>2, <3>3
  <2> QED BY <2>1, <2>2
<1> QED BY <1>4, <1>5 DEF RemoveAt, front, rest

-----------------------------------------------------------------------------
LEMMA InsertedProperties ==
  ASSUME NEW S, NEW s \in Seq(S), NEW t \in S
  PROVE  /\ Inserted(s, t) \in Seq(S)
         /\ Len(Inserted(s, t)) = Len(s) + 1
         /\ \A k \in 1 .. Len(s) + 1 : Inserted(s, t)[k] = IF k = 1 THEN t ELSE s[k - 1]
<1>1. <<t>> \in Seq(S) /\ Len(<<t>>) = 1 /\ <<t>>[1] = t /\ Len(s) \in Nat
  OBVIOUS
<1> QED BY <1>1, ConcatProperties DEF Inserted

(* A set of naturals has a smallest element.                               *)
LEMMA Smallest ==
  ASSUME NEW T \in SUBSET Nat, T # {}
  PROVE  \E m \in T : \A k \in T : m <= k
<1>1. PICK m \in T : \A k \in T : ~ (<<k, m>> \in OpToRel(<, Nat))
  BY NatLessThanWellFounded, WFMin
<1>2. \A k \in T : ~ (k < m)
  BY <1>1 DEF OpToRel
<1> QED BY <1>2

SameName(t) == {i \in DOMAIN list : tasks[list[i]].name = tasks[t].name}

(* delete() removes the first node with the name, which is there.          *)
LEMMA DeletedIsRemoveAt ==
  ASSUME TypeOK, NEW c \in DOMAIN list
  PROVE  \E i \in SameName(list[c]) : Deleted(list, list[c]) = RemoveAt(list, i)
<1> DEFINE same == SameName(list[c])
           P(i) == i \in same /\ \A k \in same : i <= k
<1>1. c \in same /\ same \subseteq Nat
  <2>1. DOMAIN list \subseteq Nat
    BY LenProperties DEF TypeOK
  <2> QED BY <2>1 DEF SameName
<1>2. \E i \in same : \A k \in same : i <= k
  BY <1>1, Smallest
<1>3. (CHOOSE i \in same : \A k \in same : i <= k) \in same
  BY <1>2
<1>4. Deleted(list, list[c]) = RemoveAt(list, CHOOSE i \in same : \A k \in same : i <= k)
  BY DEF Deleted, SameName
<1> QED BY <1>3, <1>4

-----------------------------------------------------------------------------
(* The schedulers differ in when a node takes the place of cur_node and in *)
(* whether a task may be put back.                                         *)
Quantum == RunQuantum /\ policy \in {"rr", "priority_rr"} /\ tasks[CurTask].burst > QUANTUM
ToEnd == RunToEnd /\ (policy \in {"rr", "priority_rr"} => tasks[CurTask].burst <= QUANTUM)
Taken == CASE policy = "sjf" -> Shorter
           [] policy \in {"priority", "priority_rr"} -> Higher
           [] OTHER -> TRUE

LEMMA TaskFields ==
  ASSUME TypeOK, NEW k \in DOMAIN list
  PROVE  /\ list[k] \in DOMAIN tasks /\ tasks[list[k]] \in Task
         /\ tasks[list[k]].burst \in Nat /\ tasks[list[k]].priority \in Int
<1>1. list[k] \in DOMAIN tasks
  BY DEF TypeOK
<1>2. tasks[list[k]] \in Task
  BY <1>1 DEF TypeOK
<1> QED BY <1>1, <1>2, SchedulerAssumption DEF Task

LEMMA CurFacts ==
  ASSUME TypeOK, Chosen
  PROVE  /\ cur \in DOMAIN list /\ CurTask = list[cur] /\ CurTask \in DOMAIN tasks
         /\ tasks[CurTask] \in Task /\ tasks[CurTask].burst \in Nat
BY TaskFields DEF TypeOK, Chosen, CurTask

LEMMA ScheduleCases == TypeOK /\ schedule => Begin \/ Scan(Taken) \/ ToEnd \/ Quantum
<1> SUFFICES ASSUME TypeOK, schedule PROVE Begin \/ Scan(Taken) \/ ToEnd \/ Quantum
  OBVIOUS
<1>1. CASE schedule_fcfs
  BY <1>1 DEF schedule_fcfs, Scan, Taken, ToEnd
<1>2. CASE schedule_sjf
  BY <1>2 DEF schedule_sjf, Scan, Taken, ToEnd
<1>3. CASE schedule_priority
  BY <1>3 DEF schedule_priority, Scan, Taken, ToEnd
<1>4. RunSlice /\ policy \in {"rr", "priority_rr"} => ToEnd \/ Quantum
  <2>1. Chosen => tasks[CurTask].burst <= QUANTUM \/ tasks[CurTask].burst > QUANTUM
    BY CurFacts, SchedulerAssumption
  <2> QED BY <2>1 DEF RunSlice, ToEnd, Quantum
<1>5. CASE schedule_rr
  BY <1>4, <1>5 DEF schedule_rr, Scan, Taken
<1>6. CASE schedule_priority_rr
  BY <1>4, <1>6 DEF schedule_priority_rr, Scan, Taken
<1> QED BY <1>1, <1>2, <1>3, <1>5, <1>6 DEF schedule

(* What is left of the list is a list of tasks.                            *)
LEMMA DeletedProperties ==
  ASSUME TypeOK, Chosen
  PROVE  /\ Deleted(list, CurTask) \in Seq(DOMAIN tasks)
         /\ Len(Deleted(list, CurTask)) = Len(list) - 1
<1>1. cur \in DOMAIN list /\ CurTask = list[cur] /\ list \in Seq(DOMAIN tasks)
  BY CurFacts DEF TypeOK
<1>2. PICK i \in SameName(list[cur]) : Deleted(list, list[cur]) = RemoveAt(list, i)
  BY <1>1, DeletedIsRemoveAt
<1>3. i \in DOMAIN list
  BY DEF SameName
<1> QED BY <1>1, <1>2, <1>3, RemoveAtProperties

-----------------------------------------------------------------------------
LEMMA InitTypes == Init => TypeOK
BY SchedulerAssumption DEF Init, TypeOK

LEMMA ReadTypes == ASSUME TypeOK, ReadLine PROVE TypeOK'
<1>1. PICK name \in 1 .. Len(tasks) + 1, p \in Priorities, b \in Bursts :
        /\ name <= Len(tasks) => tasks[name].name = name
        /\ add(name, p, b)
  BY DEF ReadLine
<1> DEFINE t == [name |-> name, priority |-> p, given |-> b, burst |-> b]
<1>2. Len(tasks) \in Nat /\ Len(tasks) < MaxTasks /\ DOMAIN tasks = 1 .. Len(tasks)
  BY LenProperties DEF TypeOK, ReadLine
<1>3. t \in Task
  BY <1>2, SchedulerAssumption DEF Task
<1>4. tasks' = Append(tasks, t)
  BY <1>1 DEF add
<1> HIDE DEF t
<1>5. tasks' \in Seq(Task) /\ Len(tasks') = Len(tasks) + 1 /\ DOMAIN tasks' = 1 .. Len(tasks) + 1
  BY <1>3, <1>4 DEF TypeOK
<1>6. list \in Seq(DOMAIN tasks') /\ order \in Seq(DOMAIN tasks')
  BY <1>2, <1>5, SeqMonotonic DEF TypeOK
<1>7. list' \in Seq(DOMAIN tasks')
  BY <1>1, <1>2, <1>5, <1>6, InsertedProperties DEF add
<1>8. got' \in Seq(Nat) /\ Len(got') = Len(tasks')
  BY <1>1, <1>5 DEF add, TypeOK
<1> QED BY <1>2, <1>5, <1>6, <1>7, <1>8, SchedulerAssumption DEF TypeOK, ReadLine

LEMMA RunTypes ==
  ASSUME TypeOK, Chosen, NEW slice \in Nat, run(CurTask, slice)
  PROVE  /\ order' \in Seq(DOMAIN tasks) /\ got' \in Seq(Nat) /\ Len(got') = Len(tasks)
         /\ got' = [got EXCEPT ![CurTask] = got[CurTask] + slice]
         /\ CurTask \in DOMAIN got
<1>1. CurTask \in DOMAIN tasks
  BY CurFacts
<1>2. CurTask \in 1 .. Len(got) /\ got[CurTask] + slice \in Nat
  BY <1>1 DEF TypeOK
<1> QED BY <1>1, <1>2, ExceptSeq DEF TypeOK, run

LEMMA NextTypes == TypeOK /\ [Next]_vars => TypeOK'
<1> SUFFICES ASSUME TypeOK, [Next]_vars PROVE TypeOK'
  OBVIOUS
<1>1. CASE EndOfFile
  BY <1>1 DEF EndOfFile, TypeOK
<1>2. CASE Begin
  <2>1. list # <<>> => 1 \in DOMAIN list /\ 2 \in 2 .. Len(list) + 1
    BY EmptySeq, LenProperties DEF TypeOK
  <2> QED BY <1>2, <2>1 DEF Begin, TypeOK
<1>3. CASE Scan(Taken)
  <2>1. trav \in DOMAIN list /\ trav + 1 \in 2 .. Len(list) + 1
    BY <1>3 DEF Scan, TypeOK
  <2> QED BY <1>3, <2>1 DEF Scan, TypeOK
<1>4. CASE ToEnd
  BY <1>4, RunTypes, CurFacts, DeletedProperties DEF ToEnd, RunToEnd, TypeOK
<1>5. CASE Quantum
  <2> DEFINE t == [tasks[CurTask] EXCEPT !.burst = @ - QUANTUM]
  <2>1. Chosen /\ CurTask \in 1 .. Len(tasks) /\ tasks[CurTask] \in Task
    BY <1>5, CurFacts DEF Quantum, RunQuantum, TypeOK
  <2>2. t \in Task
    BY <1>5, <2>1, SchedulerAssumption DEF Quantum, Task
  <2>3. tasks' = [tasks EXCEPT ![CurTask] = t]
    BY <1>5 DEF Quantum, RunQuantum
  <2> HIDE DEF t
  <2>4. tasks' \in Seq(Task) /\ Len(tasks') = Len(tasks) /\ DOMAIN tasks' = DOMAIN tasks
    BY <2>1, <2>2, <2>3, ExceptSeq DEF TypeOK
  <2>5. list' \in Seq(DOMAIN tasks)
    BY <1>5, <2>1, CurFacts, DeletedProperties, InsertedProperties DEF Quantum, RunQuantum
  <2>6. order' \in Seq(DOMAIN tasks) /\ got' \in Seq(Nat) /\ Len(got') = Len(tasks)
    BY <1>5, <2>1, RunTypes, SchedulerAssumption DEF Quantum, RunQuantum
  <2> QED BY <1>5, <2>4, <2>5, <2>6 DEF Quantum, RunQuantum, TypeOK
<1>6. CASE UNCHANGED vars
  BY <1>6 DEF vars, TypeOK
<1> QED BY <1>1, <1>2, <1>3, <1>4, <1>5, <1>6, ReadTypes, ScheduleCases DEF Next, Terminated

(* Every variable keeps its type; in particular cur_node and trav_node are *)
(* nodes of the list whenever a scheduler follows them.                    *)
THEOREM TypeCorrect == Spec => []TypeOK
BY InitTypes, NextTypes, PTL DEF Spec

-----------------------------------------------------------------------------
LEMMA RemoveAtInjective ==
  ASSUME NEW S, NEW s \in Seq(S), NEW i \in DOMAIN s, IsInjective(s)
  PROVE  /\ IsInjective(RemoveAt(s, i))
         /\ ToSet(RemoveAt(s, i)) = ToSet(s) \ {s[i]}
<1> DEFINE r == RemoveAt(s, i)
           From(k) == IF k < i THEN k ELSE k + 1
<1>1. Len(s) \in Nat /\ DOMAIN s = 1 .. Len(s)
  BY LenProperties
<1>2. DOMAIN r = 1 .. Len(s) - 1 /\ \A k \in 1 .. Len(s) - 1 : r[k] = s[From(k)]
  BY <1>1, RemoveAtProperties, LenProperties
<1> HIDE DEF r
<1>3. \A k \in 1 .. Len(s) - 1 : From(k) \in DOMAIN s \ {i}
  BY <1>1
<1>4. \A n \in DOMAIN s \ {i} : \E k \in 1 .. Len(s) - 1 : From(k) = n
  <2> TAKE n \in DOMAIN s \ {i}
  <2>1. CASE n < i
    BY <1>1, <2>1
  <2>2. CASE n > i
    <3>1. n - 1 \in 1 .. Len(s) - 1 /\ From(n - 1) = n
      BY <1>1, <2>2
    <3> QED BY <3>1
  <2> QED BY <1>1, <2>1, <2>2
<1>5. IsInjective(r)
  <2> SUFFICES ASSUME NEW a \in DOMAIN r, NEW b \in DOMAIN r, r[a] = r[b] PROVE a = b
    BY DEF IsInjective
  <2>1. s[From(a)] = s[From(b)] /\ From(a) \in DOMAIN s /\ From(b) \in DOMAIN s
    BY <1>2, <1>3
  <2>2. From(a) = From(b)
    BY <2>1 DEF IsInjective
  <2> QED BY <1>1, <1>2, <2>2
<1>6. ToSet(r) \subseteq ToSet(s) \ {s[i]}
  BY <1>2, <1>3 DEF ToSet, IsInjective
<1>7. ToSet(s) \ {s[i]} \subseteq ToSet(r)
  <2> SUFFICES ASSUME NEW n \in DOMAIN s, n # i PROVE s[n] \in ToSet(r)
    BY DEF ToSet
  <2>1. PICK k \in 1 .. Len(s) - 1 : From(k) = n
    BY <1>4
  <2>2. r[k] = s[n] /\ k \in DOMAIN r
    BY <1>2, <2>1
  <2> QED BY <2>2 DEF ToSet
<1> QED BY <1>5, <1>6, <1>7 DEF r

LEMMA InsertedInjective ==
  ASSUME NEW S, NEW s \in Seq(S), NEW t \in S, IsInjective(s), t \notin ToSet(s)
  PROVE  /\ IsInjective(Inserted(s, t))
         /\ ToSet(Inserted(s, t)) = ToSet(s) \cup {t}
<1> DEFINE r == Inserted(s, t)
<1>1. Len(s) \in Nat /\ DOMAIN s = 1 .. Len(s)
  BY LenProperties
<1>2. DOMAIN r = 1 .. Len(s) + 1 /\ \A k \in 1 .. Len(s) + 1 : r[k] = IF k = 1 THEN t ELSE s[k - 1]
  <2>1. /\ r \in Seq(S) /\ Len(r) = Len(s) + 1
        /\ \A k \in 1 .. Len(s) + 1 : r[k] = IF k = 1 THEN t ELSE s[k - 1]
    BY InsertedProperties
  <2> QED BY <2>1, LenProperties
<1> HIDE DEF r
<1>3. r[1] = t /\ 1 \in DOMAIN r /\ \A k \in DOMAIN r \ {1} : k - 1 \in DOMAIN s /\ r[k] = s[k - 1]
  BY <1>1, <1>2
<1>4. \A k \in DOMAIN s : k + 1 \in DOMAIN r /\ r[k + 1] = s[k]
  BY <1>1, <1>2
<1>5. \A k \in DOMAIN s : s[k] # t
  BY DEF ToSet
<1>6. IsInjective(r)
  <2> SUFFICES ASSUME NEW a \in DOMAIN r, NEW b \in DOMAIN r, r[a] = r[b] PROVE a = b
    BY DEF IsInjective
  <2>1. CASE a # 1 /\ b # 1
    <3>1. a - 1 = b - 1
      BY <1>3, <2>1 DEF IsInjective
    <3> QED BY <1>1, <1>2, <3>1
  <2> QED BY <1>3, <1>5, <2>1
<1>7. ToSet(r) = ToSet(s) \cup {t}
  BY <1>3, <1>4 DEF ToSet
<1> QED BY <1>6, <1>7 DEF r

(* With different names delete() removes the node that was chosen.         *)
LEMMA DeletesChosen ==
  ASSUME TypeOK, Chosen, DistinctNames, IsInjective(list)
  PROVE  /\ Deleted(list, CurTask) = RemoveAt(list, cur)
         /\ IsInjective(Deleted(list, CurTask))
         /\ ToSet(Deleted(list, CurTask)) = ToSet(list) \ {CurTask}
<1>1. cur \in DOMAIN list /\ CurTask = list[cur] /\ list \in Seq(DOMAIN tasks)
  BY CurFacts DEF TypeOK
<1>2. PICK i \in SameName(list[cur]) : Deleted(list, list[cur]) = RemoveAt(list, i)
  BY <1>1, DeletedIsRemoveAt
<1>3. i = cur
  <2>1. i \in DOMAIN list /\ list[i] \in DOMAIN tasks /\ list[cur] \in DOMAIN tasks
    BY <1>1, TaskFields DEF SameName
  <2>2. list[i] = list[cur]
    BY <2>1 DEF SameName, DistinctNames
  <2> QED BY <1>1, <2>1, <2>2 DEF IsInjective
<1> QED BY <1>1, <1>2, <1>3, RemoveAtInjective

-----------------------------------------------------------------------------
(* What task t got and what it still needs.                                *)
Total(t) == got[t] + (IF t \in ToSet(list) THEN tasks[t].burst ELSE 0)

LEMMA ListedTasks == TypeOK => ToSet(list) \subseteq DOMAIN tasks /\ DOMAIN got = DOMAIN tasks
BY LenProperties DEF TypeOK, ToSet

LEMMA InitBursts == Init => EachGetsItsBurst
BY DEF Init, EachGetsItsBurst, IsInjective

(* A task is read: the names were different before if they are now.        *)
LEMMA ReadBursts == ASSUME TypeOK, EachGetsItsBurst, ReadLine PROVE EachGetsItsBurst'
<1> SUFFICES ASSUME DistinctNames'
             PROVE  /\ IsInjective(list)'
                    /\ \A t \in DOMAIN tasks' : Total(t)' = tasks'[t].given
  BY DEF EachGetsItsBurst, Total
<1>1. PICK name \in 1 .. Len(tasks) + 1, p \in Priorities, b \in Bursts :
        add(name, p, b)
  BY DEF ReadLine
<1>0. PICK n : n = Len(tasks) + 1
  OBVIOUS
<1> DEFINE new == [name |-> name, priority |-> p, given |-> b, burst |-> b]
<1>2. /\ Len(tasks) \in Nat /\ DOMAIN tasks = 1 .. Len(tasks) /\ DOMAIN tasks' = 1 .. n
      /\ tasks'[n] = new /\ \A t \in DOMAIN tasks : tasks'[t] = tasks[t]
      /\ got'[n] = 0 /\ \A t \in DOMAIN tasks : got'[t] = got[t]
  <2>1. /\ tasks \in Seq(Task) /\ got \in Seq(Nat) /\ Len(got) = Len(tasks)
        /\ tasks' = Append(tasks, new) /\ got' = Append(got, 0)
    BY <1>1 DEF TypeOK, add
  <2> HIDE DEF new
  <2>2. /\ Len(tasks) \in Nat /\ DOMAIN tasks = 1 .. Len(tasks) /\ DOMAIN tasks' = 1 .. n
        /\ tasks'[n] = new /\ \A t \in 1 .. Len(tasks) : tasks'[t] = tasks[t]
    BY <1>0, <2>1
  <2>3. got'[n] = 0 /\ \A t \in 1 .. Len(tasks) : got'[t] = got[t]
    BY <1>0, <2>1
  <2> QED BY <2>2, <2>3
<1>3. DistinctNames
  BY <1>0, <1>2 DEF DistinctNames
<1>4. IsInjective(list) /\ \A t \in DOMAIN tasks : Total(t) = tasks[t].given
  BY <1>3 DEF EachGetsItsBurst, Total
<1>5. n \notin ToSet(list)
  BY <1>0, <1>2, ListedTasks
<1>6. list \in Seq(1 .. n) /\ n \in 1 .. n
  BY <1>0, <1>2, SeqMonotonic DEF TypeOK
<1>7. IsInjective(list') /\ ToSet(list') = ToSet(list) \cup {n}
  BY <1>0, <1>1, <1>4, <1>5, <1>6, InsertedInjective DEF add
<1>8. \A t \in DOMAIN tasks : Total(t)' = tasks'[t].given
  BY <1>2, <1>4, <1>7 DEF Total
<1>9. Total(n)' = tasks'[n].given
  <2>1. new.burst = b /\ new.given = b /\ b \in Nat /\ n \in ToSet(list')
    BY <1>7, SchedulerAssumption
  <2>2. Total(n)' = got'[n] + tasks'[n].burst
    BY <2>1 DEF Total
  <2> QED BY <1>2, <2>1, <2>2
<1>10. \A t \in DOMAIN tasks' : t \in DOMAIN tasks \/ t = n
  BY <1>0, <1>2
<1> QED BY <1>7, <1>8, <1>9, <1>10

LEMMA RunBursts == ASSUME TypeOK, EachGetsItsBurst, ToEnd \/ Quantum PROVE EachGetsItsBurst'
<1> SUFFICES ASSUME DistinctNames'
             PROVE  /\ IsInjective(list)'
                    /\ \A t \in DOMAIN tasks' : Total(t)' = tasks'[t].given
  BY DEF EachGetsItsBurst, Total
<1> DEFINE c == CurTask
<1>1. /\ Chosen /\ c \in DOMAIN tasks /\ tasks[c] \in Task /\ tasks[c].burst \in Nat
      /\ c \in ToSet(list) /\ \A t \in DOMAIN tasks : got[t] \in Nat
  BY CurFacts DEF ToEnd, RunToEnd, Quantum, RunQuantum, ToSet, TypeOK
<1>2. CASE ToEnd
  <2>1. DistinctNames /\ UNCHANGED tasks
    BY <1>2 DEF ToEnd, RunToEnd, DistinctNames
  <2>2. IsInjective(list) /\ \A t \in DOMAIN tasks : Total(t) = tasks[t].given
    BY <2>1 DEF EachGetsItsBurst, Total
  <2>3. IsInjective(list') /\ ToSet(list') = ToSet(list) \ {c}
    BY <1>1, <1>2, <2>1, <2>2, DeletesChosen DEF ToEnd, RunToEnd
  <2>4. \A t \in DOMAIN tasks : got'[t] = IF t = c THEN got[t] + tasks[c].burst ELSE got[t]
    BY <1>1, <1>2, RunTypes, ListedTasks DEF ToEnd, RunToEnd
  <2> QED BY <1>1, <2>1, <2>2, <2>3, <2>4 DEF Total
<1>3. CASE Quantum
  <2>1. \A t \in DOMAIN tasks : /\ tasks'[t].name = tasks[t].name /\ tasks'[t].given = tasks[t].given
                                /\ tasks'[t].burst = IF t = c THEN tasks[c].burst - QUANTUM
                                                      ELSE tasks[t].burst
    BY <1>1, <1>3 DEF Quantum, RunQuantum, Task, TypeOK
  <2>2. DOMAIN tasks' = DOMAIN tasks
    BY <1>3 DEF Quantum, RunQuantum
  <2>3. DistinctNames
    BY <2>1, <2>2 DEF DistinctNames
  <2>4. IsInjective(list) /\ \A t \in DOMAIN tasks : Total(t) = tasks[t].given
    BY <2>3 DEF EachGetsItsBurst, Total
  <2> DEFINE rest == Deleted(list, c)
  <2>5. rest \in Seq(DOMAIN tasks) /\ IsInjective(rest) /\ ToSet(rest) = ToSet(list) \ {c}
    BY <1>1, <2>3, <2>4, DeletesChosen, DeletedProperties
  <2>6. list' = Inserted(rest, c)
    BY <1>3 DEF Quantum, RunQuantum
  <2> HIDE DEF rest
  <2>7. IsInjective(list') /\ ToSet(list') = ToSet(list)
    <3>1. c \notin ToSet(rest) /\ c \in DOMAIN tasks
      BY <1>1, <2>5
    <3>2. IsInjective(Inserted(rest, c)) /\ ToSet(Inserted(rest, c)) = ToSet(rest) \cup {c}
      BY <2>5, <3>1, InsertedInjective
    <3> QED BY <1>1, <2>5, <2>6, <3>2
  <2>8. \A t \in DOMAIN tasks : got'[t] = IF t = c THEN got[t] + QUANTUM ELSE got[t]
    BY <1>1, <1>3, RunTypes, ListedTasks, SchedulerAssumption DEF Quantum, RunQuantum
  <2> QED BY <1>1, <2>1, <2>2, <2>4, <2>7, <2>8, SchedulerAssumption DEF Total
<1> QED BY <1>2, <1>3

LEMMA NextBursts == TypeOK /\ EachGetsItsBurst /\ [Next]_vars => EachGetsItsBurst'
<1> SUFFICES ASSUME TypeOK, EachGetsItsBurst, [Next]_vars PROVE EachGetsItsBurst'
  OBVIOUS
<1>1. CASE UNCHANGED <<tasks, list, got>>
  BY <1>1 DEF EachGetsItsBurst, DistinctNames
<1>2. CASE EndOfFile \/ Begin \/ Scan(Taken) \/ UNCHANGED vars
  BY <1>1, <1>2 DEF EndOfFile, Begin, Scan, vars
<1> QED BY <1>2, ReadBursts, RunBursts, ScheduleCases DEF Next, Terminated

(* list.c and the five schedule(): when the names of the tasks differ no   *)
(* node is lost, doubled or run after its end, so each task gets exactly   *)
(* the burst of its line, for every file and every quantum.                *)
THEOREM EachTaskServed == Spec => []EachGetsItsBurst
BY InitTypes, InitBursts, NextTypes, NextBursts, PTL DEF Spec

-----------------------------------------------------------------------------
(* The list is the queue from its other end.                               *)
LEMMA ReverseProperties ==
  ASSUME NEW S, NEW s \in Seq(S)
  PROVE  /\ Reverse(s) \in Seq(S) /\ Len(Reverse(s)) = Len(s) /\ DOMAIN Reverse(s) = 1 .. Len(s)
         /\ \A k \in 1 .. Len(s) : Reverse(s)[k] = s[(Len(s) - k) + 1]
<1>1. Len(s) \in Nat /\ \A k \in 1 .. Len(s) : (Len(s) - k) + 1 \in 1 .. Len(s) /\ s[(Len(s) - k) + 1] \in S
  BY LenProperties
<1>2. Reverse(s) \in [1 .. Len(s) -> S]
  BY <1>1 DEF Reverse
<1>3. Reverse(s) \in Seq(S)
  BY <1>1, <1>2, SeqDef
<1>4. DOMAIN Reverse(s) = 1 .. Len(s)
  BY DEF Reverse
<1> QED BY <1>1, <1>3, <1>4, LenProperties DEF Reverse

LEMMA ReverseInserted ==
  ASSUME NEW S, NEW s \in Seq(S), NEW t \in S
  PROVE  Reverse(Inserted(s, t)) = Append(Reverse(s), t)
<1> DEFINE i == Inserted(s, t)
           r == Reverse(s)
<1>1. /\ i \in Seq(S) /\ Len(i) = Len(s) + 1 /\ Len(s) \in Nat
      /\ \A k \in 1 .. Len(s) + 1 : i[k] = IF k = 1 THEN t ELSE s[k - 1]
  BY InsertedProperties, LenProperties
<1>2. /\ r \in Seq(S) /\ Len(r) = Len(s) /\ \A k \in 1 .. Len(s) : r[k] = s[(Len(s) - k) + 1]
  BY ReverseProperties
<1> HIDE DEF i, r
<1>3. /\ Reverse(i) \in Seq(S) /\ Len(Reverse(i)) = Len(s) + 1
      /\ \A k \in 1 .. Len(s) + 1 : Reverse(i)[k] = i[(Len(s) + 1 - k) + 1]
  BY <1>1, ReverseProperties
<1>4. /\ Append(r, t) \in Seq(S) /\ Len(Append(r, t)) = Len(s) + 1
      /\ \A k \in 1 .. Len(s) + 1 : Append(r, t)[k] = IF k = Len(s) + 1 THEN t ELSE r[k]
  BY <1>1, <1>2
<1>5. ASSUME NEW k \in 1 .. Len(s) + 1 PROVE Reverse(i)[k] = Append(r, t)[k]
  <2>1. (Len(s) + 1 - k) + 1 \in 1 .. Len(s) + 1
    BY <1>1
  <2>2. CASE k = Len(s) + 1
    BY <1>1, <1>3, <1>4, <2>1, <2>2
  <2>3. CASE k # Len(s) + 1
    <3>1. k \in 1 .. Len(s) /\ (Len(s) + 1 - k) + 1 # 1 /\ ((Len(s) + 1 - k) + 1) - 1 = (Len(s) - k) + 1
      BY <1>1, <2>3
    <3> QED BY <1>1, <1>2, <1>3, <1>4, <2>1, <2>3, <3>1
  <2> QED BY <2>2, <2>3
<1>6. Reverse(i) = Append(r, t)
  BY <1>3, <1>4, <1>5, SeqEqual
<1> QED BY <1>6 DEF i, r

LEMMA ReverseRemove ==
  ASSUME NEW S, NEW s \in Seq(S), NEW i \in DOMAIN s
  PROVE  Reverse(RemoveAt(s, i)) = RemoveAt(Reverse(s), (Len(s) - i) + 1)
<1> DEFINE d == RemoveAt(s, i)
           r == Reverse(s)
           j == (Len(s) - i) + 1
<1>1. /\ d \in Seq(S) /\ Len(d) = Len(s) - 1 /\ Len(s) \in Nat /\ i \in 1 .. Len(s)
      /\ \A k \in 1 .. Len(s) - 1 : d[k] = s[IF k < i THEN k ELSE k + 1]
  BY RemoveAtProperties, LenProperties
<1>2. /\ r \in Seq(S) /\ Len(r) = Len(s) /\ DOMAIN r = 1 .. Len(s)
      /\ \A k \in 1 .. Len(s) : r[k] = s[(Len(s) - k) + 1]
  BY ReverseProperties
<1>3. j \in DOMAIN r
  BY <1>1, <1>2
<1> HIDE DEF d, r
<1>4. /\ Reverse(d) \in Seq(S) /\ Len(Reverse(d)) = Len(s) - 1
      /\ \A k \in 1 .. Len(s) - 1 : Reverse(d)[k] = d[(Len(s) - 1 - k) + 1]
  BY <1>1, ReverseProperties
<1>5. /\ RemoveAt(r, j) \in Seq(S) /\ Len(RemoveAt(r, j)) = Len(s) - 1
      /\ \A k \in 1 .. Len(s) - 1 : RemoveAt(r, j)[k] = r[IF k < j THEN k ELSE k + 1]
  BY <1>2, <1>3, RemoveAtProperties
<1>6. ASSUME NEW k \in 1 .. Len(s) - 1 PROVE Reverse(d)[k] = RemoveAt(r, j)[k]
  <2>1. (Len(s) - 1 - k) + 1 \in 1 .. Len(s) - 1 /\ (Len(s) - 1 - k) + 1 = Len(s) - k
    BY <1>1
  <2>2. Reverse(d)[k] = d[Len(s) - k] /\ Len(s) - k \in 1 .. Len(s) - 1
    BY <1>4, <2>1
  <2>3. CASE k < j
    <3>1. ~(Len(s) - k < i) /\ k \in 1 .. Len(s) /\ (Len(s) - k) + 1 \in 1 .. Len(s)
      BY <1>1, <2>3
    <3>2. d[Len(s) - k] = s[(Len(s) - k) + 1] /\ r[k] = s[(Len(s) - k) + 1]
      BY <1>1, <1>2, <2>2, <3>1
    <3> QED BY <1>5, <2>2, <2>3, <3>2
  <2>4. CASE ~(k < j)
    <3>1. Len(s) - k < i /\ k + 1 \in 1 .. Len(s) /\ (Len(s) - (k + 1)) + 1 = Len(s) - k
      BY <1>1, <2>4
    <3>2. d[Len(s) - k] = s[Len(s) - k] /\ r[k + 1] = s[Len(s) - k]
      BY <1>1, <1>2, <2>2, <3>1
    <3> QED BY <1>5, <2>2, <2>4, <3>2
  <2> QED BY <2>3, <2>4
<1>7. Reverse(d) = RemoveAt(r, j)
  BY <1>4, <1>5, <1>6, SeqEqual
<1> QED BY <1>7 DEF d, r

-----------------------------------------------------------------------------
(* While the list is searched cur_node is the best of the nodes passed,    *)
(* and of the best ones the one that has waited longest.                   *)
BestSoFar ==
  pc = "scan" =>
    /\ cur < trav
    /\ \A k \in 1 .. trav - 1 : /\ RQ!Rank(list[cur]) <= RQ!Rank(list[k])
                                /\ k > cur => RQ!Rank(list[cur]) < RQ!Rank(list[k])

LEMMA RankIsInt == ASSUME TypeOK, NEW k \in DOMAIN list PROVE RQ!Rank(list[k]) \in Int
BY TaskFields DEF RQ!Rank

(* The comparisons of the five programs are those of the ranks, except     *)
(* that without ranks the last node is taken.                              *)
LEMMA TakenIsRank ==
  ASSUME TypeOK, pc = "scan", trav \in DOMAIN list
  PROVE  /\ Taken => RQ!Rank(list[trav]) <= RQ!Rank(list[cur])
         /\ ~Taken => RQ!Rank(list[cur]) < RQ!Rank(list[trav])
<1>1. cur \in DOMAIN list
  BY DEF TypeOK
<1>2. /\ tasks[list[trav]].burst \in Int /\ tasks[list[trav]].priority \in Int
      /\ tasks[list[cur]].burst \in Int /\ tasks[list[cur]].priority \in Int
  BY <1>1, TaskFields
<1>3. CASE policy = "sjf"
  <2>1. Taken <=> tasks[list[trav]].burst <= tasks[list[cur]].burst
    BY <1>3 DEF Taken, Shorter
  <2>2. RQ!Rank(list[trav]) = tasks[list[trav]].burst /\ RQ!Rank(list[cur]) = tasks[list[cur]].burst
    BY <1>3 DEF RQ!Rank
  <2> QED BY <1>2, <2>1, <2>2
<1>4. CASE policy \in {"priority", "priority_rr"}
  <2>1. Taken <=> tasks[list[trav]].priority >= tasks[list[cur]].priority
    BY <1>4 DEF Taken, Higher
  <2>2. /\ RQ!Rank(list[trav]) = -tasks[list[trav]].priority
        /\ RQ!Rank(list[cur]) = -tasks[list[cur]].priority
    BY <1>4 DEF RQ!Rank
  <2> QED BY <1>2, <2>1, <2>2
<1>5. CASE policy \notin {"sjf", "priority", "priority_rr"}
  BY <1>5 DEF Taken, RQ!Rank
<1> QED BY <1>3, <1>4, <1>5

LEMMA NextBest == TypeOK /\ BestSoFar /\ [Next]_vars => BestSoFar'
<1> SUFFICES ASSUME TypeOK, BestSoFar, [Next]_vars, pc' = "scan" PROVE BestSoFar'
  BY DEF BestSoFar
<1>1. CASE Begin
  <2>1. list # <<>> /\ cur' = 1 /\ trav' = 2 /\ UNCHANGED <<policy, tasks, list>>
    BY <1>1 DEF Begin
  <2>2. 1 \in DOMAIN list
    BY <2>1, EmptySeq, LenProperties DEF TypeOK
  <2> QED BY <2>1, <2>2, RankIsInt DEF BestSoFar, RQ!Rank
<1>2. CASE Scan(Taken)
  <2>1. /\ pc = "scan" /\ trav \in DOMAIN list /\ cur \in DOMAIN list /\ trav \in Nat /\ cur \in Nat
        /\ cur' = (IF Taken THEN trav ELSE cur) /\ trav' = trav + 1 /\ UNCHANGED <<policy, tasks, list>>
    BY <1>2, LenProperties DEF Scan, TypeOK
  <2>2. \A k \in 1 .. trav : k \in DOMAIN list /\ RQ!Rank(list[k]) \in Int
    <3>1. DOMAIN list = 1 .. Len(list) /\ Len(list) \in Nat
      BY LenProperties DEF TypeOK
    <3>2. \A k \in 1 .. trav : k \in DOMAIN list
      BY <2>1, <3>1
    <3> QED BY <3>2, RankIsInt
  <2>3. \A k : RQ!Rank(k)' = RQ!Rank(k)
    BY <2>1 DEF RQ!Rank
  <2>4. \A k \in 1 .. trav' - 1 : k \in 1 .. trav - 1 \/ k = trav
    BY <2>1
  <2>5. \A k \in 1 .. trav' - 1 : /\ RQ!Rank(list[cur']) <= RQ!Rank(list[k])
                                  /\ k > cur' => RQ!Rank(list[cur']) < RQ!Rank(list[k])
    <3>0. /\ cur < trav /\ cur \in 1 .. trav
          /\ \A k \in 1 .. trav - 1 : /\ RQ!Rank(list[cur]) <= RQ!Rank(list[k])
                                      /\ k > cur => RQ!Rank(list[cur]) < RQ!Rank(list[k])
      BY <2>1, LenProperties DEF BestSoFar, TypeOK
    <3>1. CASE Taken
      <4>1. RQ!Rank(list[trav]) <= RQ!Rank(list[cur]) /\ cur' = trav
        BY <2>1, <3>1, TakenIsRank
      <4>2. ASSUME NEW k \in 1 .. trav PROVE RQ!Rank(list[trav]) <= RQ!Rank(list[k]) /\ ~(k > trav)
        <5>1. RQ!Rank(list[trav]) \in Int /\ RQ!Rank(list[cur]) \in Int /\ RQ!Rank(list[k]) \in Int
          BY <2>1, <2>2, <3>0
        <5>2. k = trav \/ k \in 1 .. trav - 1
          BY <2>1
        <5>3. CASE k \in 1 .. trav - 1
          <6>1. RQ!Rank(list[cur]) <= RQ!Rank(list[k])
            BY <3>0, <5>3, Zenon
          <6> QED BY <2>1, <4>1, <5>1, <5>3, <6>1
        <5>4. CASE k = trav
          BY <2>1, <5>1, <5>4
        <5> QED BY <5>2, <5>3, <5>4
      <4> QED BY <2>1, <4>1, <4>2
    <3>2. CASE ~Taken
      <4>1. RQ!Rank(list[cur]) < RQ!Rank(list[trav]) /\ cur' = cur
        BY <2>1, <3>2, TakenIsRank
      <4>2. ASSUME NEW k \in 1 .. trav
            PROVE  /\ RQ!Rank(list[cur]) <= RQ!Rank(list[k])
                   /\ k > cur => RQ!Rank(list[cur]) < RQ!Rank(list[k])
        <5>1. RQ!Rank(list[trav]) \in Int /\ RQ!Rank(list[cur]) \in Int /\ RQ!Rank(list[k]) \in Int
          BY <2>1, <2>2, <3>0
        <5>2. k = trav \/ k \in 1 .. trav - 1
          BY <2>1
        <5>3. CASE k \in 1 .. trav - 1
          BY <3>0, <5>3, Zenon
        <5>4. CASE k = trav
          BY <4>1, <5>1, <5>4
        <5> QED BY <5>2, <5>3, <5>4
      <4> QED BY <2>1, <4>1, <4>2
    <3> QED BY <3>1, <3>2
  <2> QED BY <2>1, <2>3, <2>5 DEF BestSoFar, RQ!Rank
<1>3. CASE UNCHANGED vars
  BY <1>3 DEF vars, BestSoFar, RQ!Rank
<1> QED BY <1>1, <1>2, <1>3, ScheduleCases DEF Next, Terminated, ReadLine, EndOfFile, ToEnd,
                                              RunToEnd, Quantum, RunQuantum

-----------------------------------------------------------------------------
(* The operators of ReadyQueue are those of the same name here.            *)
LEMMA RemoveAtSame == \A s, i : RQ!RemoveAt(s, i) = RemoveAt(s, i)
BY DEF RQ!RemoveAt, RemoveAt

(* A line of the file arrives at the end of the queue.                     *)
LEMMA ReadArrives == ASSUME TypeOK, ReadLine PROVE RQ!Arrive
<1>1. PICK name \in 1 .. Len(tasks) + 1, p \in Priorities, b \in Bursts : add(name, p, b)
  BY DEF ReadLine
<1>2. PICK new : tasks' = Append(tasks, new)
  BY <1>1 DEF add
<1>3. PICK n : n = Len(tasks) + 1
  OBVIOUS
<1>4. tasks \in Seq(Task \cup {new}) /\ Len(tasks) \in Nat
  BY SeqMonotonic, LenProperties DEF TypeOK
<1>5. Len(tasks') = n /\ \A k \in 1 .. Len(tasks) : tasks'[k] = tasks[k]
  BY <1>2, <1>3, <1>4
<1>6. SubSeq(tasks', 1, Len(tasks)) = SubSeq(tasks, 1, Len(tasks))
  BY <1>4, <1>5
<1>7. list \in Seq(1 .. n) /\ n \in 1 .. n
  <2>1. DOMAIN tasks = 1 .. Len(tasks)
    BY LenProperties DEF TypeOK
  <2> QED BY <1>3, <1>4, <2>1, SeqMonotonic DEF TypeOK
<1>8. Reverse(list') = Append(Reverse(list), n)
  BY <1>1, <1>3, <1>7, ReverseInserted DEF add
<1> QED BY <1>3, <1>4, <1>5, <1>6, <1>8 DEF RQ!Arrive, RQ!IsPrefix, ReadLine

(* The task that is run is the one that ReadyQueue dispatches.             *)
LEMMA RunDispatches ==
  ASSUME TypeOK, EachGetsItsBurst, BestSoFar, DistinctNames, ToEnd \/ Quantum
  PROVE  RQ!Next
<1> DEFINE n == Len(list)
           i == (Len(list) - cur) + 1
           q == Reverse(list)
<1>1. /\ Chosen /\ cur \in DOMAIN list /\ CurTask = list[cur] /\ CurTask \in DOMAIN tasks
      /\ tasks[CurTask].burst \in Nat /\ pc = "scan" /\ trav = Len(list) + 1
  BY CurFacts DEF ToEnd, RunToEnd, Quantum, RunQuantum, Chosen
<1>2. /\ list \in Seq(DOMAIN tasks) /\ Len(list) \in Nat /\ DOMAIN list = 1 .. Len(list)
  BY LenProperties DEF TypeOK
<1>3. /\ q \in Seq(DOMAIN tasks) /\ DOMAIN q = 1 .. Len(list)
      /\ \A k \in 1 .. Len(list) : q[k] = list[(Len(list) - k) + 1]
  BY <1>2, ReverseProperties
<1>4. i \in DOMAIN q /\ q[i] = CurTask
  BY <1>1, <1>2, <1>3
<1>5. ASSUME NEW k \in DOMAIN q
      PROVE  RQ!Rank(q[i]) <= RQ!Rank(q[k]) /\ (k < i => RQ!Rank(q[i]) < RQ!Rank(q[k]))
  <2>1. (Len(list) - k) + 1 \in 1 .. trav - 1 /\ (k < i => (Len(list) - k) + 1 > cur)
    BY <1>1, <1>2, <1>3
  <2>2. q[k] = list[(Len(list) - k) + 1] /\ q[i] = list[cur]
    BY <1>1, <1>3, <1>4
  <2> QED BY <1>1, <2>1, <2>2 DEF BestSoFar
<1>6. Reverse(Deleted(list, CurTask)) = RemoveAt(q, i)
  <2>1. Deleted(list, CurTask) = RemoveAt(list, cur)
    BY <1>1, DeletesChosen DEF EachGetsItsBurst
  <2> QED BY <1>1, <1>2, <2>1, ReverseRemove
<1>7. RQ!Preemptive <=> policy \in {"rr", "priority_rr"}
  BY DEF RQ!Preemptive
<1>8. CASE ToEnd
  <2>1. ~(RQ!Preemptive /\ tasks[q[i]].burst > QUANTUM)
    BY <1>1, <1>4, <1>7, <1>8, SchedulerAssumption DEF ToEnd
  <2>2. /\ order' = Append(order, q[i]) /\ Reverse(list)' = RQ!RemoveAt(q, i)
        /\ UNCHANGED <<tasks, policy>>
    BY <1>4, <1>6, <1>8, RemoveAtSame DEF ToEnd, RunToEnd, run
  <2> QED BY <1>4, <1>5, <2>1, <2>2 DEF RQ!Next
<1>9. CASE Quantum
  <2>1. RQ!Preemptive /\ tasks[q[i]].burst > QUANTUM
    BY <1>4, <1>7, <1>9 DEF Quantum
  <2>2. Reverse(list)' = Append(RQ!RemoveAt(q, i), q[i])
    <3>1. Deleted(list, CurTask) \in Seq(DOMAIN tasks) /\ list' = Inserted(Deleted(list, CurTask), CurTask)
      BY <1>1, <1>9, DeletedProperties DEF Quantum, RunQuantum
    <3> QED BY <1>1, <1>4, <1>6, <3>1, ReverseInserted, RemoveAtSame
  <2>3. /\ order' = Append(order, q[i]) /\ UNCHANGED policy
        /\ tasks' = [tasks EXCEPT ![q[i]].burst = @ - QUANTUM]
    BY <1>4, <1>9 DEF Quantum, RunQuantum, run
  <2> QED BY <1>4, <1>5, <2>1, <2>2, <2>3 DEF RQ!Next
<1> QED BY <1>8, <1>9

LEMMA RefinementStep ==
  ASSUME TypeOK, EachGetsItsBurst, BestSoFar, [Next]_vars
  PROVE  [DistinctNames => RQ!Next]_<<policy, tasks, list, order>>
<1>1. CASE EndOfFile \/ Begin \/ Scan(Taken) \/ UNCHANGED vars
  BY <1>1 DEF EndOfFile, Begin, Scan, vars
<1>2. CASE ReadLine
  BY <1>2, ReadArrives DEF RQ!Next
<1>3. CASE ToEnd \/ Quantum
  BY <1>3, RunDispatches
<1> QED BY <1>1, <1>2, <1>3, ScheduleCases DEF Next, Terminated

(* driver.c, list.c and the schedule() functions implement the ready queue *)
(* of their policy: as long as names differ every task that runs is one    *)
(* that the policy ranks best and, of those, has waited longest.           *)
THEOREM ImplementsReadyQueue == Spec => IsReadyQueue
<1>1. Init => RQ!Init
  BY DEF Init, RQ!Init, Reverse
<1>2. Init => TypeOK /\ EachGetsItsBurst /\ BestSoFar
  BY InitTypes, InitBursts DEF Init, BestSoFar
<1>3. /\ TypeOK /\ EachGetsItsBurst /\ BestSoFar /\ [Next]_vars
      => (TypeOK /\ EachGetsItsBurst /\ BestSoFar)'
  BY NextTypes, NextBursts, NextBest
<1>4. TypeOK /\ EachGetsItsBurst /\ BestSoFar /\ [Next]_vars
      => [DistinctNames => RQ!Next]_<<policy, tasks, list, order>>
  BY RefinementStep
<1> QED BY <1>1, <1>2, <1>3, <1>4, PTL DEF Spec, IsReadyQueue

-----------------------------------------------------------------------------
(* Shortest job first runs the tasks in the order of their bursts, which   *)
(* is why no order waits less (ShortestWaitsLeast).                        *)
ShortestFirst ==
  policy = "sjf" /\ DistinctNames =>
    \A i, j \in DOMAIN order : i < j => tasks[order[i]].given <= tasks[order[j]].given

(* None that still waits is shorter than one that was run.                 *)
LongerWait ==
  /\ pc = "read" => order = <<>>
  /\ policy = "sjf" /\ DistinctNames =>
       \A t \in ToSet(list) : /\ tasks[t].burst = tasks[t].given
                              /\ \A i \in DOMAIN order : tasks[order[i]].given <= tasks[t].given

SjfInv == TypeOK /\ EachGetsItsBurst /\ BestSoFar /\ ShortestFirst /\ LongerWait

LEMMA ReadSjf == ASSUME SjfInv, ReadLine PROVE (ShortestFirst /\ LongerWait)'
<1>1. order = <<>> /\ UNCHANGED <<order, pc>> /\ DOMAIN order = {}
  BY DEF SjfInv, LongerWait, ReadLine
<1> SUFFICES ASSUME DistinctNames', policy' = "sjf", NEW t \in ToSet(list')
             PROVE  tasks'[t].burst = tasks'[t].given
  BY <1>1 DEF ShortestFirst, LongerWait
<1>2. PICK name \in 1 .. Len(tasks) + 1, p \in Priorities, b \in Bursts : add(name, p, b)
  BY DEF ReadLine
<1>3. PICK n : n = Len(tasks) + 1
  OBVIOUS
<1>4. PICK new : tasks' = Append(tasks, new) /\ new.burst = new.given
  BY <1>2 DEF add
<1>5. tasks \in Seq(Task \cup {new}) /\ Len(tasks) \in Nat /\ DOMAIN tasks = 1 .. Len(tasks)
  BY SeqMonotonic, LenProperties DEF SjfInv, TypeOK
<1>6. /\ DOMAIN tasks' = 1 .. n /\ tasks'[n] = new /\ n \in 1 .. n
      /\ \A k \in DOMAIN tasks : tasks'[k] = tasks[k] /\ k \in 1 .. n
  BY <1>3, <1>4, <1>5
<1>7. DistinctNames
  BY <1>6 DEF DistinctNames
<1>8. t = n \/ t \in ToSet(list)
  <2>1. list \in Seq(1 .. n)
    BY <1>6, SeqMonotonic DEF SjfInv, TypeOK
  <2> QED BY <1>2, <1>3, <1>6, <1>7, <2>1, ListedTasks, InsertedInjective
          DEF SjfInv, EachGetsItsBurst, add
<1>9. CASE t \in ToSet(list)
  <2>1. t \in DOMAIN tasks
    BY <1>9, ListedTasks DEF SjfInv
  <2> QED BY <1>6, <1>7, <1>9, <2>1 DEF SjfInv, LongerWait, ReadLine
<1> QED BY <1>4, <1>6, <1>8, <1>9

LEMMA RunSjf == ASSUME SjfInv, ToEnd \/ Quantum PROVE (ShortestFirst /\ LongerWait)'
<1>1. pc' # "read" /\ UNCHANGED policy
  BY DEF ToEnd, RunToEnd, Quantum, RunQuantum
<1> SUFFICES ASSUME DistinctNames', policy = "sjf"
             PROVE  /\ \A i, j \in DOMAIN order' : i < j => tasks'[order'[i]].given <= tasks'[order'[j]].given
                    /\ \A t \in ToSet(list') :
                         /\ tasks'[t].burst = tasks'[t].given
                         /\ \A i \in DOMAIN order' : tasks'[order'[i]].given <= tasks'[t].given
  BY <1>1 DEF ShortestFirst, LongerWait
<1>2. RunToEnd /\ Chosen /\ UNCHANGED tasks /\ DistinctNames
  BY DEF ToEnd, Quantum, RunToEnd, DistinctNames
<1> DEFINE c == CurTask
<1>3. /\ cur \in DOMAIN list /\ c = list[cur] /\ c \in ToSet(list) /\ list \in Seq(DOMAIN tasks)
      /\ DOMAIN list = 1 .. trav - 1 /\ pc = "scan"
  BY <1>2, CurFacts, LenProperties DEF SjfInv, TypeOK, ToSet, Chosen
<1>4. \A t \in ToSet(list) : /\ t \in DOMAIN tasks /\ tasks[t].burst = tasks[t].given
                             /\ tasks[t].given \in Nat
                             /\ \A i \in DOMAIN order : tasks[order[i]].given <= tasks[t].given
  BY <1>2, ListedTasks, TaskFields DEF SjfInv, LongerWait, ToSet
<1>5. \A t \in ToSet(list) : tasks[c].given <= tasks[t].given
  <2> SUFFICES ASSUME NEW k \in 1 .. trav - 1 PROVE tasks[c].given <= tasks[list[k]].given
    BY <1>3 DEF ToSet
  <2>1. RQ!Rank(list[cur]) <= RQ!Rank(list[k])
    BY <1>3 DEF SjfInv, BestSoFar
  <2>2. list[k] \in ToSet(list)
    BY <1>3 DEF ToSet
  <2> QED BY <1>3, <1>4, <2>1, <2>2 DEF RQ!Rank
<1>6. ToSet(list') \subseteq ToSet(list)
  BY <1>2, DeletesChosen DEF SjfInv, EachGetsItsBurst, RunToEnd
<1>7. order' = Append(order, c) /\ order \in Seq(DOMAIN tasks) /\ c \in DOMAIN tasks
  BY <1>2, <1>3, <1>4 DEF RunToEnd, run, SjfInv, TypeOK
<1>8. /\ Len(order) \in Nat /\ DOMAIN order = 1 .. Len(order) /\ DOMAIN order' = 1 .. Len(order) + 1
      /\ order'[Len(order) + 1] = c /\ \A i \in 1 .. Len(order) : order'[i] = order[i]
  BY <1>7, LenProperties
<1>9. ASSUME NEW i \in DOMAIN order', NEW j \in DOMAIN order', i < j
      PROVE  tasks[order'[i]].given <= tasks[order'[j]].given
  <2>1. i \in DOMAIN order /\ order'[i] = order[i]
    BY <1>8, <1>9
  <2>2. CASE j = Len(order) + 1
    BY <1>3, <1>4, <1>8, <2>1, <2>2
  <2>3. CASE j # Len(order) + 1
    <3>1. j \in DOMAIN order /\ order'[j] = order[j]
      BY <1>8, <2>3
    <3> QED BY <1>2, <1>9, <2>1, <3>1 DEF SjfInv, ShortestFirst
  <2> QED BY <2>2, <2>3
<1>10. ASSUME NEW t \in ToSet(list), NEW i \in DOMAIN order'
       PROVE  tasks[order'[i]].given <= tasks[t].given
  BY <1>4, <1>5, <1>8
<1> QED BY <1>2, <1>4, <1>6, <1>9, <1>10

LEMMA InitSjf == Init => SjfInv
BY InitTypes, InitBursts DEF Init, SjfInv, BestSoFar, ShortestFirst, LongerWait, ToSet

LEMMA NextSjf == SjfInv /\ [Next]_vars => SjfInv'
<1> SUFFICES ASSUME SjfInv, [Next]_vars PROVE (ShortestFirst /\ LongerWait)'
  BY NextTypes, NextBursts, NextBest DEF SjfInv
<1>1. CASE EndOfFile \/ Begin \/ Scan(Taken) \/ UNCHANGED vars
  <2>1. UNCHANGED <<policy, tasks, list, order>> /\ (pc' = "read" => pc = "read")
    BY <1>1 DEF EndOfFile, Begin, Scan, vars
  <2> QED BY <2>1 DEF SjfInv, ShortestFirst, LongerWait, DistinctNames, ToSet
<1> QED BY <1>1, ReadSjf, RunSjf, ScheduleCases DEF Next, Terminated, SjfInv

(* schedule_sjf.c: for every file with different names the tasks run in    *)
(* ascending order of their bursts.                                        *)
THEOREM RunsShortestFirst == Spec => []ShortestFirst
<1>1. Init => SjfInv
  BY InitSjf
<1>2. SjfInv => ShortestFirst
  BY DEF SjfInv
<1> QED BY <1>1, <1>2, NextSjf, PTL DEF Spec

-----------------------------------------------------------------------------
(* Why no order waits less: of two tasks one has to wait for the other,    *)
(* and the total is the least when of each two the shorter runs first.     *)
LEMMA WaitsAre ==
  ASSUME NEW o, NEW w
  PROVE  w \in Waits(o) <=>
           \E i \in DOMAIN o : \E j \in i + 1 .. Len(o) : \E k \in 1 .. tasks[o[i]].given :
             w = <<<<o[i], o[j]>>, k>>
BY DEF Waits

LEMMA GivenIsNat == TypeOK => \A t \in DOMAIN tasks : tasks[t].given \in Nat
<1> SUFFICES ASSUME TypeOK, NEW t \in DOMAIN tasks PROVE tasks[t].given \in Nat
  OBVIOUS
<1>1. tasks[t] \in Task
  BY LenProperties DEF TypeOK
<1> QED BY <1>1, SchedulerAssumption DEF Task

LEMMA WaitsFinite ==
  ASSUME TypeOK, NEW o \in Seq(DOMAIN tasks)
  PROVE  IsFiniteSet(Waits(o))
<1> DEFINE behind(i) == {o[j] : j \in i + 1 .. Len(o)}
           of == [i \in DOMAIN o |-> ({o[i]} \X behind(i)) \X (1 .. tasks[o[i]].given)]
           all == {of[i] : i \in DOMAIN o}
<1>1. Len(o) \in Nat /\ DOMAIN o = 1 .. Len(o) /\ \A i \in DOMAIN o : o[i] \in DOMAIN tasks
  BY LenProperties
<1>2. DOMAIN tasks = 1 .. Len(tasks) /\ Len(tasks) \in Nat
  BY LenProperties DEF TypeOK
<1>3. IsFiniteSet(DOMAIN tasks) /\ IsFiniteSet(DOMAIN o)
  BY <1>1, <1>2, FS_Interval
<1>4. ASSUME NEW i \in DOMAIN o PROVE IsFiniteSet(of[i])
  <2>1. IsFiniteSet({o[i]})
    BY FS_Singleton
  <2>2. behind(i) \subseteq DOMAIN tasks
    BY <1>1
  <2>3. IsFiniteSet(behind(i))
    BY <1>3, <2>2, FS_Subset
  <2>4. tasks[o[i]].given \in Nat
    BY <1>1, GivenIsNat
  <2>5. IsFiniteSet(1 .. tasks[o[i]].given)
    BY <2>4, FS_Interval
  <2> HIDE DEF behind
  <2>6. IsFiniteSet({o[i]} \X behind(i))
    BY <2>1, <2>3, FS_Product
  <2> QED BY <2>5, <2>6, FS_Product
<1>5. of \in Surjection(DOMAIN o, all)
  BY DEF Surjection
<1>6. Waits(o) = UNION all
  BY DEF Waits
<1> HIDE DEF of
<1>7. \A T \in all : IsFiniteSet(T)
  BY <1>4
<1> HIDE DEF all
<1>8. IsFiniteSet(all)
  BY <1>3, <1>5, FS_Surjection
<1> QED BY <1>6, <1>7, <1>8, FS_UNION

(* In an order of all tasks one of two tasks is before the other.          *)
LEMMA OneWaits ==
  ASSUME TypeOK, NEW o \in SetToSeqs(DOMAIN tasks),
         NEW t \in DOMAIN tasks, NEW u \in DOMAIN tasks, t # u,
         NEW k \in 1 .. tasks[t].given, tasks[t].given <= tasks[u].given
  PROVE  /\ o \in Seq(DOMAIN tasks)
         /\ <<<<t, u>>, k>> \in Waits(o) \/ <<<<u, t>>, k>> \in Waits(o)
<1> DEFINE n == Cardinality(DOMAIN tasks)
<1>1. DOMAIN tasks = 1 .. Len(tasks) /\ Len(tasks) \in Nat
  BY LenProperties DEF TypeOK
<1>2. IsFiniteSet(DOMAIN tasks) /\ n = Len(tasks)
  <2>1. /\ IsFiniteSet(1 .. Len(tasks))
        /\ Cardinality(1 .. Len(tasks)) = IF 1 > Len(tasks) THEN 0 ELSE Len(tasks) - 1 + 1
    BY <1>1, FS_Interval
  <2>2. Cardinality(1 .. Len(tasks)) = Len(tasks)
    BY <1>1, <2>1
  <2> QED BY <1>1, <2>1, <2>2
<1>3. o \in [1 .. n -> DOMAIN tasks] /\ \A i, j \in 1 .. n : i # j => o[i] # o[j]
  BY DEF SetToSeqs
<1>4. o \in Seq(DOMAIN tasks) /\ Len(o) = n /\ DOMAIN o = 1 .. n /\ n \in Nat
  <2>1. n \in Nat
    BY <1>1, <1>2
  <2> HIDE DEF n
  <2> QED BY <1>3, <2>1
<1>5. o \in Surjection(1 .. n, DOMAIN tasks)
  <2>1. o \in Injection(1 .. n, DOMAIN tasks)
    BY <1>3 DEF Injection, IsInjective
  <2>2. Cardinality(1 .. n) = Cardinality(DOMAIN tasks)
    BY <1>1, <1>2
  <2> QED BY <1>2, <2>1, <2>2, FS_Injection
<1> HIDE DEF n
<1>6. PICK i \in 1 .. n, j \in 1 .. n : o[i] = t /\ o[j] = u
  BY <1>5 DEF Surjection
<1>7. CASE i < j
  <2>1. i \in DOMAIN o /\ j \in i + 1 .. Len(o)
    BY <1>4, <1>7
  <2> QED BY <1>4, <1>6, <2>1, WaitsAre
<1>8. CASE j < i
  <2>1. j \in DOMAIN o /\ i \in j + 1 .. Len(o)
    BY <1>4, <1>8
  <2>2. k \in 1 .. tasks[u].given
    BY GivenIsNat
  <2> QED BY <1>4, <1>6, <2>1, <2>2, WaitsAre
<1> QED BY <1>4, <1>6, <1>7, <1>8

(* No task is run twice.                                                   *)
RunOnce ==
  policy = "sjf" /\ DistinctNames =>
    IsInjective(order) /\ \A i \in DOMAIN order : order[i] \notin ToSet(list)

LEMMA NextOnce == SjfInv /\ RunOnce /\ [Next]_vars => RunOnce'
<1> SUFFICES ASSUME SjfInv, RunOnce, [Next]_vars, policy' = "sjf", DistinctNames'
             PROVE  IsInjective(order') /\ \A i \in DOMAIN order' : order'[i] \notin ToSet(list')
  BY DEF RunOnce
<1>1. CASE ReadLine
  <2>1. order' = <<>>
    BY <1>1 DEF SjfInv, LongerWait, ReadLine
  <2> QED BY <2>1 DEF IsInjective
<1>2. CASE EndOfFile \/ Begin \/ Scan(Taken) \/ UNCHANGED vars
  <2>1. UNCHANGED <<policy, tasks, list, order>>
    BY <1>2 DEF EndOfFile, Begin, Scan, vars
  <2> QED BY <2>1 DEF RunOnce, DistinctNames
<1>3. CASE ToEnd \/ Quantum
  <2>1. RunToEnd /\ Chosen /\ UNCHANGED tasks /\ DistinctNames /\ policy = "sjf"
    BY <1>3 DEF ToEnd, Quantum, RunToEnd, RunQuantum, DistinctNames
  <2> DEFINE c == CurTask
  <2>2. /\ cur \in DOMAIN list /\ c = list[cur] /\ c \in ToSet(list) /\ c \in DOMAIN tasks
    BY <2>1, CurFacts, ListedTasks DEF SjfInv, ToSet
  <2>3. ToSet(list') = ToSet(list) \ {c}
    BY <2>1, DeletesChosen DEF SjfInv, EachGetsItsBurst, RunToEnd
  <2>4. order' = Append(order, c) /\ order \in Seq(DOMAIN tasks)
    BY <2>1 DEF RunToEnd, run, SjfInv, TypeOK
  <2>5. /\ Len(order) \in Nat /\ DOMAIN order = 1 .. Len(order) /\ DOMAIN order' = 1 .. Len(order) + 1
        /\ order'[Len(order) + 1] = c /\ \A i \in 1 .. Len(order) : order'[i] = order[i]
    BY <2>2, <2>4, LenProperties
  <2>6. IsInjective(order) /\ \A i \in DOMAIN order : order[i] \notin ToSet(list)
    BY <2>1 DEF RunOnce
  <2> HIDE DEF c
  <2>7. \A i \in DOMAIN order : order[i] # c
    BY <2>2, <2>6
  <2>8. IsInjective(order')
    <3> SUFFICES ASSUME NEW i \in DOMAIN order', NEW j \in DOMAIN order', order'[i] = order'[j]
                 PROVE  i = j
      BY DEF IsInjective
    <3>1. \A x \in DOMAIN order' : x = Len(order) + 1 \/ x \in DOMAIN order
      BY <2>5
    <3> QED BY <2>5, <2>6, <2>7, <3>1 DEF IsInjective
  <2>9. \A i \in DOMAIN order' : order'[i] \notin ToSet(list')
    BY <2>3, <2>5, <2>6
  <2> QED BY <2>8, <2>9
<1> QED BY <1>1, <1>2, <1>3, ScheduleCases DEF Next, Terminated, SjfInv

(* Each unit that somebody waits in the order of SJF is one that somebody  *)
(* waits in any other order: the same one, or, if the two tasks have       *)
(* changed places, the same unit of the other one's burst.                 *)
LEMMA LeastWait ==
  ASSUME TypeOK, NEW s \in Seq(DOMAIN tasks), IsInjective(s),
         \A i, j \in DOMAIN s : i < j => tasks[s[i]].given <= tasks[s[j]].given,
         NEW o \in SetToSeqs(DOMAIN tasks)
  PROVE  TotalWait(s) <= TotalWait(o)
<1> DEFINE other(w) == <<<<w[1][2], w[1][1]>>, w[2]>>
           f == [w \in Waits(s) |-> IF w \in Waits(o) THEN w ELSE other(w)]
<1>1. Len(s) \in Nat /\ DOMAIN s = 1 .. Len(s) /\ \A i \in DOMAIN s : s[i] \in DOMAIN tasks
  BY LenProperties
<1>2. ASSUME NEW w \in Waits(s)
      PROVE  \E t, u \in DOMAIN tasks, k \in Nat :
               /\ k \in 1 .. tasks[t].given
               /\ w = <<<<t, u>>, k>> /\ t # u /\ tasks[t].given <= tasks[u].given
               /\ \E i, j \in DOMAIN s : i < j /\ s[i] = t /\ s[j] = u
  <2>1. PICK i \in DOMAIN s : \E j \in i + 1 .. Len(s) : \E k \in 1 .. tasks[s[i]].given :
          w = <<<<s[i], s[j]>>, k>>
    BY WaitsAre
  <2>2. PICK j \in i + 1 .. Len(s) : \E k \in 1 .. tasks[s[i]].given : w = <<<<s[i], s[j]>>, k>>
    BY <2>1
  <2>3. j \in DOMAIN s /\ i < j
    BY <1>1, <2>2
  <2>4. s[i] # s[j]
    BY <1>1, <2>3 DEF IsInjective
  <2> QED BY <1>1, <2>2, <2>3, <2>4
<1>3. ASSUME NEW w \in Waits(s) PROVE other(w) \notin Waits(s)
  <2> SUFFICES ASSUME other(w) \in Waits(s) PROVE FALSE
    OBVIOUS
  <2>1. PICK t, u \in DOMAIN tasks, k \in Nat :
          /\ w = <<<<t, u>>, k>>
          /\ \E i, j \in DOMAIN s : i < j /\ s[i] = t /\ s[j] = u
    BY <1>2
  <2>2. PICK i, j \in DOMAIN s : i < j /\ s[i] = t /\ s[j] = u
    BY <2>1
  <2>3. other(w) = <<<<u, t>>, k>>
    BY <2>1
  <2>4. PICK x, y \in DOMAIN tasks, z \in Nat :
          /\ other(w) = <<<<x, y>>, z>>
          /\ \E a, b \in DOMAIN s : a < b /\ s[a] = x /\ s[b] = y
    BY <1>2
  <2>5. x = u /\ y = t
    BY <2>3, <2>4
  <2>6. PICK a, b \in DOMAIN s : a < b /\ s[a] = u /\ s[b] = t
    BY <2>4, <2>5
  <2>7. a = j /\ b = i
    BY <2>2, <2>6 DEF IsInjective
  <2> QED BY <1>1, <2>2, <2>6, <2>7
<1>4. ASSUME NEW w \in Waits(s) PROVE f[w] \in Waits(o)
  <2>1. PICK t, u \in DOMAIN tasks, k \in Nat :
          /\ k \in 1 .. tasks[t].given
          /\ w = <<<<t, u>>, k>> /\ t # u /\ tasks[t].given <= tasks[u].given
    BY <1>2
  <2>2. other(w) = <<<<u, t>>, k>>
    BY <2>1
  <2>3. w \in Waits(o) \/ other(w) \in Waits(o)
    BY <2>1, <2>2, OneWaits
  <2> QED BY <2>3
<1>5. ASSUME NEW v \in Waits(s), NEW w \in Waits(s), f[v] = f[w] PROVE v = w
  <2>1. \A x \in Waits(s) : x = other(other(x))
    BY <1>2
  <2>2. \A x \in Waits(s) : f[x] = x \/ f[x] = other(x)
    OBVIOUS
  <2>3. v # other(w) /\ w # other(v)
    BY <1>3
  <2> HIDE DEF f, other
  <2> QED BY <1>5, <2>1, <2>2, <2>3
<1> HIDE DEF f
<1>6. f \in Injection(Waits(s), Waits(o))
  <2>1. f \in [Waits(s) -> Waits(o)]
    BY <1>4 DEF f
  <2> QED BY <1>5, <2>1 DEF Injection, IsInjective
<1>7. IsFiniteSet(Waits(o))
  <2>1. o \in Seq(DOMAIN tasks)
    <3>1. DOMAIN tasks = 1 .. Len(tasks) /\ Len(tasks) \in Nat
      BY LenProperties DEF TypeOK
    <3>2. Cardinality(DOMAIN tasks) \in Nat
      BY <3>1, FS_Interval, FS_CardinalityType
    <3> QED BY <3>2 DEF SetToSeqs
  <2> QED BY <2>1, WaitsFinite
<1> QED BY <1>6, <1>7, FS_Injection DEF TotalWait

(* schedule_sjf.c: no order of the tasks waits less than the one it runs   *)
(* them in, for every file with different names.                           *)
THEOREM SjfWaitsLeast == Spec => []ShortestWaitsLeast
<1>1. Init => SjfInv /\ RunOnce
  BY InitSjf DEF Init, RunOnce, IsInjective
<1>2. SjfInv /\ RunOnce /\ [Next]_vars => (SjfInv /\ RunOnce)'
  BY NextSjf, NextOnce
<1>3. SjfInv /\ RunOnce => ShortestWaitsLeast
  <2> SUFFICES ASSUME SjfInv, RunOnce, policy = "sjf", DistinctNames,
                      NEW o \in SetToSeqs(DOMAIN tasks)
               PROVE  TotalWait(order) <= TotalWait(o)
    BY DEF ShortestWaitsLeast
  <2> QED BY LeastWait DEF SjfInv, RunOnce, ShortestFirst, TypeOK
<1> QED BY <1>1, <1>2, <1>3, PTL DEF Spec
=============================================================================
