----------------------------- MODULE Scheduler ------------------------------
(***************************************************************************)
(* project4: driver.c reads the tasks of a file into a linked list         *)
(* (list.c), and one of five schedule() functions runs them until the list *)
(* is empty.  insert() puts a node at the head, so the list holds the      *)
(* latest task first; delete() finds its node by the NAME of the task.     *)
(*                                                                         *)
(* A task is its number, tid + 1, in order of arrival.  Names matter only  *)
(* when they are equal: a name is the number of the first task that bears  *)
(* it.  traverse() prints the list and changes nothing.                    *)
(***************************************************************************)
EXTENDS Integers, Sequences, FiniteSets, SequencesExt

CONSTANTS QUANTUM, Priorities, Bursts,
          MaxTasks   \* bound: lines of the file

ASSUME SchedulerAssumption ==
  /\ QUANTUM \in Nat \ {0}
  /\ Priorities \subseteq Int
  /\ Bursts \subseteq Nat
  /\ MaxTasks \in Nat

Policies == {"fcfs", "sjf", "priority", "rr", "priority_rr"}

VARIABLES
  policy,     \* which of the five programs this is
  tasks,      \* the Task structures, with the burst of the file in "given"
  list,       \* the nodes from the head on
  pc,
  cur, trav,  \* cur_node and trav_node, as positions in the list
  order,      \* the tasks of the lines that run() printed ...
  got         \* ... and the sum of their slices for each task

vars == <<policy, tasks, list, pc, cur, trav, order, got>>

Task == [name : 1 .. MaxTasks, priority : Priorities, given : Bursts, burst : Nat]

TypeOK ==
  /\ policy \in Policies
  /\ tasks \in Seq(Task) /\ Len(tasks) <= MaxTasks
  /\ list \in Seq(DOMAIN tasks)
  /\ pc \in {"read", "loop", "scan", "done"}
  /\ pc = "scan" => cur \in DOMAIN list /\ trav \in 2 .. Len(list) + 1
  /\ order \in Seq(DOMAIN tasks)
  /\ got \in Seq(Nat) /\ Len(got) = Len(tasks)

Init ==
  /\ policy \in Policies
  /\ tasks = <<>> /\ list = <<>> /\ pc = "read"
  /\ cur = 1 /\ trav = 2
  /\ order = <<>> /\ got = <<>>

-----------------------------------------------------------------------------
\* MUTANT: insert() appends the node.
InsertedLast(nodes, t) == Append(nodes, t)

Inserted(nodes, t) == <<t>> \o nodes

(* delete(): the first node whose task has the name of task t is removed.  *)
Deleted(nodes, t) ==
  LET same == {i \in DOMAIN nodes : tasks[nodes[i]].name = tasks[t].name}
  IN  RemoveAt(nodes, CHOOSE i \in same : \A k \in same : i <= k)

(* add(): a Task structure at the head of the list.                        *)
add(name, priority, burst) ==
  /\ tasks' = Append(tasks, [name |-> name, priority |-> priority, given |-> burst, burst |-> burst])
  /\ list' = Inserted(list, Len(tasks) + 1)
  /\ got' = Append(got, 0)

(* One line of the file.                                                   *)
ReadLine ==
  /\ pc = "read" /\ Len(tasks) < MaxTasks
  /\ \E name \in 1 .. Len(tasks) + 1, p \in Priorities, b \in Bursts :
       /\ name <= Len(tasks) => tasks[name].name = name
       /\ add(name, p, b)
  /\ UNCHANGED <<policy, pc, cur, trav, order>>

EndOfFile ==
  /\ pc = "read"
  /\ pc' = "loop"
  /\ UNCHANGED <<policy, tasks, list, cur, trav, order, got>>

-----------------------------------------------------------------------------
(* The top of while(1): cur_node is the head, trav_node the node after it. *)
Begin ==
  /\ pc = "loop"
  /\ pc' = IF list = <<>> THEN "done" ELSE "scan"
  /\ cur' = 1 /\ trav' = 2
  /\ UNCHANGED <<policy, tasks, list, order, got>>

\* MUTANT: trav_node is not moved on past a task that was taken.
ScanStuck(better) ==
  /\ pc = "scan" /\ trav <= Len(list)
  /\ cur' = IF better THEN trav ELSE cur
  /\ trav' = IF better THEN trav ELSE trav + 1
  /\ UNCHANGED <<policy, tasks, list, pc, order, got>>

(* One turn of the loop that looks for a task: trav_node takes the place   *)
(* of cur_node if it is better.                                            *)
Scan(better) ==
  /\ pc = "scan" /\ trav <= Len(list)
  /\ cur' = IF better THEN trav ELSE cur
  /\ trav' = trav + 1
  /\ UNCHANGED <<policy, tasks, list, pc, order, got>>

\* MUTANT: the comparison is the other way round.
Longer == tasks[list[trav]].burst >= tasks[list[cur]].burst

Shorter == tasks[list[trav]].burst <= tasks[list[cur]].burst
Higher == tasks[list[trav]].priority >= tasks[list[cur]].priority

(* The search is over, and cur_node has the task to run.                   *)
Chosen == pc = "scan" /\ trav = Len(list) + 1
CurTask == list[cur]

run(t, slice) == order' = Append(order, t) /\ got' = [got EXCEPT ![t] = @ + slice]

RunToEnd ==
  /\ Chosen
  /\ run(CurTask, tasks[CurTask].burst)
  /\ list' = Deleted(list, CurTask)
  /\ pc' = "loop"
  /\ UNCHANGED <<policy, tasks, cur, trav>>

\* MUTANT: the time that the task got is not taken off its burst.
RunQuantumAgain ==
  /\ Chosen
  /\ run(CurTask, QUANTUM)
  /\ list' = Inserted(Deleted(list, CurTask), CurTask)
  /\ pc' = "loop"
  /\ UNCHANGED <<policy, tasks, cur, trav>>

(* A task that needs more than a quantum is put back at the head.          *)
RunQuantum ==
  /\ Chosen
  /\ run(CurTask, QUANTUM)
  /\ list' = Inserted(Deleted(list, CurTask), CurTask)
  /\ tasks' = [tasks EXCEPT ![CurTask].burst = @ - QUANTUM]
  /\ pc' = "loop"
  /\ UNCHANGED <<policy, cur, trav>>

\* MUTANT: the test on the rest of the burst is missing.
RunSliceAlways == RunQuantum

RunSlice == Chosen /\ IF tasks[CurTask].burst <= QUANTUM THEN RunToEnd ELSE RunQuantum

schedule_fcfs == policy = "fcfs" /\ (Begin \/ Scan(TRUE) \/ RunToEnd)
schedule_sjf == policy = "sjf" /\ (Begin \/ Scan(Shorter) \/ RunToEnd)
schedule_priority == policy = "priority" /\ (Begin \/ Scan(Higher) \/ RunToEnd)
schedule_rr == policy = "rr" /\ (Begin \/ Scan(TRUE) \/ RunSlice)
schedule_priority_rr == policy = "priority_rr" /\ (Begin \/ Scan(Higher) \/ RunSlice)

schedule == schedule_fcfs \/ schedule_sjf \/ schedule_priority \/ schedule_rr \/ schedule_priority_rr

Terminated == pc = "done" /\ UNCHANGED vars

Next == ReadLine \/ EndOfFile \/ schedule \/ Terminated

Spec == Init /\ [][Next]_vars /\ WF_vars(ReadLine \/ EndOfFile \/ schedule)

-----------------------------------------------------------------------------
DistinctNames == \A t, u \in DOMAIN tasks : tasks[t].name = tasks[u].name => t = u

(* As long as names differ no task is lost, run after its end or doubled:  *)
(* what a task got and, while it is in the list, what it still needs make  *)
(* up the burst of its line.                                               *)
EachGetsItsBurst ==
  DistinctNames =>
    /\ IsInjective(list)
    /\ \A t \in DOMAIN tasks :
         got[t] + (IF t \in ToSet(list) THEN tasks[t].burst ELSE 0) = tasks[t].given

(* The total waiting time of the tasks if they run in the order o: each    *)
(* unit of the burst of a task counts for each of the tasks behind it.     *)
Waits(o) ==
  UNION {({o[i]} \X {o[j] : j \in i + 1 .. Len(o)}) \X (1 .. tasks[o[i]].given) : i \in DOMAIN o}
TotalWait(o) == Cardinality(Waits(o))

(* Shortest job first has the least total waiting time that any order of   *)
(* the same tasks has.                                                     *)
ShortestWaitsLeast ==
  policy = "sjf" /\ pc = "done" /\ DistinctNames =>
    \A o \in SetToSeqs(DOMAIN tasks) : TotalWait(order) <= TotalWait(o)

(* The list, searched from the wrong end and deleted from by name, is the  *)
(* queue of ReadyQueue, under each policy, if names differ.                *)
RQ == INSTANCE ReadyQueue WITH queue <- Reverse(list)
IsReadyQueue == RQ!Init /\ [][DistinctNames => RQ!Next]_<<policy, tasks, list, order>>

(* Every program ends, even when names are equal and the wrong nodes are   *)
(* deleted: no task is put back for ever.                                  *)
Terminates == <>(pc = "done")
=============================================================================
