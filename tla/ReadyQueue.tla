----------------------------- MODULE ReadyQueue -----------------------------
(***************************************************************************)
(* What the five schedulers of project4 promise: tasks wait in the order   *)
(* in which they came; a dispatch picks, of the tasks that the policy      *)
(* ranks best, the one that has waited longest, and a task that is not     *)
(* done after its slice goes to the end of the queue.                      *)
(***************************************************************************)
EXTENDS Integers, Sequences, SequencesExt

CONSTANT QUANTUM

VARIABLES
  policy,   \* "fcfs", "sjf", "priority", "rr" or "priority_rr"
  tasks,    \* the tasks seen so far: records with priority and burst left
  queue,    \* tasks that wait, longest wait first
  order     \* the dispatches so far

Preemptive == policy \in {"rr", "priority_rr"}

(* Rank(t) is smallest for the tasks that the policy prefers.              *)
Rank(t) ==
  CASE policy = "sjf" -> tasks[t].burst
    [] policy \in {"priority", "priority_rr"} -> -tasks[t].priority
    [] OTHER -> 0

Init == tasks = <<>> /\ queue = <<>> /\ order = <<>>

Arrive ==
  /\ Len(tasks') = Len(tasks) + 1
  /\ IsPrefix(tasks, tasks')
  /\ queue' = Append(queue, Len(tasks'))
  /\ UNCHANGED <<policy, order>>

Next == Arrive \/ \E i \in DOMAIN queue :
  LET t == queue[i]
      more == Preemptive /\ tasks[t].burst > QUANTUM
      rest == RemoveAt(queue, i)
  IN  /\ \A k \in DOMAIN queue : /\ Rank(t) <= Rank(queue[k])
                                 /\ k < i => Rank(t) < Rank(queue[k])
      /\ order' = Append(order, t)
      /\ queue' = IF more THEN Append(rest, t) ELSE rest
      /\ tasks' = IF more THEN [tasks EXCEPT ![t].burst = @ - QUANTUM] ELSE tasks
      /\ UNCHANGED policy
=============================================================================
