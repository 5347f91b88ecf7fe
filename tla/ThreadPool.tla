----------------------------- MODULE ThreadPool -----------------------------
(***************************************************************************)
(* project5/threadpool: threadpool.c and the client.c that drives it.  The *)
(* main thread submits the tasks in turn; every submission enqueues a task *)
(* and creates one worker thread, which dequeues one task, executes it and *)
(* ends.  A semaphore bounds the workers, thread_working marks the slots   *)
(* of threadpool in use, and a mutex guards task_queue - but not worktodo, *)
(* through which both sides pass tasks, nor the variable "index", whose    *)
(* address a worker gets.                                                  *)
(*                                                                         *)
(* A task is what client.c passes as data; the function is always &add.    *)
(* Worker w is the one that submission w creates.  Every access to a       *)
(* variable that another thread writes is a step; unlocking is part of the *)
(* last step of a critical section.  Locals that are dead are reset.       *)
(***************************************************************************)
EXTENDS Integers, Sequences, FiniteSets

CONSTANTS NUMBER_OF_THREADS,
          QUEUE_SIZE,
          Submissions,  \* how many tasks client.c submits
          NULL,         \* no task, no thread, the mutex is free
          Junk          \* a stack slot that another function overwrote

ASSUME PoolAssumption ==
  /\ NUMBER_OF_THREADS \in Nat \ {0}
  /\ QUEUE_SIZE \in Nat /\ QUEUE_SIZE > NUMBER_OF_THREADS
  /\ Submissions \in Nat \ {0}
  /\ NULL \notin Int /\ Junk \notin Int

Slots == 0 .. NUMBER_OF_THREADS - 1
Tasks == 1 .. Submissions
Workers == 1 .. Submissions
Main == 0

VARIABLES
  task_queue,      \* the array: QUEUE_SIZE tasks or NULL
  curLEN,
  worktodo,        \* the global that tasks are passed through
  threadpool,      \* the thread of each slot, NULL before the first
  thread_working,  \* 0 or 1 for each slot
  mutex,           \* the owner of the mutex, or NULL
  semaphore,
  index,           \* the local variable of pool_submit(), shared by address
  main,            \* where the main thread is
  submitted,       \* which submission it is at; which slot it joins at the end
  argument,        \* the parameter of enqueue()
  worker,          \* where each worker is
  my_index,        \* the local variable "index" of each worker
  result,          \* what dequeue() returned to each worker
  runs             \* how often each task was executed

queue == <<task_queue, curLEN>>
slots == <<threadpool, thread_working>>
submit == <<main, submitted, argument>>
locals == <<my_index, result>>
vars == <<queue, worktodo, slots, mutex, semaphore, index, submit, worker, locals, runs>>

Ended == {"exited", "crashed"}

MainPlaces == {"write", "pass", "check", "lock", "store", "count", "sem", "scan",
               "create", "sleep", "asleep", "join"} \cup Ended
WorkerPlaces == {"none", "start", "check", "lock", "take", "shift", "return", "assign",
                 "execute", "clear", "post", "done"}

TypeOK ==
  /\ task_queue \in [0 .. QUEUE_SIZE - 1 -> Tasks \cup {NULL}]
  /\ curLEN \in 0 .. QUEUE_SIZE
  /\ worktodo \in Tasks \cup {NULL}
  /\ threadpool \in [Slots -> Workers \cup {NULL}]
  /\ thread_working \in [Slots -> {0, 1}]
  /\ mutex \in Workers \cup {Main, NULL}
  /\ semaphore \in 0 .. NUMBER_OF_THREADS
  /\ index \in Slots \cup {Junk}
  /\ main \in MainPlaces
  /\ submitted \in Nat
  /\ argument \in Tasks \cup {NULL}
  /\ worker \in [Workers -> WorkerPlaces]
  /\ my_index \in [Workers -> Slots \cup {Junk}]
  /\ result \in [Workers -> Tasks \cup {NULL}]
  /\ runs \in [Tasks -> 0 .. Submissions]

(* pool_init(): nothing has been submitted yet.                            *)
Init ==
  /\ task_queue = [i \in 0 .. QUEUE_SIZE - 1 |-> NULL]
  /\ curLEN = 0
  /\ worktodo = NULL
  /\ threadpool = [i \in Slots |-> NULL]
  /\ thread_working = [i \in Slots |-> 0]
  /\ mutex = NULL
  /\ semaphore = NUMBER_OF_THREADS
  /\ index = Junk
  /\ main = "write"
  /\ submitted = 1
  /\ argument = NULL
  /\ worker = [w \in Workers |-> "none"]
  /\ my_index = [w \in Workers |-> Junk]
  /\ result = [w \in Workers |-> NULL]
  /\ runs = [k \in Tasks |-> 0]

-----------------------------------------------------------------------------
MainGoes(from, to) == main = from /\ main' = to

(* Back in client.c: the next submission, or the sleep at the end.         *)
AfterSubmission ==
  IF submitted < Submissions
    THEN main' = "write" /\ submitted' = submitted + 1
    ELSE main' = "sleep" /\ submitted' = submitted

(* pool_submit(): worktodo is the task ...                                 *)
SubmitWrite ==
  /\ MainGoes("write", "pass")
  /\ worktodo' = submitted
  /\ UNCHANGED <<queue, slots, mutex, semaphore, index, submitted, argument, worker, locals, runs>>

(* ... and what is in worktodo now is passed to enqueue().                 *)
SubmitPass ==
  /\ MainGoes("pass", "check")
  /\ argument' = worktodo
  /\ UNCHANGED <<queue, worktodo, slots, mutex, semaphore, index, submitted, worker, locals, runs>>

(* enqueue(): the test for a full queue, without the lock.  When it fails  *)
(* pool_submit() returns 1, which client.c ignores.                        *)
EnqueueCheck ==
  /\ main = "check"
  /\ IF curLEN >= QUEUE_SIZE
       THEN AfterSubmission
       ELSE main' = "lock" /\ submitted' = submitted
  /\ UNCHANGED <<queue, worktodo, slots, mutex, semaphore, index, argument, worker, locals, runs>>

\* MUTANT: enqueue() does not wait for the lock.
EnqueueUnlocked ==
  /\ MainGoes("lock", "store")
  /\ UNCHANGED <<queue, worktodo, slots, mutex, semaphore, index, submitted, argument, worker,
                 locals, runs>>

EnqueueLock ==
  /\ MainGoes("lock", "store")
  /\ mutex = NULL
  /\ mutex' = Main
  /\ UNCHANGED <<queue, worktodo, slots, semaphore, index, submitted, argument, worker, locals, runs>>

EnqueueStore ==
  /\ MainGoes("store", "count")
  /\ task_queue' = [task_queue EXCEPT ![curLEN] = argument]
  /\ UNCHANGED <<curLEN, worktodo, slots, mutex, semaphore, index, submitted, argument, worker,
                 locals, runs>>

EnqueueCount ==
  /\ MainGoes("count", "sem")
  /\ curLEN' = curLEN + 1
  /\ mutex' = NULL
  /\ argument' = NULL
  /\ UNCHANGED <<task_queue, worktodo, slots, semaphore, index, submitted, worker, locals, runs>>

\* MUTANT: the semaphore is not waited for.
SubmitNoWait ==
  /\ MainGoes("sem", "scan")
  /\ semaphore' = IF semaphore > 0 THEN semaphore - 1 ELSE semaphore
  /\ index' = 0
  /\ UNCHANGED <<queue, worktodo, slots, mutex, submitted, argument, worker, locals, runs>>

(* pool_submit(): sem_wait(&semaphore), index = 0.                         *)
SubmitWait ==
  /\ MainGoes("sem", "scan")
  /\ semaphore > 0
  /\ semaphore' = semaphore - 1
  /\ index' = 0
  /\ UNCHANGED <<queue, worktodo, slots, mutex, submitted, argument, worker, locals, runs>>

\* MUTANT: the search goes one slot too far.
ScanPastEnd ==
  /\ main = "scan"
  /\ IF thread_working[index] = 0
       THEN /\ thread_working' = [thread_working EXCEPT ![index] = 1]
            /\ main' = "create"
            /\ index' = index
       ELSE /\ index' = (index + 1) % (NUMBER_OF_THREADS + 1)
            /\ UNCHANGED <<thread_working, main>>
  /\ UNCHANGED <<queue, worktodo, threadpool, mutex, semaphore, submitted, argument, worker,
                 locals, runs>>

(* One turn of the loop that looks for a slot that is not working.         *)
SubmitScan ==
  /\ main = "scan"
  /\ IF thread_working[index] = 0
       THEN /\ thread_working' = [thread_working EXCEPT ![index] = 1]
            /\ main' = "create"
            /\ index' = index
       ELSE /\ index' = (index + 1) % NUMBER_OF_THREADS
            /\ UNCHANGED <<thread_working, main>>
  /\ UNCHANGED <<queue, worktodo, threadpool, mutex, semaphore, submitted, argument, worker,
                 locals, runs>>

(* pthread_create(&threadpool[index], NULL, &worker, &index).              *)
SubmitCreate ==
  /\ main = "create"
  /\ threadpool' = [threadpool EXCEPT ![index] = submitted]
  /\ worker' = [worker EXCEPT ![submitted] = "start"]
  /\ AfterSubmission
  /\ UNCHANGED <<queue, worktodo, thread_working, mutex, semaphore, index, argument, locals, runs>>

(* client.c: the call of sleep(3) ...                                      *)
Sleep ==
  /\ MainGoes("sleep", "asleep")
  /\ UNCHANGED <<queue, worktodo, slots, mutex, semaphore, index, submitted, argument, worker,
                 locals, runs>>

(* ... its end, and the call of pool_shutdown().                           *)
WakeUp ==
  /\ MainGoes("asleep", "join")
  /\ submitted' = 0
  /\ UNCHANGED <<queue, worktodo, slots, mutex, semaphore, index, argument, worker, locals, runs>>

(* pool_shutdown(): pthread_join on every slot in turn.  Joining a slot    *)
(* that never had a thread dereferences a null pthread_t.  After the last  *)
(* one the mutex and the semaphore are destroyed and main returns.         *)
Join ==
  /\ main = "join"
  /\ IF threadpool[submitted] = NULL
       THEN main' = "crashed" /\ UNCHANGED submitted
       ELSE /\ worker[threadpool[submitted]] = "done"
            /\ IF submitted + 1 \in Slots
                 THEN submitted' = submitted + 1 /\ UNCHANGED main
                 ELSE main' = "exited" /\ UNCHANGED submitted
  /\ UNCHANGED <<queue, worktodo, slots, mutex, semaphore, index, argument, worker, locals, runs>>

-----------------------------------------------------------------------------
(* Worker w moves on, in a process that has not ended.                     *)
Goto(w, from, to) ==
  /\ main \notin Ended
  /\ worker[w] = from
  /\ worker' = [worker EXCEPT ![w] = to]

(* What is where pool_submit() had "index".  The next call of it has its   *)
(* frame in the same place and leaves the value alone until it sets it,    *)
(* but the frames of sleep(), of pool_shutdown() and of what they call     *)
(* write over it: from the call of sleep() on it may hold anything.        *)
FoundAtIndex == IF main \in {"asleep", "join"} THEN Slots \cup {Junk} ELSE {index}

(* worker(): int index = *((int* )param), whatever is there now.           *)
WorkerStart(w) ==
  /\ Goto(w, "start", "check")
  /\ \E i \in FoundAtIndex : my_index' = [my_index EXCEPT ![w] = i]
  /\ UNCHANGED <<queue, worktodo, slots, mutex, semaphore, index, submit, result, runs>>

(* dequeue(): the test for an empty queue, without the lock.  When it      *)
(* fails worktodo and the result are NULL.                                 *)
DequeueCheck(w) ==
  /\ IF curLEN <= 0
       THEN Goto(w, "check", "assign") /\ worktodo' = NULL /\ result' = [result EXCEPT ![w] = NULL]
       ELSE Goto(w, "check", "lock") /\ UNCHANGED <<worktodo, result>>
  /\ UNCHANGED <<queue, slots, mutex, semaphore, index, submit, my_index, runs>>

DequeueLock(w) ==
  /\ Goto(w, "lock", "take")
  /\ mutex = NULL
  /\ mutex' = w
  /\ UNCHANGED <<queue, worktodo, slots, semaphore, index, submit, locals, runs>>

\* MUTANT: the length is not decremented.
TakeUncounted(w) ==
  /\ Goto(w, "take", "shift")
  /\ worktodo' = task_queue[0]
  /\ UNCHANGED <<queue, slots, mutex, semaphore, index, submit, locals, runs>>

(* dequeue(), with the lock: the first task goes through the global.       *)
DequeueTake(w) ==
  /\ Goto(w, "take", "shift")
  /\ worktodo' = task_queue[0]
  /\ curLEN' = curLEN - 1
  /\ UNCHANGED <<task_queue, slots, mutex, semaphore, index, submit, locals, runs>>

(* The array after the loop of dequeue() and the two assignments of NULL.  *)
Shifted ==
  [i \in DOMAIN task_queue |->
     IF i < curLEN THEN task_queue[i + 1] ELSE IF i = curLEN THEN NULL ELSE task_queue[i]]

DequeueShift(w) ==
  /\ Goto(w, "shift", "return")
  /\ task_queue' = Shifted
  /\ mutex' = NULL
  /\ UNCHANGED <<curLEN, worktodo, slots, semaphore, index, submit, locals, runs>>

\* MUTANT: what is first in the queue now is returned.
ReturnFirst(w) ==
  /\ Goto(w, "return", "assign")
  /\ result' = [result EXCEPT ![w] = task_queue[0]]
  /\ UNCHANGED <<queue, worktodo, slots, mutex, semaphore, index, submit, my_index, runs>>

(* return worktodo, after the unlock ...                                   *)
DequeueReturn(w) ==
  /\ Goto(w, "return", "assign")
  /\ result' = [result EXCEPT ![w] = worktodo]
  /\ UNCHANGED <<queue, worktodo, slots, mutex, semaphore, index, submit, my_index, runs>>

(* ... into worktodo = dequeue() ...                                       *)
WorkerAssign(w) ==
  /\ Goto(w, "assign", "execute")
  /\ worktodo' = result[w]
  /\ result' = [result EXCEPT ![w] = NULL]
  /\ UNCHANGED <<queue, slots, mutex, semaphore, index, submit, my_index, runs>>

(* ... and execute(worktodo.function, worktodo.data), the call of a null   *)
(* function pointer when there is no task.                                 *)
WorkerExecute(w) ==
  /\ Goto(w, "execute", "clear")
  /\ IF worktodo = NULL
       THEN main' = "crashed" /\ UNCHANGED runs
       ELSE runs' = [runs EXCEPT ![worktodo] = @ + 1] /\ UNCHANGED main
  /\ UNCHANGED <<queue, worktodo, slots, mutex, semaphore, index, submitted, argument, locals>>

\* MUTANT: the slot is never given back.
WorkerKeepsSlot(w) ==
  /\ Goto(w, "clear", "post")
  /\ my_index' = [my_index EXCEPT ![w] = Junk]
  /\ UNCHANGED <<queue, worktodo, slots, mutex, semaphore, index, submit, result, runs>>

(* thread_working[index] = 0.  With an index that is not a slot the write  *)
(* is outside of the array: the process dies, or nothing modelled changes. *)
WorkerClear(w) ==
  /\ Goto(w, "clear", "post")
  /\ thread_working' = [i \in Slots |-> IF i = my_index[w] THEN 0 ELSE thread_working[i]]
  /\ my_index' = [my_index EXCEPT ![w] = Junk]
  /\ \/ UNCHANGED main
     \/ my_index[w] = Junk /\ main' = "crashed"
  /\ UNCHANGED <<queue, worktodo, threadpool, mutex, semaphore, index, submitted, argument, result,
                 runs>>

WorkerPost(w) ==
  /\ Goto(w, "post", "done")
  /\ semaphore' = semaphore + 1
  /\ UNCHANGED <<queue, worktodo, slots, mutex, index, submit, locals, runs>>

-----------------------------------------------------------------------------
MainStep ==
  \/ SubmitWrite \/ SubmitPass \/ EnqueueCheck \/ EnqueueLock \/ EnqueueStore \/ EnqueueCount
  \/ SubmitWait \/ SubmitScan \/ SubmitCreate \/ Sleep \/ WakeUp
  \/ Join

WorkerStep(w) ==
  \/ WorkerStart(w) \/ DequeueCheck(w) \/ DequeueLock(w) \/ DequeueTake(w) \/ DequeueShift(w)
  \/ DequeueReturn(w) \/ WorkerAssign(w) \/ WorkerExecute(w) \/ WorkerClear(w) \/ WorkerPost(w)

Terminated == main \in Ended /\ UNCHANGED vars

Next == MainStep \/ (\E w \in Workers : WorkerStep(w)) \/ Terminated

Spec == Init /\ [][Next]_vars

(* Every thread that can run is run.                                       *)
Fairness == WF_vars(MainStep) /\ \A w \in Workers : WF_vars(WorkerStep(w))

FairSpec == Spec /\ Fairness

-----------------------------------------------------------------------------
Active == {w \in Workers : worker[w] \notin {"none", "done"}}
Waiting == {w \in Workers : worker[w] \in {"start", "check", "lock", "take"}}
One(condition) == IF condition THEN 1 ELSE 0

(* At most NUMBER_OF_THREADS workers exist at a time: each of them, and a  *)
(* submission about to create one, holds a unit of the semaphore.          *)
SemaphoreAccounting ==
  semaphore + Cardinality(Active) + One(main \in {"scan", "create"}) = NUMBER_OF_THREADS

(* The queue has one task for each worker that has not taken one yet, and  *)
(* the one whose worker is being created.                                  *)
QueueAccounting ==
  curLEN = Cardinality(Waiting) + One(main \in {"sem", "scan", "create"})

(* Outside of the critical sections the tasks are the first curLEN entries *)
(* of the array: no update of it is lost.                                  *)
QueueIntact ==
  mutex = NULL => \A i \in DOMAIN task_queue : task_queue[i] # NULL <=> i < curLEN

(* The tests that enqueue() and dequeue() make without the lock never      *)
(* fail, what they saw is still true when the lock is there, and no worker *)
(* calls a null function.                                                  *)
UnlockedTestsHold ==
  /\ main \in {"check", "lock", "store"} => curLEN < QUEUE_SIZE
  /\ \A w \in Workers :
       /\ worker[w] \in {"check", "lock", "take"} => curLEN > 0
       /\ worker[w] = "execute" => worktodo # NULL

(* pool_submit() never searches for ever, and the program ends: although   *)
(* workers may clear each other's slots, the worker created last always    *)
(* leaves one free.                                                        *)
Terminates == <>(main \in Ended)

(* "this represents work that has to be completed by a thread in the       *)
(* pool": when every worker has run to its end, every task was executed,   *)
(* once.  It fails because worktodo is written by both sides without the   *)
(* lock; the joins of pool_shutdown() and the slots have no part in it.    *)
WorkIsCompleted ==
  (\A w \in Workers : worker[w] = "done") => \A k \in Tasks : runs[k] = 1

(* "shutdown the thread pool": pool_shutdown() joins threads.  It fails    *)
(* for a slot that never had one; the out-of-array store of WorkerClear    *)
(* has no part in it.                                                      *)
ShutsDown == main = "join" => threadpool[submitted] # NULL
=============================================================================
