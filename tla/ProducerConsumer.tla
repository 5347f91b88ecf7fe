-------------------------- MODULE ProducerConsumer --------------------------
(***************************************************************************)
(* project5/producer_consumer/producer_consumer.c: an array used as a      *)
(* queue, a counter of its items, one pthread mutex and two counting       *)
(* semaphores, the producer and consumer threads that loop over them, and  *)
(* the main thread that cancels every thread after a while, destroys the   *)
(* mutex and returns without joining anybody.                              *)
(*                                                                         *)
(* "curSize++" and "curSize--" are a load (at "crit") and a store (at      *)
(* "commit"), so that a missing lock shows.  The first access of           *)
(* insert_item() or remove_item(), its test of curSize, belongs to the     *)
(* step that loads, the last one to the step that stores.  Once the mutex  *)
(* is destroyed a thread may come to its test while another one is between *)
(* its load and its store: that is a data race, whose outcome (an index    *)
(* behind the array, a curSize above BUFFER_SIZE) the language leaves      *)
(* undefined, and the model ends there, with main = "undefined".  Nothing  *)
(* is claimed of what follows.  Locals that are dead (item after its       *)
(* printf, the loaded curSize after its store) are reset, which keeps      *)
(* equivalent states together.                                             *)
(***************************************************************************)
EXTENDS Integers, Sequences, FiniteSets

CONSTANTS Producers,   \* the producer threads (argv[2] of them)
          Consumers,   \* the consumer threads (argv[3] of them)
          Items,       \* what rand() % RAND_MAX_ITEM may yield
          BufferSize,  \* BUFFER_SIZE
          Vacant       \* content of a slot or a local that holds no item

ASSUME ThreadsAssumption ==
  /\ IsFiniteSet(Producers) /\ Producers # {}
  /\ IsFiniteSet(Consumers) /\ Consumers # {}
  /\ Producers \cap Consumers = {}

ASSUME BufferAssumption == BufferSize \in Nat \ {0} /\ Vacant \notin Items

Threads == Producers \cup Consumers
Slots == 0 .. BufferSize - 1

VARIABLES
  buffer,     \* the array
  curSize,    \* how many of its slots hold items
  mutex,      \* the set of threads that own the mutex (at most one)
  live,       \* FALSE once pthread_mutex_destroy succeeded
  full,       \* the semaphore counting items
  empty,      \* the semaphore counting free slots
  pc,         \* where each thread is
  item,       \* the local variable "item" of each thread
  reg,        \* the value of curSize a thread has loaded
  main,       \* where the main thread is; "undefined" after a data race
  cancelled   \* threads pthread_cancel was called for

data == <<buffer, curSize>>
sync == <<mutex, live, full, empty>>
local == <<item, reg>>
shutdown == <<main, cancelled>>
vars == <<data, sync, pc, local, shutdown>>

(* sleep() and a blocked sem_wait() are "wait"; a thread that honours a    *)
(* cancellation there is "gone", one that does so inside printf(), with    *)
(* the mutex held, is "killed".                                            *)
Places == {"wait", "lock", "crit", "commit", "print", "unlock", "post", "gone", "killed"}

TypeOK ==
  /\ buffer \in [Slots -> Items \cup {Vacant}]
  /\ curSize \in 0 .. BufferSize
  /\ mutex \in SUBSET Threads
  /\ live \in BOOLEAN
  /\ full \in Nat
  /\ empty \in Nat
  /\ pc \in [Threads -> Places]
  /\ item \in [Threads -> Items \cup {Vacant}]
  /\ reg \in [Threads -> 0 .. BufferSize]
  /\ main \in {"sleep", "cancel", "destroy", "exited", "undefined"}
  /\ cancelled \in SUBSET Threads

\* MUTANT: one free slot too many.
InitOneTooMany ==
  /\ buffer = [s \in Slots |-> Vacant]
  /\ curSize = 0
  /\ mutex = {}
  /\ live = TRUE
  /\ full = 0
  /\ empty = BufferSize + 1
  /\ pc = [t \in Threads |-> "wait"]
  /\ item = [t \in Threads |-> Vacant]
  /\ reg = [t \in Threads |-> 0]
  /\ main = "sleep"
  /\ cancelled = {}

Init ==
  /\ buffer = [s \in Slots |-> Vacant]
  /\ curSize = 0
  /\ mutex = {}
  /\ live = TRUE
  /\ full = 0
  /\ empty = BufferSize
  /\ pc = [t \in Threads |-> "wait"]
  /\ item = [t \in Threads |-> Vacant]
  /\ reg = [t \in Threads |-> 0]
  /\ main = "sleep"
  /\ cancelled = {}

-----------------------------------------------------------------------------
Over == {"exited", "undefined"}

(* Thread t moves on, in a process that is not over.                       *)
Goto(t, from, to) ==
  /\ main \notin Over
  /\ pc[t] = from
  /\ pc' = [pc EXCEPT ![t] = to]

(* producer(): the random item, then sem_wait(&empty).                     *)
WaitEmpty(p) ==
  /\ Goto(p, "wait", "lock")
  /\ empty > 0
  /\ empty' = empty - 1
  /\ \E v \in Items : item' = [item EXCEPT ![p] = v]
  /\ UNCHANGED <<data, mutex, live, full, reg, shutdown>>

(* consumer(): sem_wait(&full).                                            *)
WaitFull(c) ==
  /\ Goto(c, "wait", "lock")
  /\ full > 0
  /\ full' = full - 1
  /\ UNCHANGED <<data, mutex, live, empty, local, shutdown>>

\* MUTANT: trylock whose answer is ignored.
LockIgnored(t) ==
  /\ Goto(t, "lock", "crit")
  /\ mutex' = IF live /\ mutex = {} THEN {t} ELSE mutex
  /\ UNCHANGED <<data, live, full, empty, local, shutdown>>

(* pthread_mutex_lock(&mutex).  A destroyed mutex answers EINVAL, which    *)
(* the code ignores: the thread goes on without owning it.                 *)
Lock(t) ==
  /\ Goto(t, "lock", "crit")
  /\ live => mutex = {}
  /\ mutex' = IF live THEN {t} ELSE mutex
  /\ UNCHANGED <<data, live, full, empty, local, shutdown>>

(* Another thread is between the first and the last of its accesses to     *)
(* curSize and the buffer: those that t is about to make would overlap     *)
(* them.                                                                   *)
Racing(t) == \E u \in Threads \ {t} : pc[u] = "commit"

(* insert_item() or remove_item() without the lock, in the middle of       *)
(* another call.                                                           *)
Race(t) ==
  /\ main \notin Over
  /\ pc[t] = "crit"
  /\ Racing(t)
  /\ main' = "undefined"
  /\ UNCHANGED <<data, sync, pc, local, cancelled>>

(* insert_item(): the test and, if there is room, the store into the slot  *)
(* and the load of curSize for the increment.  Otherwise it returns -1 and *)
(* the producer prints the error and goes on.                              *)
InsertItem(p) ==
  LET room == curSize < BufferSize
  IN  /\ ~Racing(p)
      /\ Goto(p, "crit", IF room THEN "commit" ELSE "print")
      /\ buffer' = IF room THEN [buffer EXCEPT ![curSize] = item[p]] ELSE buffer
      /\ reg' = IF room THEN [reg EXCEPT ![p] = curSize] ELSE reg
      /\ UNCHANGED <<curSize, sync, item, shutdown>>

\* MUTANT: the producer counts the item a second time.
InsertCommitTwice(p) ==
  /\ Goto(p, "commit", "print")
  /\ curSize' = reg[p] + 2
  /\ reg' = [reg EXCEPT ![p] = 0]
  /\ UNCHANGED <<buffer, sync, item, shutdown>>

InsertCommit(p) ==
  /\ Goto(p, "commit", "print")
  /\ curSize' = reg[p] + 1
  /\ reg' = [reg EXCEPT ![p] = 0]
  /\ UNCHANGED <<buffer, sync, item, shutdown>>

\* MUTANT: the newest item instead of the oldest.
RemoveNewest(c) ==
  LET some == curSize > 0
  IN  /\ ~Racing(c)
      /\ Goto(c, "crit", IF some THEN "commit" ELSE "print")
      /\ item' = IF some THEN [item EXCEPT ![c] = buffer[curSize - 1]] ELSE item
      /\ reg' = IF some THEN [reg EXCEPT ![c] = curSize] ELSE reg
      /\ UNCHANGED <<data, sync, shutdown>>

(* remove_item(): the test and, if there is an item, the read of the first *)
(* slot and the load of curSize for the decrement; otherwise -1.           *)
RemoveItem(c) ==
  LET some == curSize > 0
  IN  /\ ~Racing(c)
      /\ Goto(c, "crit", IF some THEN "commit" ELSE "print")
      /\ item' = IF some THEN [item EXCEPT ![c] = buffer[0]] ELSE item
      /\ reg' = IF some THEN [reg EXCEPT ![c] = curSize] ELSE reg
      /\ UNCHANGED <<data, sync, shutdown>>

(* The first n slots after the loop that moves every item forward; the     *)
(* slot behind them is overwritten with -1.                                *)
Shifted(n) ==
  [s \in Slots |-> IF s < n THEN buffer[s + 1]
                   ELSE IF s = n THEN Vacant ELSE buffer[s]]

RemoveCommit(c) ==
  /\ Goto(c, "commit", "print")
  /\ curSize' = reg[c] - 1
  /\ buffer' = Shifted(reg[c] - 1)
  /\ reg' = [reg EXCEPT ![c] = 0]
  /\ UNCHANGED <<sync, item, shutdown>>

(* printf(), which may be a cancellation point.                            *)
Announce(t) ==
  /\ Goto(t, "print", "unlock")
  /\ UNCHANGED <<data, sync, local, shutdown>>

\* MUTANT: the unlock is forgotten.
UnlockForgotten(t) ==
  /\ Goto(t, "unlock", "post")
  /\ UNCHANGED <<data, sync, local, shutdown>>

(* pthread_mutex_unlock(&mutex); a destroyed one is left alone (EINVAL).   *)
Unlock(t) ==
  /\ Goto(t, "unlock", "post")
  /\ mutex' = mutex \ {t}
  /\ UNCHANGED <<data, live, full, empty, local, shutdown>>

(* Back at the top of the loop: sleep() is a cancellation point, which a   *)
(* thread with a pending cancellation does not get past.                   *)
LoopTop(t) == IF t \in cancelled THEN "gone" ELSE "wait"

(* producer(): sem_post(&full).                                            *)
PostFull(p) ==
  /\ Goto(p, "post", LoopTop(p))
  /\ full' = full + 1
  /\ item' = [item EXCEPT ![p] = Vacant]
  /\ UNCHANGED <<data, mutex, live, empty, reg, shutdown>>

\* MUTANT: the consumer posts the semaphore it waited for.
PostEmptySwapped(c) ==
  /\ Goto(c, "post", LoopTop(c))
  /\ full' = full + 1
  /\ item' = [item EXCEPT ![c] = Vacant]
  /\ UNCHANGED <<data, mutex, live, empty, reg, shutdown>>

(* consumer(): sem_post(&empty).                                           *)
PostEmpty(c) ==
  /\ Goto(c, "post", LoopTop(c))
  /\ empty' = empty + 1
  /\ item' = [item EXCEPT ![c] = Vacant]
  /\ UNCHANGED <<data, mutex, live, full, reg, shutdown>>

-----------------------------------------------------------------------------
(* Deferred cancellation: it takes effect in sleep() or sem_wait(), unless *)
(* the thread is past the test for it and gets its token first; and it may *)
(* take effect in printf(), where the thread still owns the mutex.         *)
CancelledWaiting(t) ==
  /\ t \in cancelled
  /\ Goto(t, "wait", "gone")
  /\ UNCHANGED <<data, sync, local, shutdown>>

CancelledPrinting(t) ==
  /\ t \in cancelled
  /\ Goto(t, "print", "killed")
  /\ UNCHANGED <<data, sync, local, shutdown>>

(* main(): the end of sleep(sleep_time).                                   *)
WakeUp ==
  /\ main = "sleep"
  /\ main' = "cancel"
  /\ UNCHANGED <<data, sync, pc, local, cancelled>>

(* main(): pthread_cancel, the producers before the consumers.             *)
Cancel(t) ==
  /\ main = "cancel"
  /\ t \notin cancelled
  /\ t \in Consumers => Producers \subseteq cancelled
  /\ cancelled' = cancelled \cup {t}
  /\ UNCHANGED <<data, sync, pc, local, main>>

(* main(): pthread_mutex_destroy, refused (EBUSY) while somebody owns the  *)
(* mutex; sem_destroy changes nothing.                                     *)
DestroyMutex ==
  /\ main = "cancel"
  /\ cancelled = Threads
  /\ main' = "destroy"
  /\ live' = (mutex # {})
  /\ UNCHANGED <<data, mutex, full, empty, pc, local, cancelled>>

(* main(): return 0 ends every thread.                                     *)
Exit ==
  /\ main = "destroy"
  /\ main' = "exited"
  /\ UNCHANGED <<data, sync, pc, local, cancelled>>

-----------------------------------------------------------------------------
ProducerStep(p) ==
  \/ WaitEmpty(p) \/ InsertItem(p) \/ InsertCommit(p) \/ PostFull(p)

ConsumerStep(c) ==
  \/ WaitFull(c) \/ RemoveItem(c) \/ RemoveCommit(c) \/ PostEmpty(c)

CommonStep(t) == Lock(t) \/ Race(t) \/ Announce(t) \/ Unlock(t)

CancelStep(t) == CancelledWaiting(t) \/ CancelledPrinting(t)

MainStep == WakeUp \/ DestroyMutex \/ Exit \/ \E t \in Threads : Cancel(t)

Terminated == main \in Over /\ UNCHANGED vars

Next ==
  \/ \E p \in Producers : ProducerStep(p)
  \/ \E c \in Consumers : ConsumerStep(c)
  \/ \E t \in Threads : CommonStep(t) \/ CancelStep(t)
  \/ MainStep
  \/ Terminated

Spec == Init /\ [][Next]_vars

(* The scheduler runs every thread that can run; main may sleep for ever.  *)
Fairness ==
  /\ \A p \in Producers : WF_vars(ProducerStep(p) \/ CommonStep(p))
  /\ \A c \in Consumers : WF_vars(ConsumerStep(c) \/ CommonStep(c))

FairSpec == Spec /\ Fairness

-----------------------------------------------------------------------------
(* Who holds a unit of a semaphore that it has not yet turned into a       *)
(* change of curSize, and who has changed curSize and not yet posted.      *)
Holding(S) == {t \in S : pc[t] \in {"lock", "crit", "commit"}}
Owing(S) == {t \in S : pc[t] \in {"print", "unlock", "post", "killed"}}

Inside == {t \in Threads : pc[t] \in {"crit", "commit", "print", "unlock", "killed"}}

(* The semaphores and the counter agree, whatever the interleaving: every  *)
(* slot is free, full, or in the hands of one thread.  A thread cancelled  *)
(* in printf() keeps what it holds for ever.  The sums outlive the mutex:  *)
(* only calls that overlap break them.                                     *)
SlotAccounting ==
  /\ empty + Cardinality(Holding(Producers)) + curSize
       + Cardinality(Owing(Consumers)) = BufferSize
  /\ full + Cardinality(Holding(Consumers)) + Cardinality(Owing(Producers))
       = curSize

(* insert_item() and remove_item() never return -1, not even after the     *)
(* mutex is destroyed, as long as no two calls have overlapped: the        *)
(* "ERROR" branches of producer() and consumer() are dead code.            *)
NoFailedOperation ==
  /\ \A p \in Producers : pc[p] = "crit" => curSize < BufferSize
  /\ \A c \in Consumers : pc[c] = "crit" => curSize > 0

(* At most one thread is between lock and unlock, and the mutex is its.    *)
MutualExclusion == live => Inside = mutex /\ \A t, u \in mutex : t = u

(* Until main cancels somebody, the threads are never all blocked: one of  *)
(* them can take the mutex, take a unit of its semaphore, or run on.       *)
CanRun(t) ==
  \/ t \in Producers /\ pc[t] = "wait" /\ empty > 0
  \/ t \in Consumers /\ pc[t] = "wait" /\ full > 0
  \/ pc[t] = "lock" /\ (live => mutex = {})
  \/ pc[t] \in {"crit", "commit", "print", "unlock", "post"}

NoStall == main = "sleep" => \E t \in Threads : CanRun(t)

(* While main sleeps, items keep coming out of the buffer: nothing in the  *)
(* two semaphores and the mutex stops the system as a whole (a single      *)
(* thread may be overtaken for ever).                                      *)
Progress == []<>(main # "sleep" \/ \E c \in Consumers : pc[c] = "commit")

(* Until two calls overlap, which takes the destruction of the mutex, the  *)
(* program is a FIFO buffer: an item enters it when curSize is incremented *)
(* and leaves it when curSize is decremented.                              *)
Abstract == INSTANCE BoundedBuffer WITH
  Capacity <- BufferSize,
  queue <- [i \in 1 .. curSize |-> buffer[i - 1]],
  offered <- [p \in Producers |->
                IF pc[p] \in {"lock", "crit", "commit"} THEN item[p] ELSE Vacant],
  taken <- [c \in Consumers |->
              IF pc[c] \in {"print", "unlock", "post", "killed"} THEN item[c] ELSE Vacant],
  closed <- main = "undefined"

IsBoundedBuffer == Abstract!Spec
=============================================================================
