-------------------------- MODULE ThreadPoolProofs --------------------------
(***************************************************************************)
(* The thread pool for any number of slots, of submissions and any queue   *)
(* that is longer than the pool.                                           *)
(*                                                                         *)
(* The argument: the semaphore bounds the workers (SemaphoreAccounting),   *)
(* and each worker that has not yet taken its task accounts for one entry  *)
(* of the queue (QueueAccounting).  Together they say why the tests that   *)
(* are made without the lock cannot fail.  The entries below curLEN are    *)
(* tasks because only the owner of the mutex changes array and length, and *)
(* it leaves them apart by one entry in between (QueueShape).  So nothing  *)
(* that is taken is NULL, and the global worktodo, raced for as it is,     *)
(* never holds NULL once the first task was submitted (TasksInHand).       *)
(***************************************************************************)
EXTENDS ThreadPool, FiniteSetTheorems, TLAPS

(* Workers are created in the order of the submissions.                    *)
Unborn ==
  main \notin {"sleep", "asleep", "join"} \cup Ended =>
    /\ submitted \in Tasks
    /\ \A w \in Workers : w >= submitted => worker[w] = "none"

(* Until client.c calls sleep(), what a worker reads through its pointer   *)
(* is some slot, if not its own.                                           *)
IndexKnown ==
  main \notin {"asleep", "join"} \cup Ended =>
    /\ main \in {"scan", "create"} => index \in Slots
    /\ \A w \in Workers :
         /\ worker[w] # "none" => index \in Slots
         /\ worker[w] \notin {"none", "start", "post", "done"} => my_index[w] \in Slots

TasksInHand ==
  /\ worktodo = NULL => main = "write" /\ \A w \in Workers : worker[w] = "none"
  /\ main \in {"check", "lock", "store", "count"} => argument # NULL
  /\ \A w \in Workers : worker[w] = "assign" => result[w] # NULL

MutexOwned ==
  /\ mutex = Main <=> main \in {"store", "count"}
  /\ \A w \in Workers : mutex = w <=> worker[w] \in {"take", "shift"}

(* Array and length disagree by one entry inside the critical sections.    *)
Apart == main = "count" \/ \E w \in Workers : worker[w] = "shift"
QueueShape ==
  \A i \in 0 .. QUEUE_SIZE - 1 :
    task_queue[i] # NULL <=> i < curLEN + One(Apart)

(* No task was executed more often than workers have executed something.   *)
Executed == {w \in Workers : worker[w] \in {"clear", "post", "done"}}
RunsBounded == \A k \in Tasks : runs[k] <= Cardinality(Executed)

Inv ==
  /\ TypeOK /\ Unborn /\ IndexKnown /\ TasksInHand /\ MutexOwned /\ QueueShape /\ RunsBounded
  /\ SemaphoreAccounting /\ QueueAccounting

-----------------------------------------------------------------------------
(* The size of a set that gains or loses the element w at most.            *)
LEMMA SizeStep ==
  ASSUME NEW A, IsFiniteSet(A), NEW B, NEW w, B = A \cup {w} \/ B = A \ {w}
  PROVE  /\ Cardinality(A) \in Nat
         /\ Cardinality(B) = Cardinality(A) + One(w \in B) - One(w \in A)
<1>1. Cardinality(A) \in Nat
  BY FS_CardinalityType
<1>2. CASE B = A \cup {w}
  BY <1>1, <1>2, FS_AddElement DEF One
<1>3. CASE B = A \ {w}
  BY <1>1, <1>3, FS_RemoveElement DEF One
<1> QED BY <1>1, <1>2, <1>3


LEMMA WorkersFinite == IsFiniteSet(Workers) /\ Cardinality(Workers) = Submissions
<1>1. Submissions \in Int /\ 1 <= Submissions
  BY PoolAssumption
<1> QED BY <1>1, FS_Interval DEF Workers

At(S) == {w \in Workers : worker[w] \in S}

(* How the number of workers in the places S changes when w goes to x.     *)
LEMMA Moves ==
  ASSUME TypeOK, NEW w \in Workers, NEW x, worker' = [worker EXCEPT ![w] = x], NEW S
  PROVE  /\ Cardinality(At(S)) \in Nat
         /\ Cardinality(At(S)') = Cardinality(At(S)) + One(x \in S) - One(worker[w] \in S)
<1>1. \A v \in Workers : worker'[v] = IF v = w THEN x ELSE worker[v]
  BY DEF TypeOK
<1>2. IsFiniteSet(At(S))
  <2>1. At(S) \subseteq Workers
    BY DEF At
  <2> QED BY <2>1, WorkersFinite, FS_Subset
<1>3. At(S)' = At(S) \cup {w} \/ At(S)' = At(S) \ {w}
  BY <1>1 DEF At
<1>4. (w \in At(S) <=> worker[w] \in S) /\ (w \in At(S)' <=> x \in S)
  BY <1>1 DEF At
<1> QED BY <1>2, <1>3, <1>4, SizeStep DEF One

ActivePlaces == WorkerPlaces \ {"none", "done"}
WaitingPlaces == {"start", "check", "lock", "take"}
ExecutedPlaces == {"clear", "post", "done"}

LEMMA AsPlaces ==
  TypeOK => Active = At(ActivePlaces) /\ Waiting = At(WaitingPlaces) /\ Executed = At(ExecutedPlaces)
BY DEF TypeOK, Active, Waiting, Executed, At, ActivePlaces, WaitingPlaces, ExecutedPlaces

LEMMA MovesAll ==
  ASSUME TypeOK, NEW w \in Workers, NEW x \in WorkerPlaces, worker' = [worker EXCEPT ![w] = x]
  PROVE  /\ Cardinality(Active') = Cardinality(Active)
                                     + One(x \in ActivePlaces) - One(worker[w] \in ActivePlaces)
         /\ Cardinality(Waiting') = Cardinality(Waiting)
                                     + One(x \in WaitingPlaces) - One(worker[w] \in WaitingPlaces)
         /\ Cardinality(Executed') = Cardinality(Executed)
                                     + One(x \in ExecutedPlaces) - One(worker[w] \in ExecutedPlaces)
<1>1. worker' \in [Workers -> WorkerPlaces]
  BY DEF TypeOK
<1>2. Active = At(ActivePlaces) /\ Waiting = At(WaitingPlaces) /\ Executed = At(ExecutedPlaces)
  BY AsPlaces
<1>3. Active' = At(ActivePlaces)'
  BY <1>1 DEF Active, At, ActivePlaces, WorkerPlaces
<1>4. Waiting' = At(WaitingPlaces)' /\ Executed' = At(ExecutedPlaces)'
  BY DEF Waiting, Executed, At, WaitingPlaces, ExecutedPlaces
<1>5. Cardinality(At(ActivePlaces)') = Cardinality(At(ActivePlaces))
                                     + One(x \in ActivePlaces) - One(worker[w] \in ActivePlaces)
  BY Moves
<1>6. Cardinality(At(WaitingPlaces)') = Cardinality(At(WaitingPlaces))
                                     + One(x \in WaitingPlaces) - One(worker[w] \in WaitingPlaces)
  BY Moves
<1>7. Cardinality(At(ExecutedPlaces)') = Cardinality(At(ExecutedPlaces))
                                     + One(x \in ExecutedPlaces) - One(worker[w] \in ExecutedPlaces)
  BY Moves
<1> QED BY <1>2, <1>3, <1>4, <1>5, <1>6, <1>7

(* A worker that waits for its task is active, and one that holds a task   *)
(* is active and does not wait.                                            *)
LEMMA Counts ==
  ASSUME TypeOK
  PROVE  /\ Cardinality(Active) \in Nat /\ Cardinality(Waiting) \in Nat
         /\ Cardinality(Executed) \in 0 .. Submissions
         /\ Cardinality(Waiting) <= Cardinality(Active)
         /\ \A w \in Waiting : Cardinality(Waiting) > 0
         /\ \A w \in Active : Cardinality(Active) > 0
         /\ \A w \in Active \ Waiting : Cardinality(Waiting) < Cardinality(Active)
<1>1. IsFiniteSet(Workers) /\ Cardinality(Workers) = Submissions
  BY WorkersFinite
<1>2. IsFiniteSet(Active) /\ Waiting \subseteq Active
  BY <1>1, FS_Subset DEF Active, Waiting
<1>3. IsFiniteSet(Waiting) /\ IsFiniteSet(Executed) /\ Cardinality(Executed) <= Submissions
  BY <1>1, <1>2, FS_Subset DEF Executed
<1>4. /\ Cardinality(Active) \in Nat /\ Cardinality(Waiting) \in Nat
      /\ Cardinality(Executed) \in Nat /\ Cardinality(Waiting) <= Cardinality(Active)
  BY <1>2, <1>3, FS_Subset, FS_CardinalityType
<1>5. /\ \A w \in Waiting : Cardinality(Waiting) > 0
      /\ \A w \in Active : Cardinality(Active) > 0
  BY <1>2, <1>3, <1>4, FS_EmptySet
<1>6. \A w \in Active \ Waiting : Cardinality(Waiting) < Cardinality(Active)
  BY <1>2, <1>4, FS_Subset
<1> QED BY <1>3, <1>4, <1>5, <1>6, PoolAssumption

(* What the accounts say of the queue's length.                            *)
LEMMA Lengths ==
  ASSUME TypeOK, SemaphoreAccounting, QueueAccounting
  PROVE  /\ main \in {"write", "pass", "check", "lock", "store", "count"} => curLEN < QUEUE_SIZE
         /\ \A w \in Workers : worker[w] \in WaitingPlaces => curLEN > 0
         /\ \A w \in Workers : worker[w] = "shift" => curLEN < QUEUE_SIZE
         /\ \A w \in Workers : worker[w] = "post" => semaphore < NUMBER_OF_THREADS
<1> USE PoolAssumption, Counts DEF TypeOK, SemaphoreAccounting, QueueAccounting, One
<1>1. /\ \A w \in Workers : worker[w] \in WaitingPlaces => w \in Waiting
      /\ \A w \in Workers : worker[w] \in {"shift", "post"} => w \in Active \ Waiting
  BY DEF Waiting, Active, WaitingPlaces
<1>2. main \in {"write", "pass", "check", "lock", "store", "count"} => curLEN < QUEUE_SIZE
  OBVIOUS
<1>3. \A w \in Workers : worker[w] \in WaitingPlaces => curLEN > 0
  BY <1>1
<1>4. \A w \in Workers : worker[w] = "shift" => curLEN < QUEUE_SIZE
  BY <1>1
<1>5. \A w \in Workers : worker[w] = "post" => semaphore < NUMBER_OF_THREADS
  BY <1>1
<1> QED BY <1>2, <1>3, <1>4, <1>5

-----------------------------------------------------------------------------
LEMMA InitInv == Init => Inv
<1> SUFFICES ASSUME Init PROVE Inv
  OBVIOUS
<1> USE PoolAssumption DEF Init, Slots, Tasks, Workers, Main, Ended
<1>1. TypeOK
  BY DEF TypeOK, MainPlaces, WorkerPlaces
<1>2. Unborn /\ IndexKnown /\ TasksInHand /\ MutexOwned
  BY DEF Unborn, IndexKnown, TasksInHand, MutexOwned
<1>3. QueueShape
  BY DEF QueueShape, Apart, One
<1>4. RunsBounded
  BY <1>1, Counts DEF RunsBounded
<1>5. Active = {} /\ Waiting = {}
  BY DEF Active, Waiting
<1>6. SemaphoreAccounting /\ QueueAccounting
  BY <1>5, FS_EmptySet DEF SemaphoreAccounting, QueueAccounting, One
<1> QED BY <1>1, <1>2, <1>3, <1>4, <1>6 DEF Inv

(* A worker never calls a null function, and only after pool_submit()'s    *)
(* frame is gone can its index be wild: before sleep() nothing crashes.    *)
LEMMA NoCrash ==
  ASSUME Inv, NEW w \in Workers, WorkerStep(w)
  PROVE  /\ main' = main \/ (main \in {"asleep", "join"} /\ main' = "crashed")
         /\ main' = main \/ (worker[w] = "clear" /\ my_index[w] = Junk)
         /\ UNCHANGED <<submitted, argument, index>>
<1> USE DEF Goto, submit
<1>1. CASE WorkerExecute(w)
  BY <1>1 DEF WorkerExecute, Inv, TasksInHand
<1>2. CASE WorkerClear(w)
  <2>1. main \notin {"asleep", "join"} => my_index[w] \in Slots
    BY <1>2 DEF WorkerClear, Inv, IndexKnown
  <2>2. Junk \notin Slots
    BY PoolAssumption DEF Slots
  <2> QED BY <1>2, <2>1, <2>2 DEF WorkerClear
<1>3. CASE WorkerStart(w) \/ DequeueCheck(w) \/ DequeueLock(w) \/ DequeueTake(w)
  BY <1>3 DEF WorkerStart, DequeueCheck, DequeueLock, DequeueTake
<1>4. CASE DequeueShift(w) \/ DequeueReturn(w) \/ WorkerAssign(w) \/ WorkerPost(w)
  BY <1>4 DEF DequeueShift, DequeueReturn, WorkerAssign, WorkerPost
<1> QED BY <1>1, <1>2, <1>3, <1>4 DEF WorkerStep

LEMMA MainTypes == ASSUME Inv, MainStep PROVE TypeOK'
<1> USE PoolAssumption DEF Inv, TypeOK, MainGoes, AfterSubmission, MainPlaces, WorkerPlaces, Ended,
                           queue, slots, submit, locals
<1>1. submitted \in Tasks \/ main \in {"sleep", "asleep", "join"} \cup Ended
  BY DEF Unborn
<1>2. CASE SubmitWrite
  BY <1>1, <1>2 DEF SubmitWrite
<1>3. CASE SubmitPass
  BY <1>3 DEF SubmitPass
<1>4. CASE EnqueueCheck
  BY <1>4 DEF EnqueueCheck
<1>5. CASE EnqueueLock
  BY <1>5 DEF EnqueueLock
<1>6. CASE EnqueueStore
  BY <1>6 DEF EnqueueStore
<1>7. CASE EnqueueCount
  <2>1. curLEN < QUEUE_SIZE
    BY <1>7, Lengths DEF EnqueueCount
  <2> QED BY <1>7, <2>1 DEF EnqueueCount
<1>8. CASE SubmitWait
  BY <1>8 DEF SubmitWait, Slots
<1>9. CASE SubmitScan
  <2>1. index \in Slots /\ (index + 1) % NUMBER_OF_THREADS \in Slots
    BY <1>9 DEF SubmitScan, IndexKnown, Slots
  <2> QED BY <1>9, <2>1 DEF SubmitScan
<1>10. CASE SubmitCreate
  <2>1. submitted \in Workers /\ index \in Slots
    BY <1>1, <1>10 DEF SubmitCreate, Workers, Tasks, IndexKnown
  <2>2. submitted' \in Nat /\ main' \in {"write", "sleep"}
    BY <1>1, <1>10 DEF SubmitCreate
  <2> QED BY <1>10, <2>1, <2>2 DEF SubmitCreate
<1>11. CASE Sleep \/ WakeUp
  BY <1>11 DEF Sleep, WakeUp
<1>12. CASE Join
  BY <1>12 DEF Join
<1> QED BY <1>2, <1>3, <1>4, <1>5, <1>6, <1>7, <1>8, <1>9, <1>10, <1>11, <1>12 DEF MainStep

LEMMA WorkerTypes == ASSUME Inv, NEW w \in Workers, WorkerStep(w) PROVE TypeOK'
<1> USE PoolAssumption DEF Inv, TypeOK, Goto, MainPlaces, WorkerPlaces, Ended, queue, slots, submit, locals
<1>1. CASE WorkerStart(w)
  BY <1>1 DEF WorkerStart, FoundAtIndex
<1>2. CASE DequeueCheck(w)
  BY <1>2 DEF DequeueCheck
<1>3. CASE DequeueLock(w)
  BY <1>3 DEF DequeueLock
<1>4. CASE DequeueTake(w)
  <2>1. curLEN > 0
    BY <1>4, Lengths DEF DequeueTake, WaitingPlaces
  <2> QED BY <1>4, <2>1 DEF DequeueTake
<1>5. CASE DequeueShift(w)
  <2>1. curLEN < QUEUE_SIZE
    BY <1>5, Lengths DEF DequeueShift
  <2>2. Shifted \in [0 .. QUEUE_SIZE - 1 -> Tasks \cup {NULL}]
    BY <2>1 DEF Shifted
  <2> QED BY <1>5, <2>2 DEF DequeueShift
<1>6. CASE DequeueReturn(w)
  BY <1>6 DEF DequeueReturn
<1>7. CASE WorkerAssign(w)
  BY <1>7 DEF WorkerAssign
<1>8. CASE WorkerExecute(w)
  <2>1. Cardinality(Executed) < Submissions
    <3>1. Executed \subseteq Workers \ {w}
      BY <1>8 DEF WorkerExecute, Executed
    <3>2. Cardinality(Workers \ {w}) = Submissions - 1
      BY WorkersFinite, FS_RemoveElement
    <3> QED BY <3>1, <3>2, WorkersFinite, FS_Subset, FS_RemoveElement, Counts
  <2>2. worktodo \in Tasks
    BY <1>8 DEF WorkerExecute, TasksInHand
  <2>3. runs[worktodo] + 1 \in 0 .. Submissions
    BY <2>1, <2>2, Counts DEF RunsBounded
  <2> QED BY <1>8, <2>2, <2>3 DEF WorkerExecute
<1>9. CASE WorkerClear(w)
  BY <1>9 DEF WorkerClear
<1>10. CASE WorkerPost(w)
  <2>1. semaphore < NUMBER_OF_THREADS
    BY <1>10, Lengths DEF WorkerPost
  <2> QED BY <1>10, <2>1 DEF WorkerPost
<1> QED BY <1>1, <1>2, <1>3, <1>4, <1>5, <1>6, <1>7, <1>8, <1>9, <1>10 DEF WorkerStep

-----------------------------------------------------------------------------
(* What main does about the creation of workers and their index.           *)
LEMMA MainLocals == ASSUME Inv, MainStep PROVE Unborn' /\ IndexKnown' /\ TasksInHand'
<1> USE DEF Inv, TypeOK, Unborn, IndexKnown, TasksInHand, MainGoes, AfterSubmission, Ended,
            queue, slots, submit, locals
<1>1. CASE SubmitWrite \/ SubmitPass
  BY <1>1, PoolAssumption DEF SubmitWrite, SubmitPass, Tasks
<1>2. CASE EnqueueCheck
  <2>1. curLEN < QUEUE_SIZE /\ curLEN \in Int /\ QUEUE_SIZE \in Int
    BY <1>2, Lengths, PoolAssumption DEF EnqueueCheck
  <2>2. main = "check" /\ main' = "lock" /\ UNCHANGED <<submitted, argument, worktodo, worker, index,
                                                     my_index, result>>
    BY <1>2, <2>1 DEF EnqueueCheck
  <2> QED BY <2>2
<1>3. CASE EnqueueLock \/ EnqueueStore \/ EnqueueCount
  BY <1>3 DEF EnqueueLock, EnqueueStore, EnqueueCount
<1>4. CASE SubmitWait
  BY <1>4, PoolAssumption DEF SubmitWait, Slots
<1>5. CASE SubmitScan
  <2>1. (index + 1) % NUMBER_OF_THREADS \in Slots
    BY <1>5, PoolAssumption DEF SubmitScan, Slots
  <2> QED BY <1>5, <2>1 DEF SubmitScan
<1>6. CASE SubmitCreate
  <2>1. /\ main = "create" /\ main' \in {"write", "sleep"} /\ index \in Slots
        /\ worktodo # NULL /\ submitted \in Tasks /\ UNCHANGED <<index, worktodo, my_index, result>>
    BY <1>6 DEF SubmitCreate
  <2>2. \A w \in Workers : worker'[w] = IF w = submitted THEN "start" ELSE worker[w]
    BY <1>6 DEF SubmitCreate
  <2>3. main' = "write" => submitted' = submitted + 1 /\ submitted + 1 \in Tasks
    BY <1>6, PoolAssumption DEF SubmitCreate, Tasks
  <2>4. Unborn'
    BY <2>1, <2>2, <2>3, PoolAssumption DEF Tasks, Workers
  <2>5. IndexKnown' /\ TasksInHand'
    BY <2>1, <2>2
  <2> QED BY <2>4, <2>5
<1>7. CASE Sleep \/ WakeUp \/ Join
  BY <1>7 DEF Sleep, WakeUp, Join
<1> QED BY <1>1, <1>2, <1>3, <1>4, <1>5, <1>6, <1>7 DEF MainStep

LEMMA WorkerLocals ==
  ASSUME Inv, NEW w \in Workers, WorkerStep(w)
  PROVE  Unborn' /\ IndexKnown' /\ TasksInHand'
<1> USE NoCrash DEF Inv, TypeOK, Unborn, IndexKnown, TasksInHand, Goto, Ended,
                    queue, slots, submit, locals
<1>1. CASE WorkerStart(w)
  BY <1>1 DEF WorkerStart, FoundAtIndex
<1>2. CASE DequeueCheck(w)
  <2>1. curLEN > 0
    BY <1>2, Lengths DEF DequeueCheck, WaitingPlaces
  <2> QED BY <1>2, <2>1 DEF DequeueCheck
<1>3. CASE DequeueLock(w)
  BY <1>3 DEF DequeueLock
<1>4. CASE DequeueTake(w)
  <2>1. curLEN > 0
    BY <1>4, Lengths DEF DequeueTake, WaitingPlaces
  <2>2. task_queue[0] # NULL
    BY <2>1, PoolAssumption DEF QueueShape, One
  <2> QED BY <1>4, <2>2 DEF DequeueTake
<1>5. CASE DequeueShift(w) \/ DequeueReturn(w)
  BY <1>5 DEF DequeueShift, DequeueReturn
<1>6. CASE WorkerAssign(w)
  BY <1>6 DEF WorkerAssign
<1>7. CASE WorkerExecute(w)
  BY <1>7 DEF WorkerExecute
<1>8. CASE WorkerClear(w)
  <2>1. \A v \in Workers : worker'[v] = IF v = w THEN "post" ELSE worker[v]
    BY <1>8 DEF WorkerClear
  <2>2. \A v \in Workers \ {w} : my_index'[v] = my_index[v]
    BY <1>8 DEF WorkerClear
  <2>3. /\ worker[w] = "clear" /\ UNCHANGED <<submitted, index, worktodo, argument, result>>
        /\ main' = main \/ main' = "crashed"
    BY <1>8 DEF WorkerClear
  <2> QED BY <2>1, <2>2, <2>3
<1>9. CASE WorkerPost(w)
  <2>1. \A v \in Workers : worker'[v] = IF v = w THEN "done" ELSE worker[v]
    BY <1>9 DEF WorkerPost
  <2>2. worker[w] = "post" /\ UNCHANGED <<main, submitted, index, worktodo, argument, my_index, result>>
    BY <1>9 DEF WorkerPost
  <2> QED BY <2>1, <2>2
<1> QED BY <1>1, <1>2, <1>3, <1>4, <1>5, <1>6, <1>7, <1>8, <1>9 DEF WorkerStep

(* The mutex is free when a thread enters, and freed when it leaves.       *)
LEMMA MainMutex == ASSUME Inv, MainStep PROVE MutexOwned'
<1> USE PoolAssumption DEF Inv, TypeOK, MutexOwned, MainGoes, AfterSubmission, Workers, Main,
                           queue, slots, submit, locals
<1>1. CASE EnqueueLock \/ EnqueueStore \/ EnqueueCount
  BY <1>1 DEF EnqueueLock, EnqueueStore, EnqueueCount
<1>2. CASE SubmitCreate
  BY <1>2 DEF SubmitCreate, Unborn, Tasks, Ended
<1>3. CASE SubmitWrite \/ SubmitPass \/ EnqueueCheck \/ SubmitWait \/ SubmitScan \/ Sleep \/ WakeUp \/ Join
  BY <1>3 DEF SubmitWrite, SubmitPass, EnqueueCheck, SubmitWait, SubmitScan, Sleep, WakeUp, Join
<1> QED BY <1>1, <1>2, <1>3 DEF MainStep

LEMMA WorkerMutex == ASSUME Inv, NEW w \in Workers, WorkerStep(w) PROVE MutexOwned'
<1>1. main' = main \/ (main \in {"asleep", "join"} /\ main' = "crashed")
  BY NoCrash
<1> USE PoolAssumption, <1>1 DEF Inv, TypeOK, MutexOwned, Goto, Workers, Main,
                                 queue, slots, submit, locals
<1>2. CASE DequeueLock(w) \/ DequeueTake(w) \/ DequeueShift(w)
  BY <1>2 DEF DequeueLock, DequeueTake, DequeueShift
<1>3. CASE ~(DequeueLock(w) \/ DequeueTake(w) \/ DequeueShift(w))
  <2>1. /\ UNCHANGED mutex
        /\ worker[w] \notin {"take", "shift"}
        /\ \E to \in WorkerPlaces \ {"take", "shift"} : worker' = [worker EXCEPT ![w] = to]
    <3>1. CASE WorkerStart(w) \/ DequeueReturn(w) \/ WorkerAssign(w)
      BY <3>1 DEF WorkerStart, DequeueReturn, WorkerAssign, WorkerPlaces
    <3>2. CASE DequeueCheck(w)
      BY <3>2 DEF DequeueCheck, WorkerPlaces
    <3>3. CASE WorkerExecute(w) \/ WorkerClear(w) \/ WorkerPost(w)
      BY <3>3 DEF WorkerExecute, WorkerClear, WorkerPost, WorkerPlaces
    <3> QED BY <1>3, <3>1, <3>2, <3>3 DEF WorkerStep
  <2> QED BY <2>1
<1> QED BY <1>2, <1>3

(* Under the lock array and length part by one entry and meet again.       *)
LEMMA MainQueue == ASSUME Inv, MainStep PROVE QueueShape'
<1> USE PoolAssumption DEF Inv, TypeOK, MutexOwned, QueueShape, Apart, One, MainGoes, AfterSubmission,
                           queue, slots, submit, locals
<1>1. CASE EnqueueLock
  BY <1>1 DEF EnqueueLock
<1>2. CASE EnqueueStore
  <2>1. curLEN < QUEUE_SIZE /\ argument # NULL
    BY <1>2, Lengths DEF EnqueueStore, TasksInHand
  <2>2. ~ \E w \in Workers : worker[w] = "shift"
    BY <1>2 DEF EnqueueStore, Workers, Main
  <2>3. /\ main = "store" /\ main' = "count" /\ UNCHANGED <<curLEN, worker>>
        /\ \A i \in 0 .. QUEUE_SIZE - 1 :
             task_queue'[i] = IF i = curLEN THEN argument ELSE task_queue[i]
    BY <1>2 DEF EnqueueStore
  <2> QED BY <2>1, <2>2, <2>3
<1>3. CASE EnqueueCount
  <2>1. ~ \E w \in Workers : worker[w] = "shift"
    BY <1>3 DEF EnqueueCount, Workers, Main
  <2> QED BY <1>3, <2>1 DEF EnqueueCount
<1>4. CASE SubmitCreate
  <2>1. \A w \in Workers : worker'[w] = "shift" <=> worker[w] = "shift"
    BY <1>4 DEF SubmitCreate, Unborn, Tasks, Workers, Ended
  <2>2. main = "create" /\ main' # "count" /\ UNCHANGED queue
    BY <1>4 DEF SubmitCreate
  <2> QED BY <2>1, <2>2
<1>5. CASE SubmitWrite \/ SubmitPass \/ EnqueueCheck \/ SubmitWait \/ SubmitScan \/ Sleep \/ WakeUp \/ Join
  BY <1>5 DEF SubmitWrite, SubmitPass, EnqueueCheck, SubmitWait, SubmitScan, Sleep, WakeUp, Join
<1> QED BY <1>1, <1>2, <1>3, <1>4, <1>5 DEF MainStep

LEMMA WorkerQueue == ASSUME Inv, NEW w \in Workers, WorkerStep(w) PROVE QueueShape'
<1>1. main' = main \/ (main \in {"asleep", "join"} /\ main' = "crashed")
  BY NoCrash
<1> USE PoolAssumption, <1>1 DEF Inv, TypeOK, MutexOwned, QueueShape, Apart, One, Goto,
                                 queue, slots, submit, locals
<1>2. \A v \in Workers : v # Main /\ v # NULL
  BY DEF Workers, Main
<1>3. CASE DequeueTake(w)
  <2>1. main # "count" /\ \A v \in Workers : worker[v] # "shift"
    BY <1>2, <1>3 DEF DequeueTake
  <2>2. UNCHANGED task_queue /\ curLEN' = curLEN - 1 /\ worker'[w] = "shift"
    BY <1>3 DEF DequeueTake
  <2> QED BY <2>1, <2>2
<1>4. CASE DequeueShift(w)
  <2>1. worker[w] = "shift" /\ mutex = w /\ curLEN < QUEUE_SIZE
    BY <1>4, Lengths DEF DequeueShift
  <2>2. ~ Apart'
    BY <1>2, <1>4, <2>1 DEF DequeueShift
  <2>3. \A i \in 0 .. QUEUE_SIZE - 1 : task_queue[i] # NULL <=> i < curLEN + 1
    BY <2>1
  <2>4. \A i \in 0 .. QUEUE_SIZE - 1 : Shifted[i] # NULL <=> i < curLEN
    BY <2>1, <2>3 DEF Shifted
  <2>5. task_queue' = Shifted /\ curLEN' = curLEN
    BY <1>4 DEF DequeueShift
  <2> QED BY <2>2, <2>4, <2>5
<1>5. CASE WorkerStart(w) \/ DequeueCheck(w) \/ DequeueLock(w) \/ DequeueReturn(w) \/ WorkerAssign(w)
           \/ WorkerExecute(w) \/ WorkerClear(w) \/ WorkerPost(w)
  <2>1. \A v \in Workers : worker'[v] = "shift" <=> worker[v] = "shift"
    BY <1>5 DEF WorkerStart, DequeueCheck, DequeueLock, DequeueReturn, WorkerAssign,
                WorkerExecute, WorkerClear, WorkerPost
  <2>2. UNCHANGED queue
    BY <1>5 DEF WorkerStart, DequeueCheck, DequeueLock, DequeueReturn, WorkerAssign,
                WorkerExecute, WorkerClear, WorkerPost
  <2> QED BY <2>1, <2>2
<1> QED BY <1>3, <1>4, <1>5 DEF WorkerStep

-----------------------------------------------------------------------------
(* The accounts.  Main moves a worker only when it creates it.             *)
LEMMA MainAccounts ==
  ASSUME Inv, MainStep PROVE SemaphoreAccounting' /\ QueueAccounting' /\ RunsBounded'
<1> USE PoolAssumption DEF Inv, SemaphoreAccounting, QueueAccounting, RunsBounded, One, MainGoes,
                           queue, slots, submit, locals
<1>1. /\ Cardinality(Active) \in Nat /\ Cardinality(Waiting) \in Nat /\ Cardinality(Executed) \in Nat
      /\ curLEN \in Int /\ semaphore \in Int /\ \A k \in Tasks : runs[k] \in Int
  BY Counts DEF TypeOK
<1>2. CASE SubmitCreate
  <2>1. /\ submitted \in Workers /\ worker[submitted] = "none"
        /\ worker' = [worker EXCEPT ![submitted] = "start"]
    BY <1>2 DEF SubmitCreate, Unborn, Tasks, Workers, Ended
  <2>2. main = "create" /\ main' \in {"write", "sleep"} /\ UNCHANGED <<semaphore, curLEN, runs>>
    BY <1>2 DEF SubmitCreate, AfterSubmission
  <2>3. /\ Cardinality(Active') = Cardinality(Active) + 1
        /\ Cardinality(Waiting') = Cardinality(Waiting) + 1
        /\ Cardinality(Executed') = Cardinality(Executed)
    <3>1. /\ "start" \in WorkerPlaces /\ "start" \in ActivePlaces /\ "none" \notin ActivePlaces
          /\ "start" \in WaitingPlaces /\ "none" \notin WaitingPlaces
          /\ "start" \notin ExecutedPlaces /\ "none" \notin ExecutedPlaces
      BY DEF ActivePlaces, WaitingPlaces, ExecutedPlaces, WorkerPlaces
    <3>2. /\ Cardinality(Active') = Cardinality(Active) + One("start" \in ActivePlaces)
                                                          - One("none" \in ActivePlaces)
          /\ Cardinality(Waiting') = Cardinality(Waiting) + One("start" \in WaitingPlaces)
                                                            - One("none" \in WaitingPlaces)
          /\ Cardinality(Executed') = Cardinality(Executed) + One("start" \in ExecutedPlaces)
                                                              - One("none" \in ExecutedPlaces)
      BY <2>1, <3>1, MovesAll
    <3> QED BY <1>1, <3>1, <3>2
  <2> QED BY <1>1, <2>2, <2>3
<1>3. CASE UNCHANGED worker
  <2>1. Active' = Active /\ Waiting' = Waiting /\ Executed' = Executed
    BY <1>3 DEF Active, Waiting, Executed
  <2>2. CASE EnqueueCheck
    <3>1. curLEN < QUEUE_SIZE /\ QUEUE_SIZE \in Int
      BY <2>2, Lengths DEF EnqueueCheck
    <3> QED BY <1>1, <2>1, <2>2, <3>1 DEF EnqueueCheck
  <2>3. CASE SubmitWrite \/ SubmitPass \/ EnqueueLock \/ EnqueueStore
    BY <1>1, <2>1, <2>3 DEF SubmitWrite, SubmitPass, EnqueueLock, EnqueueStore
  <2>4. CASE EnqueueCount \/ SubmitWait \/ SubmitScan
    BY <1>1, <2>1, <2>4 DEF EnqueueCount, SubmitWait, SubmitScan
  <2>5. CASE Sleep \/ WakeUp \/ Join
    BY <1>1, <2>1, <2>5 DEF Sleep, WakeUp, Join
  <2> QED BY <1>2, <2>2, <2>3, <2>4, <2>5, <1>3 DEF MainStep, SubmitCreate
<1> QED BY <1>2, <1>3 DEF MainStep, SubmitWrite, SubmitPass, EnqueueCheck, EnqueueLock, EnqueueStore,
                          EnqueueCount, SubmitWait, SubmitScan, Sleep, WakeUp, Join

(* What a worker's step does to the three sets.  Only these steps matter:  *)
(* taking a task, executing one and giving the unit back.                  *)
LEMMA WorkerCounts ==
  ASSUME TypeOK, NEW w \in Workers, NEW from \in WorkerPlaces, NEW to \in WorkerPlaces,
         Goto(w, from, to)
  PROVE  /\ (from \in WaitingPlaces <=> to \in WaitingPlaces) => Cardinality(Waiting') = Cardinality(Waiting)
         /\ from = "take" /\ to = "shift" => Cardinality(Waiting') = Cardinality(Waiting) - 1
         /\ (from \in ActivePlaces <=> to \in ActivePlaces) => Cardinality(Active') = Cardinality(Active)
         /\ from = "post" /\ to = "done" => Cardinality(Active') = Cardinality(Active) - 1
         /\ (from \in ExecutedPlaces <=> to \in ExecutedPlaces) => Cardinality(Executed') = Cardinality(Executed)
         /\ from = "execute" /\ to = "clear" => Cardinality(Executed') = Cardinality(Executed) + 1
<1>1. worker' = [worker EXCEPT ![w] = to] /\ worker[w] = from
  BY DEF Goto
<1>2. /\ Cardinality(Active') = Cardinality(Active)
                                   + One(to \in ActivePlaces) - One(from \in ActivePlaces)
      /\ Cardinality(Waiting') = Cardinality(Waiting)
                                   + One(to \in WaitingPlaces) - One(from \in WaitingPlaces)
      /\ Cardinality(Executed') = Cardinality(Executed)
                                   + One(to \in ExecutedPlaces) - One(from \in ExecutedPlaces)
  BY <1>1, MovesAll
<1>3. /\ "take" \in WaitingPlaces /\ "shift" \notin WaitingPlaces
      /\ "post" \in ActivePlaces /\ "done" \notin ActivePlaces
      /\ "execute" \notin ExecutedPlaces /\ "clear" \in ExecutedPlaces
  BY DEF WaitingPlaces, ActivePlaces, ExecutedPlaces, WorkerPlaces
<1> QED BY <1>2, <1>3, Counts DEF One

LEMMA WorkerAccounts ==
  ASSUME Inv, NEW w \in Workers, WorkerStep(w)
  PROVE  SemaphoreAccounting' /\ QueueAccounting' /\ RunsBounded'
<1>1. /\ Cardinality(Active) \in Nat /\ Cardinality(Waiting) \in Nat /\ Cardinality(Executed) \in Nat
      /\ curLEN \in Int /\ semaphore \in Int /\ \A k \in Tasks : runs[k] \in Int
  BY Counts DEF Inv, TypeOK
<1>2. main' = main \/ (main \in {"asleep", "join"} /\ main' = "crashed")
  BY NoCrash
<1>3. TypeOK /\ \A k \in Tasks : runs[k] <= Cardinality(Executed)
  BY DEF Inv, RunsBounded
<1> USE PoolAssumption, <1>1, <1>2, <1>3
        DEF SemaphoreAccounting, QueueAccounting, RunsBounded, queue, slots, submit, locals,
            WorkerPlaces, ActivePlaces, WaitingPlaces, ExecutedPlaces, One
<1>4. CASE \E x, y \in WorkerPlaces :
             /\ Goto(w, y, x)
             /\ y \in WaitingPlaces <=> x \in WaitingPlaces
             /\ y \in ActivePlaces <=> x \in ActivePlaces
             /\ y \in ExecutedPlaces <=> x \in ExecutedPlaces
             /\ UNCHANGED <<curLEN, semaphore, runs>>
  <2>1. /\ Cardinality(Active') = Cardinality(Active) /\ Cardinality(Waiting') = Cardinality(Waiting)
        /\ Cardinality(Executed') = Cardinality(Executed)
    BY <1>4, WorkerCounts
  <2> QED BY <1>4, <2>1 DEF Inv
<1>5. CASE WorkerStart(w)
  BY <1>4, <1>5 DEF WorkerStart
<1>6. CASE DequeueCheck(w)
  <2>1. curLEN > 0
    BY <1>6, Lengths DEF DequeueCheck, Inv, Goto
  <2> QED BY <1>4, <1>6, <2>1 DEF DequeueCheck
<1>7. CASE DequeueLock(w)
  BY <1>4, <1>7 DEF DequeueLock
<1>8. CASE DequeueTake(w)
  <2>1. /\ Cardinality(Active') = Cardinality(Active) /\ Cardinality(Waiting') = Cardinality(Waiting) - 1
        /\ Cardinality(Executed') = Cardinality(Executed)
    BY <1>8, WorkerCounts DEF DequeueTake
  <2> QED BY <1>8, <2>1 DEF DequeueTake, Inv
<1>9. CASE DequeueShift(w) \/ DequeueReturn(w) \/ WorkerAssign(w) \/ WorkerClear(w)
  BY <1>4, <1>9 DEF DequeueShift, DequeueReturn, WorkerAssign, WorkerClear
<1>10. CASE WorkerExecute(w)
  <2>1. /\ Cardinality(Active') = Cardinality(Active) /\ Cardinality(Waiting') = Cardinality(Waiting)
        /\ Cardinality(Executed') = Cardinality(Executed) + 1
    BY <1>10, WorkerCounts DEF WorkerExecute
  <2>2. \A k \in Tasks : runs'[k] <= runs[k] + 1
    <3>1. runs \in [Tasks -> Int]
      BY DEF TypeOK
    <3>2. runs' = runs \/ runs' = [runs EXCEPT ![worktodo] = runs[worktodo] + 1]
      BY <1>10 DEF WorkerExecute
    <3> QED BY <3>1, <3>2
  <2>3. \A k \in Tasks : runs'[k] \in Int
    BY WorkerTypes DEF TypeOK
  <2>4. RunsBounded'
    BY <2>1, <2>2, <2>3
  <2> QED BY <1>10, <2>1, <2>4 DEF WorkerExecute, Inv
<1>11. CASE WorkerPost(w)
  <2>1. /\ Cardinality(Active') = Cardinality(Active) - 1 /\ Cardinality(Waiting') = Cardinality(Waiting)
        /\ Cardinality(Executed') = Cardinality(Executed)
    BY <1>11, WorkerCounts DEF WorkerPost
  <2> QED BY <1>11, <2>1 DEF WorkerPost, Inv
<1> QED BY <1>5, <1>6, <1>7, <1>8, <1>9, <1>10, <1>11 DEF WorkerStep

-----------------------------------------------------------------------------
LEMMA NextInv == Inv /\ [Next]_vars => Inv'
<1> SUFFICES ASSUME Inv, [Next]_vars PROVE Inv'
  OBVIOUS
<1>1. CASE MainStep
  BY <1>1, MainTypes, MainLocals, MainMutex, MainQueue, MainAccounts DEF Inv
<1>2. ASSUME NEW w \in Workers, WorkerStep(w) PROVE Inv'
  BY <1>2, WorkerTypes, WorkerLocals, WorkerMutex, WorkerQueue, WorkerAccounts DEF Inv
<1>3. CASE UNCHANGED vars
  BY <1>3 DEF vars, queue, slots, submit, locals, Inv, TypeOK, Unborn, IndexKnown, TasksInHand,
              MutexOwned, QueueShape, Apart, RunsBounded, Executed, SemaphoreAccounting, Active,
              QueueAccounting, Waiting
<1> QED BY <1>1, <1>2, <1>3 DEF Next, Terminated

(* The inductive invariant holds in every state.                           *)
THEOREM InvHolds == Spec => []Inv
BY InitInv, NextInv, PTL DEF Spec

(* Every variable keeps its type: curLEN stays within the queue, the       *)
(* semaphore within the pool, whatever the two sides do to worktodo.       *)
THEOREM TypeCorrect == Spec => []TypeOK
<1>1. Inv => TypeOK
  BY DEF Inv
<1> QED BY <1>1, InvHolds, PTL

(* threadpool.c: every unit that pool_submit() waited for is held by one   *)
(* worker or by the submission, so no more than NUMBER_OF_THREADS workers  *)
(* exist at a time.                                                        *)
THEOREM SemaphoreAccounted == Spec => []SemaphoreAccounting
<1>1. Inv => SemaphoreAccounting
  BY DEF Inv
<1> QED BY <1>1, InvHolds, PTL

(* The queue holds exactly one task for each worker that has yet to take   *)
(* one: none is lost between enqueue() and dequeue().                      *)
THEOREM QueueAccounted == Spec => []QueueAccounting
<1>1. Inv => QueueAccounting
  BY DEF Inv
<1> QED BY <1>1, InvHolds, PTL

(* enqueue() and dequeue() leave the tasks at the front of the array.      *)
THEOREM QueueStaysIntact == Spec => []QueueIntact
<1>1. ASSUME Inv PROVE QueueIntact
  <2> SUFFICES ASSUME mutex = NULL PROVE QueueIntact
    BY DEF QueueIntact
  <2>1. ~ Apart
    <3>1. \A w \in Workers : w # NULL
      BY PoolAssumption DEF Workers
    <3>2. NULL # Main
      BY PoolAssumption DEF Main
    <3> QED BY <1>1, <3>1, <3>2 DEF Apart, Inv, MutexOwned
  <2>2. curLEN + 0 = curLEN /\ DOMAIN task_queue = 0 .. QUEUE_SIZE - 1
    BY <1>1 DEF Inv, TypeOK
  <2> QED BY <1>1, <2>1, <2>2 DEF Inv, QueueShape, QueueIntact, One
<1> QED BY <1>1, InvHolds, PTL

(* The tests of enqueue() and dequeue() without the lock always succeed,   *)
(* what they saw holds until the lock is there, and execute() is given a   *)
(* task: for no number of submissions does the pool drop one or call a     *)
(* null function.                                                          *)
THEOREM UnlockedTestsSucceed == Spec => []UnlockedTestsHold
<1>1. ASSUME Inv PROVE UnlockedTestsHold
  BY <1>1, Lengths DEF Inv, UnlockedTestsHold, TasksInHand, WaitingPlaces
<1> QED BY <1>1, InvHolds, PTL

(* client.c and threadpool.c: the program dies in two ways only, both      *)
(* after the last submission: pool_shutdown() joins a slot that never had  *)
(* a thread, or a worker that read its index from a frame of sleep() or    *)
(* pool_shutdown() clears a slot outside of thread_working.  While main    *)
(* submits nothing crashes, and no worker ever calls a null function.      *)
CrashesAreKnown ==
  [][main' = "crashed" =>
       \/ main = "join" /\ threadpool[submitted] = NULL
       \/ /\ main \in {"asleep", "join"}
          /\ \E w \in Workers : worker[w] = "clear" /\ my_index[w] = Junk]_vars

THEOREM OnlyKnownCrashes == Spec => CrashesAreKnown
<1> DEFINE Known == \/ main = "join" /\ threadpool[submitted] = NULL
                    \/ /\ main \in {"asleep", "join"}
                       /\ \E w \in Workers : worker[w] = "clear" /\ my_index[w] = Junk
<1>1. ASSUME Inv, Next, main' = "crashed" PROVE Known \/ UNCHANGED vars
  <2>1. CASE MainStep
    BY <1>1, <2>1 DEF MainStep, MainGoes, AfterSubmission, SubmitWrite, SubmitPass, EnqueueCheck,
       EnqueueLock, EnqueueStore, EnqueueCount, SubmitWait, SubmitScan, SubmitCreate, Sleep, WakeUp,
       Join
  <2>2. ASSUME NEW w \in Workers, WorkerStep(w) PROVE Known
    <3>1. main # "crashed"
      BY <2>2 DEF WorkerStep, Goto, Ended, WorkerStart, DequeueCheck, DequeueLock, DequeueTake,
         DequeueShift, DequeueReturn, WorkerAssign, WorkerExecute, WorkerClear, WorkerPost
    <3> QED BY <1>1, <2>2, <3>1, NoCrash
  <2> QED BY <1>1, <2>1, <2>2 DEF Next, Terminated
<1>2. Inv /\ [Next]_vars => [main' = "crashed" => Known]_vars
  BY <1>1
<1> QED BY <1>2, InvHolds, PTL DEF Spec, CrashesAreKnown
=============================================================================
