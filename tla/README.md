# Operating-system projects: models, checks and proofs

The repository holds the programs of an operating-systems course: eight small
systems in C (and two Java programs), most with a `main()` of their own. Two of
them meet: the programs that the shell runs read and write the `/proc` file of
a kernel module, and `Osh` composes the two. The others share no state and
never call each other, so there is one TLA+ module per program; what is
composed there is the threads, the main thread and the shared data *inside* a
program. Programs that are variants of one another (five schedulers, three
sorts, four `/proc` modules) share a module.

`tlc -config X.cfg M` checks a run, `tlapm MProofs.tla` a proof module.
Paths below are relative to `src/`.

## 1. Inventory

| system | state it keeps | operations | who runs beside whom |
|---|---|---|---|
| producer/consumer (`project5/producer_consumer`) | `buffer`, `curSize`, `mutex`, `full`, `empty` | `insert_item`, `remove_item`, the loops of `producer` and `consumer`, the shutdown in `main` | any number of threads of both kinds, and a main thread that cancels them |
| thread pool (`project5/threadpool`) | `task_queue`, `curLEN`, `worktodo`, `threadpool`, `thread_working`, `mutex`, `semaphore`, and the stack variable `index` of `pool_submit` | `pool_submit`, `enqueue`, `dequeue`, `worker`, `execute`, `pool_shutdown` | the submitting thread and one new thread per task |
| banker (`project6`) | `available`, `maximum`, `allocation`, `need` | commands RQ, RL, `*`, exit | sequential |
| allocator (`project7`) | the linked list of blocks, `memory` | commands RQ (F, B, W), RL, C, STAT, X | sequential |
| virtual memory manager (`project8`) | `TLB`, `page_table`, `physical_memory`, `time`, statistics | one access per line of the input | sequential |
| schedulers (`project4`) | one list of tasks, per scheduler a selection rule | `add`, `schedule`, `insert`, `delete`, `run` | sequential |
| `project3/MSApp.c` | `array`, `sorted_array` | two sorting threads, a merging thread | three threads |
| `project3/FJSApp-*.java` | one array | recursive fork/join tasks | a pool of threads |
| shell (`project2/simple-shell.c`) | `args`, `args_`, `history`, `pipe_exist`, `pipe_pos`, `pipe_args`; the process table | read, fork, exec, redirect, pipe, wait, clear | shells, their children, a pipe, `/proc` |
| `/proc` modules (`project1`, `project2/pid.c`) | a static flag `completed`, `l_pid` | `proc_init`, `proc_exit`, `proc_read`, `proc_write` | every process that reads or writes the file |
| `project1/simple.c` | none | load, unload | - |

How the parts interact, what is hard about each, and what makes it correct:

- **Producer/consumer.** Threads meet only in two semaphores, one mutex and the
  array. Hard: all interleavings; full and empty buffer; a thread cancelled
  while it owns the mutex; a mutex destroyed while threads may still lock it.
  Correct: it is a FIFO buffer; the semaphores agree with `curSize`; the error
  branches are never taken; nobody stalls.
- **Thread pool.** Tasks travel from `pool_submit` to a worker through a queue
  with a lock *and* through one global without a lock; the slot number travels
  by the address of a local variable. Hard: everything that happens between a
  worker's creation and its first instruction, and between `dequeue`'s unlock
  and the call of the task. Correct: every task is executed once; bounded
  workers; a consistent queue; a submission that ends; a shutdown that ends.
- **Banker.** Hard: long sequences of commands; the greedy search must be
  independent of the order in which it picks. Correct: ledgers agree, no unit
  is lost, grants exactly what is safe.
- **Allocator.** Hard: nine cases of coalescing, splitting, ties between
  holes, a head pointer. Correct: blocks tile the memory, holes are joined,
  each strategy takes the hole it names, nobody's block is touched.
- **Virtual memory.** Hard: three tables that refer to each other, and frames
  that change hands. Correct: coherence, the byte of the backing store, LRU.
- **Schedulers.** Hard: a list that holds the latest task first and is searched
  for the earliest; ties; deletion by *name*; tasks put back after a quantum.
  Correct: every task gets its burst, dispatches are those of a ready queue
  under the policy, and the program ends.
- **Sorts.** Hard: two threads or many tasks in one array; a merging thread
  that nobody holds back until the halves are sorted; a quicksort split that is
  not where the pivot is. Correct: activities at work never meet in the array,
  and what is printed is the input in order.
- **Shell.** Hard: a failed `execvp` leaves a second shell at the same terminal;
  `wait(NULL)` takes whichever child ends first; a flag, a position and freed
  pointers survive from earlier lines; the reader of a pipe waits for its
  writer to end. Correct: every `wait` finds the child it is for, nobody's
  child is lost, and commands come to an end.
- **`/proc`.** Hard: one flag without a lock shared by all readers; a number
  written between a reader's test and its look-up; a module removed under an
  open file; a reader that stops before its 0. Correct: every reader comes to
  its end, and the flag is down when nobody reads, unless a reader gave up
  while it was set.

`PROJECT.json` lists every component, and the hazards with their lines.

## 2. Modules

| module | models | abstract specification |
|---|---|---|
| `ProducerConsumer` | `producer_consumer.c`, `buffer.h` | `BoundedBuffer`: a FIFO queue of bounded length |
| `ThreadPool` | `threadpool.c`, `client.c` | - |
| `Banker` | `banker.c` | `SafeBanker`: grants exactly what leaves a safe state, by definition of safe |
| `Allocator` | `allocator.c` | `MemoryRegions`: a set of regions, no list, no stored holes |
| `Vmm` | `vmm.c` | `LruMemory`: one sequence of pages in the order of their last use |
| `Scheduler` | `driver.c`, `list.c`, `CPU.c`, `schedule_*.c` | `ReadyQueue`: tasks in order of arrival, a dispatch takes the first of the best |
| `ParallelSort` | `MSApp.c`, both Java programs | - |
| `ProcFile` | `hello.c`, `jiffies.c`, `seconds.c`, `pid.c` | - |
| `Shell` | `simple-shell.c` | - |
| `Osh` | `Shell` with `ProcFile`: the programs that are run, and `insmod`/`rmmod` | - |
| `MC*` | the instances for TLC | |
| `ProducerConsumerProofs`, `ThreadPoolProofs`, `BankerProofs`, `AllocatorProofs`, `VmmProofs`, `SchedulerProofs`, `ParallelSortProofs`, `OshProofs` | theorems about the module of that name, for all values of its constants | |

Definitions marked `MUTANT` are deliberately wrong versions of the definition
below them. No specification uses them; with one of them in place of the right
definition the run named in `PROJECT.json` finds the property violated.

### ProducerConsumer

State is the code's, plus `reg` (the value of `curSize` a thread has loaded for
`curSize++` or `curSize--`), `pc`, the owner of the mutex, `live` (the mutex is
not destroyed) and the set of `cancelled` threads. A turn of `producer()` is
`WaitEmpty` (66, 68), `Lock`, `InsertItem`, `InsertCommit`, `Announce` (either
`printf`), `Unlock`, `PostFull`; `consumer()` is symmetrical. `InsertItem` is
the test of `curSize` with the store into the slot and the load for `curSize++`,
or with the return of -1; `InsertCommit` is the store of `curSize`. Two steps,
so that exclusion is something the mutex has to provide. `main()` is `WakeUp`, a
`Cancel` per thread, `DestroyMutex`, `Exit`. Cancellation is deferred: it takes
effect in `sleep`/`sem_wait` (`CancelledWaiting`) or in `printf`
(`CancelledPrinting`), where the thread dies as the owner of the mutex.
`pthread_mutex_destroy` fails while somebody owns the mutex, and a destroyed one
does not stop anybody. After the destruction the threads may run without a lock
until `main` returns. When a thread comes to lines 20-25 or 35-45 while another
is between its load and its store, the accesses overlap, which is undefined in
C: two producers may both pass the test and push `curSize` past the array.
`Race` is that step; it leads to `main = "undefined"`, where the model ends, and
nothing is claimed of what follows. A step of the model is thus never taken
while another call is half done, which is what makes it sound to have the test,
the store and the load in one. Exclusion is claimed while the mutex is there
(`live`), the accounting, the types, the order of items and that no call fails
for longer: until the first overlap.

### ThreadPool

One step per access to a variable that another thread writes. `index` is the
local variable of `pool_submit` whose address every worker gets; it keeps one
stack slot over the submissions. After the last one `client.c` calls `sleep()`
and `pool_shutdown()`, whose frames overwrite the slot: from the call of
`sleep()` on (`main` is `"asleep"` or `"join"`) a worker that starts may find
any slot's number there, or none (`FoundAtIndex`). A worker with an index
outside of the array either dies in its write or changes nothing that is
modelled; other memory that such a write may hit is left out. The last `Join`
includes the destruction of the mutex and the semaphore and the return of
`main`. A task is the number of its submission, since the function is always
`add`; a submission that finds the queue full is dropped, as the client ignores
the answer. `pthread_join` of a slot that never had a thread (a null `pthread_t`
in a zeroed array) is a crash.

### Banker

A command is a step, except that a turn of the safety loop is a step
(`Choose`), and so is its end (`Grant` or `Deny`). The arrays `new_available`,
`new_allocation`, `new_need` are operators of the request in hand. Commands
name an existing customer and amounts that are not negative; `atoi` would let
other ones through, and what the code does then is not modelled.

### Allocator

The list is a sequence of blocks with the stored fields `start`, `end` and
`size`, which the code updates separately. `Request`, `Release` and `Compact`
are a step each. The loops of `best_fit` and `worst_fit` (`Scan`, first-hole
rule included) and of `compact()` (`AfterTurn`) are functions defined by
recursion over the turns: the proofs take them apart a turn at a time. When
`compact()` frees the head of the list, `status` becomes `"dangling"` and the
model stops: the next command reads freed memory. Ids include -1 (what a number
too large for `int` reads as), which `release()` reports and then looks for all
the same.

### Vmm

A turn of the loop of `main()` is a step: `Hit`, `Miss` or `Fault`, with
`access_memory()` at its end. A frame's 256 bytes are represented by the page
they were read from: pages are read whole and never written. `Earliest` is the
search that both replacements make, ties and default included. Addresses are
integers of any sign; the mask is `% SIZE_OF_MEM`.

### Scheduler

`policy` says which of the five programs this is. A task is its number in order
of arrival; its name is the number of the first task with that name, so that a
file with equal names is just a pattern of numbers. `ReadLine` is a turn of the
loop of `driver.c` with `add()`, `Begin` the top of `while(1)`, `Scan` one turn
of the search (always moving for FCFS and RR, on `Shorter` or `Higher`
otherwise), `RunToEnd` and `RunQuantum` the two ends of a turn. `cur` and `trav`
are the two node pointers, as positions. `order` and `got` record what `run()`
printed. The list may hold a node twice or lose the wrong one when names are
equal: `delete()` compares names, and the model does as it does.
`EachGetsItsBurst` and `IsReadyQueue` are claimed for files of distinct names
(`DistinctNames`), which `schedule.txt` is; `Terminates` for all files.
`ShortestWaitsLeast` compares the result of SJF with all permutations.

### ParallelSort

An activity is a call that works on a range of the array: a fork-join task, a
sorting thread, a recursive `quicksort()`. `act` holds the activities begun so
far and their locals. For MSApp a step has at most one store, and a swap is two
(`Scan`, `Store`), because the merging thread can see it half done; a
comparison in `merge()` is two loads (`MergeRead`, `Compare`), and the element
taken is read again (`Take1`, `Take2`), as in the code. The Java tasks run
alone in their ranges (`NoOverlap` says so), so a pass of `selectionsort()` and
the copying at the end of `merge()` are single steps. `raced` is a history
variable: `merge()` has read from a half whose sorting thread was not done.
`Sorts` claims for every execution of MSApp that it ends, with both halves of
`array` sorted and nothing lost, so that a merge that comes too early disturbs
nobody; for an execution without such a read it claims that the printed
`sorted_array` is the input in order. With the race the output can be unsorted:
leave the condition out and TLC finds one in a few steps.

### ProcFile, Shell, Osh

`ProcFile` has `at`, the place of each process in its use of the file: `Test` is
the read of `completed`, `Reset` the branch that returns 0, `Completes` the
store of 1 with the return to the reader, which calls again. `pid_read` has the
look-up before it and returns 0 without a change of the flag if there is no
process; when `copy_to_user` fails it returns -1 with the flag set (lines
88-95), and the reader stops (`CopyFails`). Any reader may stop between two
calls, as `head` does (`Quit`). `given_up` is a history variable: since the flag
was last reset, a reader has stopped in one of these ways and seen or left it
set. `Unload` waits for calls in progress, as `remove_proc_entry` does.

`Shell` is the process table. A process at `"prompt"` is a shell - the first
one or a child whose `execvp` or `open` failed, with a copy of the variables of
`main()` as fields. `Command` is lines 81-156 up to `fork()`: `Parsed` puts the
words over what `args` held before, sets the sticky `pipe_exist` and `pipe_pos`,
and moves words to `pipe_args` with the loop's bound (`Moved`). The child's
steps are `Exec`, `Redirect`, `Pipe`, `PipeWait`, `ChildCrash`; the shell's
`Wait` and `Clear`. A slot that was freed and not set to `NULL` holds "freed"
and is freed again after the next line: the C library aborts the process or
does not notice, and the model takes either.

`Osh` gives the running programs something to do: `cat` opens the file by name
or finds it as its standard input, `echo` writes to it through a redirection,
`yes` fills a pipe that nobody reads (`Blocked`). `Machine` is `insmod`, `rmmod`
and the end of the process that `l_pid` names.

## 3. Runs

| run | instance | states | what it shows |
|---|---|---|---|
| `producer_consumer` | 2 producers, 2 consumers, 2 slots, items 1..2 | 39 994 | accounting, exclusion, no failed operation, no stall, progress, refinement of `BoundedBuffer` |
| `thread_pool` | 2 slots, queue of 4, 3 submissions | 118 279 | accounting of workers and queue, unlocked tests hold, termination |
| `thread_pool_work` | same | - | **violated**: all workers are done, a task ran twice and another never |
| `thread_pool_shutdown` | same | - | **violated**: a slot that never had a thread is joined |
| `banker` | 3 customers, 2 resources, two endowments, two matrices | 15 974 | ledgers, safety, printed order, conservation, refinement of `SafeBanker`, termination of the search |
| `allocator` | 6 units, ids -1..1, sizes 0..3 | 27 074 | tiling, coalescing, refinement of `MemoryRegions` |
| `allocator_best_fit` | same | - | **violated**: a fitting hole is not found |
| `allocator_compact` | same | - | **violated**: the head pointer dangles |
| `vmm` | 4 pages, 3 frames, 2 TLB entries, 7 accesses | 12 396 | coherence, right answers, refinement of `LruMemory` |
| `scheduler` | files of up to 3 lines, 4 bursts, 2 priorities, quantum 2 | 176 161 | bursts, least waiting of SJF, refinement of `ReadyQueue`, termination |
| `parallel_sort` | MSApp with 2 to 4 elements, the Java sorts with 7 | 271 588 | disjoint ranges, sorted output |
| `osh` | 4 processes, 3 lines of 10 kinds, 4 kernel modules | 188 701 | the process table, the flag, everything comes to an end |

Bounds and why they are enough:

- *producer_consumer*: two slots and two threads a kind is the smallest
  instance in which both semaphores block, slots are reused, and two threads
  compete for the last slot and the last item. Two values of items make an
  exchange of items visible. Nothing else is bounded: the state space is finite.
- *thread_pool*: the third submission has to wait for a slot used before, and
  two workers can be at any two points of `worker()` at once. The code has 3
  slots, 10 entries and 4 submissions; the queue is longer than the pool in
  both, which the assumption `PoolAssumption` states. Three submissions cannot
  fill a queue of four, so the first conjunct of `UnlockedTestsHold`, about a full
  queue, is checked by the theorem `UnlockedTestsSucceed` and not by this run.
  With four submissions and a queue of three, which could be filled, the run
  passes as well (1 346 532 states).
- *banker*: three customers give chains in which only one order works. One
  endowment is safe, one is not, as `README`'s `10 5 7 8` is not with
  `maximum.txt`; from that one everything is refused for ever, which is why
  `StaysSafe` has its second disjunct.
- *allocator*: six units hold holes of two sizes, or two of one size, between
  processes, and each of the nine cases of `release()`.
- *vmm*: `MaxTime` bounds the length of the input. Seven accesses fill three
  frames, evict twice and use TLB slots again. As long as the TLB is smaller
  than the memory, LRU alone keeps entries of an evicted page out of it, so
  that the run would not notice if lines 137-145 were missing; the proofs cover
  the other sizes.

- *scheduler*: every file of up to three lines with bursts below, equal to and
  well above the quantum, ties and preferences, and every pattern of equal
  names. Three tasks are needed for a tie that is neither at the head nor at the
  end of the list, and for two tasks waiting while a third is put back.
- *parallel_sort*: MSApp gets every array of up to four elements over three
  values, so that each half has two elements to exchange. With a threshold of 3
  (10 in the code) and seven elements (100) FJ-Merge has two levels of tasks and
  FJ-Quick, which splits off one element at a time, a chain of four; all
  orderings of a multiset with ties occur.
- *osh*: the line kinds are those of `project2/README` (a plain command, one in
  the background, both redirections, a pipe, `!!`, `exit`) with one that is not
  installed and pipes with too much output. Three lines are needed for a
  background child, a foreground command that it disturbs, and a line after
  them; four processes for two readers of the file beside two shells, or for a
  pipe beside a background child. The table can be full, and `fork()` fails then.

Fairness. `ProducerConsumer` assumes weak fairness of each thread's own steps,
that is, of the kernel's scheduler; not of `main`, which may sleep for as long
as the command line says, and not strong fairness of a thread, so `Progress` is
about the system: one thread may be overtaken for ever. `ThreadPool` assumes
weak fairness of the main thread and of each worker. `Banker` assumes that a
command that was read is carried out; the user may stop typing. `Scheduler` assumes
that the program goes on, `ParallelSort` that some thread that can run does (the
pool runs what was forked, in any order), and `Osh` that the kernel runs some
process that can run, not that anybody types a line or loads or unloads a
module. `CommandsEnd` therefore says that the system comes to rest, with
everything at its end or at a prompt, except what is `Held` by a shell at its
prompt or by a full pipe. The others state no liveness property.

Deadlock is checked in every run but `osh`, where everything may rightly stop:
all shells have exited, no line is left, or a pipe is full. A program that has
ended stutters in `Terminated` (`Finished` in `Vmm`).

## 4. Disagreements between code and comments

- `threadpool.c:16-17` calls a task "work that has to be completed by a thread
  in the pool". `dequeue()` returns the global `worktodo` after the unlock
  (94), and `worker()` writes it back before it calls it (102-104): two workers
  can execute the same task, and a task can be lost. `WorkIsCompleted` speaks of
  states in which all workers have run to their ends, so that only this fault
  breaks it.
- `threadpool.c:163` "shutdown the thread pool": if each worker is done before
  the next submission, slot 0 serves them all, and line 168 joins slots that
  never had a thread. `ShutsDown` is about that join alone.
- `allocator.c:71` "find the min suitable hole": the first hole becomes the
  candidate whatever its size, and a larger one never replaces it.
- `allocator.c:482` "Compact unused holes of memory into one single block":
  after the head of the list was freed (358), `memory` still points to it.

Seen while modelling, and not among the runs that expect a violation:

- `threadpool.c:146` gives every worker the address of the local `index` (101):
  one that starts late clears the slot of another, whose `threadpool` entry is
  then overwritten by the next submission. Nobody joins that thread, so `main`
  may return before its task was executed. One that starts while `client.c`
  sleeps may clear memory outside of `thread_working` and crash
  (`OnlyKnownCrashes` in section 5).
- `producer_consumer.c:162-166`: the mutex is destroyed and nobody is joined, so
  that calls may overlap until `main` returns (`Race`).
- `MSApp.c:162` prints "The sorted array is", but `merge()` may run before the
  sorting threads (152-159): see `raced`.
- `list.c:23` "delete the selected task from the list": with two tasks of one
  name the wrong one goes.
- `simple-shell.c:250` frees `args` and keeps the pointers, so a line shorter
  than the one before it frees the rest twice. Line 136 counts `args_` down
  while `i` counts up to it, so about half of the words behind a bar stay in
  `args`; a command such as `a | b c` leaves a null pointer for the `strcmp` of
  line 162. `pipe_exist` is never cleared. A child whose `execvp` fails becomes
  a shell, and the user has to type `exit` twice.
- A shell that waits may be woken by an earlier background child
  (`simple-shell.c:243`) and prompt while its command runs.
- A reader that stops before it has got its 0, or to whom `copy_to_user` failed
  (`pid.c:91-95`), leaves `completed` at 1, and the next reader gets nothing.
  `hello.c:67` asks for "logic that ensures it ultimately returns 0", and no more;
  `FlagReset` shows that this is the only way.
- `seconds.c:39-40` creates the entry before it sets `fl_jiffies`.
- `CPU.c:2` "also maintains track of system time": it does not.

## 5. Proofs

Every theorem holds for all values of the constants that satisfy the assumption
named in its module: `BufferAssumption` and `ThreadsAssumption` (finitely many
threads, positive sizes), `PoolAssumption` (the queue is longer than the pool,
as 10 is than 3), `BankerAssumption`, `AllocatorAssumption`, `SizesAssumption`,
`SchedulerAssumption`, `SortAssumption` (there is something to sort) and
`OshAssumption` (finitely many processes, at least one slot for words). TLC
evaluates each of them in the runs.

| module | theorems |
|---|---|
| `ProducerConsumerProofs` | `TypeCorrect`, `SlotsAccountedFor`, `MutexExcludes`, `OperationsSucceed`, `NeverStalls`, `ImplementsBoundedBuffer` |
| `ThreadPoolProofs` | `TypeCorrect`, `SemaphoreAccounted`, `QueueAccounted`, `QueueStaysIntact`, `UnlockedTestsSucceed`, `OnlyKnownCrashes` |
| `BankerProofs` | `TypeCorrect`, `LedgerHolds`, `SafetyIsKept`, `PrintedOrderIsRight`, `ResourcesAreKept`, `ImplementsSafeBanker` |
| `AllocatorProofs` | `TypeCorrect`, `MemoryIsTiled`, `HolesAreJoined`, `ImplementsMemoryRegions` |
| `VmmProofs` | `TypeCorrect`, `TlbIsCoherent`, `PageTableIsCoherent`, `ReadsAreCorrect`, `ImplementsLru` |
| `SchedulerProofs` | `TypeCorrect`, `EachTaskServed`, `ImplementsReadyQueue`, `RunsShortestFirst`, `SjfWaitsLeast` |
| `ParallelSortProofs` | `TypeCorrect`, `RangesStayApart` |
| `OshProofs` | `TableHolds`, `FlagIsReset` |

**ProducerConsumerProofs.** `Inv` has a conjunct per idea. Exclusion needs to
know that the owner is inside and that nobody else is (`Exclusive`); it ends
with the mutex, and what outlives it is `OneCommits`: at most one thread is
between its load and its store, since a second one would race. That
`insert_item` cannot fail does not follow from exclusion: it needs
`SlotAccounting`, which counts the threads that hold a unit of a semaphore they
have not yet turned into a change of `curSize`, or have changed `curSize` and
not yet posted; and the accounting of the commit steps needs `Loaded`: what a
thread has loaded is still the value of `curSize`, which is what the mutex is
for, and `OneCommits` after it. Lemmas about the sizes of such sets (one thread
enters, one leaves) are proved once. `NeverStalls` adds that nobody is cancelled
while `main` sleeps: if all threads were blocked, both semaphores would be 0 and
no slot accounted for. `ImplementsBoundedBuffer` maps every step to a step of
`BoundedBuffer` or to a stutter, with the queue being the first `curSize` slots.

**ThreadPoolProofs.** The semaphore bounds the workers, and each worker that
has not yet taken its task accounts for one entry of the queue; together they
say why the tests made without the lock (`curLEN` in `enqueue` and `dequeue`,
the free slot in `pool_submit`) cannot fail. `QueueShape` says by which entry
array and length disagree inside the critical sections, `TasksInHand` that the
raced `worktodo` never holds `NULL` once the first task was submitted, and
`IndexKnown` why what a worker reads through the pointer to `index` is some slot
until `client.c` calls `sleep()`. `OnlyKnownCrashes` follows: the program crashes
after the last submission at most, by joining a slot that never had a thread or
by clearing a slot outside of the array, and never by the call of a null
function.

**BankerProofs.** The inductive invariant states safety by a certificate: an
order of the customers, and the vector available before each of them (`Chain`).
The search builds the certificate (`Searching`, lemma `Extend`); a grant makes
it that of the state; a release of `r` by customer `c` adds `r` to the vectors
up to `c`'s turn, where `c` needs that much more and afterwards returns that
much less (lemma `GiveBack`). The definition of a safe state in `SafeBanker`
knows no vectors, only sums of what the customers before one hold
(`WorksAreSums`, `SafeIsSafe`), and so do `StaysSafe` and `PrintedOrderWorks`;
what a sum over a finite set is - the sum of the rest and any one element of it
(`SumStep`) - is proved from the library's recursion. `ImplementsSafeBanker`
needs both directions: an order found shows that the state is safe
(`CertifiedIsSafe`), and a search that is stuck shows that it is not
(`StuckIsUnsafe`): in a safe order, the first customer not yet chosen could
have been chosen, as all before it have returned what they hold. That is why it
does not matter which customer a turn of the loop picks. `ResourcesAreKept` is
the ledger of each resource: a command changes available and one customer's
allocation by the same amount.

**AllocatorProofs.** Types, `Tiling` and `Coalesced` are one statement about the
list, `Tiles`, and it is inductive. A request and a release replace one, two or
three blocks by others, and only the neighbours of these are argued about
(`JoinedProperties`, `FreedTiles`, `DividedTiles`). `compact()` passes over the
list; its loop invariant relates the place of the next process to that in the
old list, which is further up by the holes passed so far (`TurnKeeps`). It is a
recursive function, and that there is such a function is itself proved
(`TurnByTurn`, see below). `ImplementsMemoryRegions` maps the list to the set of
regions. As the blocks cover the memory and are apart, the holes of the list
are exactly the longest free runs of addresses (`HoleIsHole`, `HoleIsBlock`;
without `Coalesced` they would not be). The scans keep the best hole passed so
far (`BestYet`), so what they take is what the strategy promises; `best_fit` may
end at a hole that is too small and refuse, which is the abstract `Refuse`. A
process moves down by the number of free addresses below it, since the end of
the compacted list is the number of addresses taken so far (`Sliding`).

**VmmProofs.** The conjunction of types, both coherence properties and the
last answer is inductive. The TLB can be trusted because `page_replacement()`
clears the TLB entries *and* the page table entries of the frame it gives away.
For `ImplementsLru` the frames in use have one order by their last use
(`RecentPrefix`, `OrderIs`), and an access moves one of them to its front on
both sides (`RecentMoves`, `OrderAfter`): the page found, a frame never used, or
the last one, which is what `Earliest` finds in a full memory (`VictimFrame`).
The TLB has times of its own, so `LruInv` says that an entry has the time of its
frame (`Stamped`) and that the TLB has the pages of the first `SIZE_OF_TLB`
frames of the order (`TopInTlb`). By counting, the TLB is full when there are
that many (`FullTlb`, `RoomInTlb`), and what it drops then is the last of these
(`UsedVictim`). With a TLB at least as large as the memory the entry flushed by
`page_replacement()` is the one that is used again (`FaultReads`).

**SchedulerProofs.** If names differ, the node that `delete()` finds is the one
that was chosen, so no task is in the list twice and each has got what it does
not need any more. The search keeps the best node passed so far and, of equal
ones, the one nearest to the end of the list (`BestSoFar`); read from its end
the list is the queue of `ReadyQueue`, and a turn of the program is a dispatch
of it (`ImplementsReadyQueue`). `RunsShortestFirst` says for SJF that every task
was printed before the longer ones that were waiting with it. From it follows
`SjfWaitsLeast` by counting units of waiting instead of adding up: of two tasks
one waits for the other in any order, and each unit of that wait under SJF is
matched with one in the other order, of the same task or of the longer one
(`LeastWait`).

**ParallelSortProofs.** `NoOverlap` speaks of the activities at work and does
not say why those that wait will find nobody in their ranges when they go on.
`Nest` does: of two ranges one is in the other or they are apart, and in the
range of an activity there is, at each place of its code, only what it has
forked or called. This needs the indices (`Local`): the pivot's place is in the
range, and `merge()` has written as many elements as it has passed.

**OshProofs.** `ProcessTable` needs that a parent exists when its child forks,
and that a child that has not reached `execvp()` has no children (`Table`).
Every step does one of four things to the families - nothing, a birth, a
`wait`, an end - and the count of children is argued about once for each.
`FlagReset` follows from `FlagHeld`, which names the process that will reset
the flag unless one has given up, and from the fact that no step of another
process changes what makes that process a reader (`Keeps`).

Induction. The library's theorems of induction take an operator as a parameter,
which no prover here can instantiate. Where an induction is needed, the proofs
take the least counterexample: a non-empty set of numbers has a smallest
element (`WFMin` of `WellFoundedInduction`; lemma `LeastOf` or `Smallest`), a
set of finite sets has a smallest one (`MinimalSubset` in `BankerProofs`), and
the step leads from there to a smaller one.

What the proofs changed in the models: `Test` of `ProcFile` was a `CASE` with
two guards that can both be true, and its meaning then is not fixed; it is an
`IF` in the order of the code now. `ParallelSort` allowed an array without
elements, which no program sorts. Some definitions that say what is right were
written differently, with the same meaning, in terms that the proofs can take
apart: the sums of `Banker` and `SafeBanker` are sums of a function, the
sequence of `RecencyOrder` is chosen by its property instead of sorted, and
`TotalWait` is the number of units of time waited for instead of a weighted sum.

Only model-checked: liveness (`Progress`, `Terminates`, `Answers`, `Sorts`,
`CommandsEnd`), which is out of the prover's reach. Every invariant and every
refinement that a run checks is a theorem.

## 6. Plan

Done: a module for every program that has a state, a proof module for each of
them, and a theorem for each safety property. Left, in this order:

1. The safety half of `Sorts`: when the sorts end, what they leave is in order
   and a permutation of the input, for every array.
2. The same for `MSApp` without a race (`raced`): the merged output is sorted.

## 7. Not modelled

- Text: command parsing, `printf` formats, `STAT`, `*`, the comparison of
  `output.txt` with `correct.txt`, division by zero on an empty input file.
- End of file on standard input, where several programs repeat their last
  command for ever, since `fgets`'s answer is ignored.
- Failing `malloc`, `fopen`, `pthread_create`.
- The shell: words that overrun the 20 bytes they are given, a bar inside a
  word, lines of more words than `args` has slots, and the operands of the
  second command of a pipe. The component is therefore "partly" modelled.
- The texts that the `/proc` modules print, with `r_jiffies` and `fl_jiffies`.
- `MSApp` with a size below 2, for which the program asks not to be used.
- `project1/simple.c`: it prints and has no state.
