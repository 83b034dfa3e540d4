# Formal models of NTUSP

The repository holds four system-programming homeworks, each a program of its own, and a
scratch directory. This directory holds TLA+ models of the four programs, their TLC runs, and
TLAPS proofs about each of them.

| Program | What it is | Modules |
|---|---|---|
| `sp2024-hw1` | a read server and a write server for train seats, `select()` loops over shared files | `TrainServer`, `SeatBooking`, `TrainServerProofs` |
| `sp2024-hw2` | a tree of processes that pass commands and answers over pipes | `FriendTree`, `Family`, `FriendTreeProofs`, `FriendFamilyProofs` |
| `sp2024-hw3` | user-level threads: `setjmp`/`longjmp`, signals, a read-write lock | `Scheduler`, `Dispatcher`, `SchedulerProofs`, `SchedulerDispatchProofs`, `SchedulerCountProofs` |
| `sp2024-hw4` | a thread pool that multiplies matrices | `TPool`, `JobPool`, `TPoolProofs`, `TPoolJobProofs` |

Each `MC` module only gives constants their values for TLC.

## Inventory

### HW4: thread pool (`tpool.c`, `main.c`)

*State.* A ring of 100 work pointers (`work_queue`, `front`, `rear`, `queue_size`), the
counters `total_works` and `completed`, the flag `terminate`, one mutex and one condition
variable for workers and main alike.
*Operations.* `tpool_request` cuts a product of n x n cells into works and queues them with
one signal each; a worker waits, takes a work, writes its cells outside the lock, counts it,
and signals if it was the last; `tpool_synchronize` waits until the queue is empty;
`tpool_destroy` raises `terminate`, broadcasts and joins.
*Hard.* Wakeups shared by two kinds of waiters, spurious wakeups, the ring at its limit, main
printing and freeing while workers compute.
*Correct if* no wakeup or work is lost, each cell is written once, main prints only what has
been calculated, and both waits of main end.

### HW3: user-level threads (`scheduler.c`, `thread_tool.h`, `routine.c`, `main.c`)

*State.* `current_thread`, `ready_queue`, `waiting_queue`, `sleeping_set`, the lock's
`read_count` and `write_count`, and a control block for each thread.
*Operations.* The scheduler pass (age the sleepers, let waiters go on, requeue, choose,
`longjmp`); `thread_yield`, in which SIGTSTP or SIGALRM takes the thread to the scheduler;
`thread_sleep`, `thread_awake`, `thread_exit`; the four lock macros; the routines `idle`,
`fibonacci`, `pm` and `enroll`.
*Hard.* Threads resume in stack frames that have been returned from; a waiter resumes behind
the test it failed; a friend's wakeup races the sleeper's own; queues that wrap.
*Correct if* every thread is in one place, the lock's counts are given back, what a routine
computes survives preemption, and the scheduler returns when all have exited, and only then.

### HW1: seat booking (`server.c`, built twice)

*State.* For each connection a `request` (status, line) and a `record` (train, chosen and paid
seats); the global `conn_fd`; for each train a file of 40 seats, 0 available, 1 booked,
2 locked, which all processes share under `fcntl` locks.
*Operations.* Accept, expire, and one handler for each status: select a shift, choose, cancel
or pay seats, go on after paying. The read server shows a train's file.
*Hard.* The lock covers single reads and writes, not a handler; clients leave or servers die
holding seats; one client's line is read where another's is meant; a lock that is kept.
*Correct if* a seat has one owner, a booked seat stays booked, files do not contradict records,
what a reader is shown stays true, seats come back from clients that leave, and a client affects
neither other clients nor the server's life.

### HW2: process tree (`friend.c`, `hw2.h`, `utility.c`)

*State.* Each process keeps a list of children with a pipe to and a pipe from each, and a
buffer for an answer.
*Operations.* `Meet parent child` is passed down depth first until the parent is found, which
forks the child; an answer, a name or `-`, comes back up.
*Hard.* Answers have no delimiter, and a process passes on one answer for each child it asks
and may add one of its own, while its parent takes a single `read()`: what is left is taken for
the answer to a later command, and a parent is ahead of its children.
*Correct if* no process waits for an answer that never comes, commands are carried out in the
order given, an answer names somebody who exists, and all come to rest.

### The rest

`checker.py` and the test cases are the harness of HW1; they were read for what they expect.
`testSpace` is scratch.

## The modules

### `JobPool`, `TPool`, `MCTPool`

`TPool` has the fields of `tpool_t` under their names. A critical section contains no blocking
call but `pthread_cond_wait`, so each one, or the part up to the wait, is an action and the
mutex needs no variable. `waiters` is the set of threads inside `pthread_cond_wait`:
`pthread_cond_signal` removes any one of them (`Signalled`), the broadcast all, and
`SpuriousWakeup` any one at any time. `mpc`, `req`, `i`, `start` are main's position and loop
variables, `wpc`, `work`, `pos` those of each worker; a worker writes one cell an action, so
that main's printing and freeing fall between any two. `calculated` and `stale` record which
cells are written and which main printed too early. A worker that writes to a freed matrix
goes on or faults (`Compute`, `Fault`): the program's behaviour is undefined there.

| Code | Action |
|---|---|
| `tpool_init` | `Init` |
| `tpool_request` | `Request`, `Enqueue` for each work, `RequestReturn` |
| `tpool_synchronize` | `SyncWait`, `SyncReturn` |
| `main` after it | `PrintCell`, `FreeMatrices` |
| `tpool_destroy` | `Destroy`, `Join` |
| `worker_thread` | `WorkerWait`, `WorkerExit`, `Dequeue`, `Compute`, `Complete` |

`JobPool` is the promise: a job is submitted once, the jobs are handed out in that order, each
to one worker, and a worker finishes one before it takes another. `TPool!Jobs` maps the ring to
its sequence and the works to the even cuts of the products.

After the ring has overflowed (`QueueFits` false) the model still steps as the code does, but
nothing is claimed of how closely; `FittingSpec` describes callers that never overflow it.

### `Dispatcher`, `Scheduler`, `MCScheduler`

Signals are blocked except inside `thread_yield`, so what a thread does up to its next yield,
wait or exit is one action and a pass of the scheduler another. `tcb[t].pc` is where `env`
resumes. `elapsed` counts the seconds slept since `alarm(time_slice)`: at `time_slice`
SIGALRM is pending and the yield enters the scheduler; before that SIGTSTP may be, at the
user's pleasure. The scheduler ignores and restores the signals, which discards pending ones,
so a pass starts the slice anew. The ready queue is a sequence, exact while there are fewer
than `THREAD_MAX` threads (`ThreadAssumption`): `OnePlaceEach` bounds what stands in it by their
number. The waiting queue keeps its array, `head` and `size`, because the scheduler reads it
from `head` while `i < size`; `Visible` are those indices. `frame` is whose `pp` and `ps` lie in
the stack slots that every `enroll` uses: `ReleaseRead` writes them, `AcquireWrite` and
`ResumeWrite` read them, and `thread_yield` called from a counting routine may clear them, a
choice in `Count` because it depends on the build. The Makefile builds without optimisation.

| Code | Action |
|---|---|
| `spawn_thread`, `thread_setup` | `Init` |
| `scheduler` | `Schedule`: `Woken`, `Granted`, `Requeued`, `Choose` |
| `idle` | `IdleRun` |
| `fibonacci`, `pm` | `Count`, one turn of the loop |
| `enroll` | `GoToSleep`; `AcquireRead`, or `WaitRead` then `ResumeRead`; `ReleaseRead`; `AcquireWrite`, or `WaitWrite` then `ResumeWrite`; `ReleaseWrite` |

The messages, the exact values of unset control-block fields and integer overflow are left
out.

`Dispatcher` is the promise: one thread has the processor, the ready ones get it in the order in
which they became ready, whoever is woken or let go on comes behind them, and nobody who is
blocked or has exited runs; the scheduler returns when all have exited. It leaves open in what
order those come that one pass makes ready. The mapping takes the sleepers and what stands in
the waiting queue from `head` to `size` for the blocked ones (`Blocked`), and nobody for the
idle thread (`Runner`).

### `SeatBooking`, `TrainServer`, `MCTrainServer`

A server process is built as read server (`Reader`) or as write server, and the constants say
which connection slots are whose. A server handles one line at a time, so with one process a
handler could be one action; other processes, or a kill, come between its locked accesses to a
file, so a handler is one action for each access. `handler[s]` says which access is next;
`Select` means the server is in `select()`. `shown[c]` is what a read server told a client last.

| Code (`server.c`) | Actions |
|---|---|
| 280-293, 314-351 | `Accept`, `Expire`, `Exit` |
| 136-170 | `IncompleteLine` |
| 362-380 | `ReadTrain` |
| 382-421 | `ShiftFull`, `ShiftFree` then `ShiftSelected` or `ShiftUnanswered`, `ShiftCrash`, `InvalidShift` |
| 446-487 | `PayNothing`, `Pay`, `PaySeat` for each seat, `PayReturn` |
| 490-551 | `Choose` then `LockSeat`; `Taken` then `SayBooked`, or `NotBooked` then `SayLocked` or `Neither`; `InvalidSeat`, `NegativeSeat` |
| 552-576 | `Cancel` then `FreeSeat`, `InvalidSeatExit` |
| 425-445 | `ChooseMore`, `InvalidBooked` |
| 48-69 | `MayWrite`, `Unlock`, `Deadlock` |
| the process | `Kill`, `Start` |

`request[c].buf` keeps a shift or `None` for any other line, which is all that line 395 can
tell apart: `atoi` of anything else is an index far outside `trains`. `InvalidSeatExit` is
what the unoptimised build does with a word when one seat is chosen: `seat_stat[-1]` is
`num_of_chosen_seats`. For seat -1 `checkCurr` cannot seek and returns with the file locked
(`NegativeSeat`); the process keeps that lock (`kept`) until its next `unlock_file` on the
train, a writer of another process waits for it (`MayWrite`), and processes that wait for each
other in a ring get `EDEADLK`, on which one exits (`Deadlock`). A piece of a line without its
end makes `handle_read` copy by a length computed from NULL, and the process dies
(`IncompleteLine`). Numbers past the last seat or below -1, which index outside the record,
failing reads of local files and the prompts are left out. Time is not modelled: a connection
may expire whenever the server is in `select()`.

`SeatBooking` is the promise: a seat is free, reserved by one client, or sold; only the holder
gives it back or buys it, what is sold stays sold, and a client that leaves gives back all he has
reserved. That is what `testcase4/1-cancel-2.out` expects, and the code does not do it: when a client
exits, expires or is disconnected its record is freed, and the file stays as it is. So
`ImplementsSeatBooking` excepts the steps in which a client leaves with seats chosen and not paid
(`Tidy` is false of them), and claims all others, those after such a step included. A server that
dies may leave reservations behind, which then stay locked, held by `Left`: the files are all that
outlives a process, and nothing in the repository asks a server to tidy them when it starts.
`Booking` computes the holder of a seat from the files, the records and the handler that is about
to free a seat it has already taken out of its record (`Cancels`); an office is open while its
process runs.

### `Family`, `FriendTree`, `MCFriendTree`

A process is a number, in the order of the forks; `pList[p]` are its children. Between two reads
of a pipe it acts on its own, so an action lasts from one read or print to the next. `stdin[p]`
holds the commands in the pipe to it, as indices of `input`; `stdout[p]` the bytes in the pipe
from it. A `read()` takes up to `MAX_FRIEND_NAME_LEN` of the bytes there are (`Taken`), whichever
answers they belong to, and writes them over the buffer, where the end of a longer answer stays
behind a shorter one (`Over`), because `middle` is cleared once for a command and not once for a
child. `made` remembers which command made a process and changes nothing.

| Code (`friend.c`) | Action |
|---|---|
| 167-195 | `Start` |
| 275-348 | `Meet` |
| 231-235 | `PassDown` |
| 235-238 | `Ask` |
| 239-260 | `Listen` |
| 261-273 | `Fail` |

Names are sequences of bytes and so are answers: a read can take a name in part, or with pieces
of others, and what is then in the buffer need not be anybody's name. A name is
shorter than the buffer (`NameAssumption`), as `hw2.h` declares the `name` of a friend. A buffer
that is full is taken to end there: the program, in which nothing then terminates it, would go on
with the bytes that lie behind. The value of a friend (`child_07`) is left out, and so is what
`Not_Tako` prints, but for the name of the friend through whom he has met somebody, which is his
`middle`.

`Family` is the promise: a command is carried out at most once, by a friend of the name it gives
who was there before, and every friend carries out commands in their order. It does not promise
that a command is carried out if there is such a friend (`friends_unknown`). Friends are known
by the command that made them, 0 being Not_Tako; `MetBy` maps the children of a process to the
commands that made them.

The promise is kept where no name is asked for once it may have been given twice
(`AsksForOne`), as in all test files whose only command is Meet. Elsewhere it can fail, with
five commands at least: after `T A`, `T C`, `A B`, `A C` there is a C below T and a C below A,
and the last command `C A` may reach both. T asks A first; A asks B, passes the `-` that B
answers on to T at once (`friend.c:242`), and only then asks its own C. T takes that `-` for A's
answer and asks the other C. Both meet an A.

## The runs

Passing runs, with their bounds:

| Run | Instance | Shows |
|---|---|---|
| `pool_safety` | 3 workers, 2 products of 2x2 cut in 2 and 3, 3 slots, never overfilled | type, wakeups, counting, races, `JobPool` |
| `pool_live` | 2 workers, 1 product in 5 works (one is empty), 5 slots, fair threads | works are executed, `tpool_destroy` returns |
| `threads` | 3 enrolls, each with `s` 0 or 5 and any friend, or any 3 of two enrolls, `fibonacci 4` and `pm 3`; slice 2 | places, lock counts, grants, idling, returning, counting, `Dispatcher`; all terminates |
| `one_server` | a write server with 2 clients, a read server with one, 1 train of 2 seats, kills and restarts | exclusive seats, files that do not contradict records, what is shown as booked, `SeatBooking` |
| `two_servers` | 2 write servers with a client each, 2 trains of 1 seat, kills and restarts | records count their seats; handlers return, or wait for a kept lock |
| `friends` | Not_Tako meets A, then 3 or 4 commands about 4 names of 1 and 2 bytes: 2048 inputs; a buffer of 3 | nobody waits in vain, commands stay in order, `Family`, all come to rest |

Why these bounds are enough to mean something.

- *Pool.* Three workers let a wakeup be sent to one, its work be taken by a second, and a third
  still sleep. Cuts of 4 cells in 2 and 3 have remainders 0 and 1; five works in three slots
  make the indices wrap and every slot but one be used again. In `pool_safety` the caller never
  overfills the ring (`FittingSpec`); everything but `ImplementsJobPool`, `NoWriteRace` and
  `AllCalculated` is proved without that restriction.
- *Threads.* A sleep of 5 with a slice of 2 outlasts the two other threads' start, so the idle
  thread runs and sleepers return while another thread writes; with shorter sleeps the threads
  run in lockstep and no reader ever waits. With `THREAD_MAX` 7 the waiting queue of three
  enrolls, at most six entries, does not wrap; `waiting_wrap` is where it does.
- *Servers.* Two clients of one server are what line 395 confuses, and who could take each other's
  seats; two seats make `pay` a loop. `one_server` has one train: what a handler does to one
  file it does to none other, and the theorems, which hold of any trains, cover the confusion of
  two. `two_servers` has two trains so that two processes can each keep one file and wait for the
  other (`Deadlock`).
- *Friends.* `Families`, any three commands after the first, build every tree of up to four friends
  below the root, ask two children in turn, leave answers over and merge them. With four commands
  no two friends of one name carry one out, whether the commands ask for one or not; it takes five.
  `Generations` are five of that kind: were `AsksForOne` left out of
  `ImplementsFamily`, TLC would find it violated there. In `Brothers` A meets B and C and passes the
  answers of both on, four bytes where the buffer has three, and a read takes the end of one answer
  and the beginning of the next. There is always a process left that has not been forked. The
  theorems hold for any commands, names and buffer.

Spurious wakeups, signals, kills and restarts are not bounded. `CHECK_DEADLOCK FALSE` stands in
the pool, thread and friend runs only: these programs end, or wait for input.

The violations are disagreements between the code and what the repository says of it:

| Run | Property | Disagreement |
|---|---|---|
| `pool_stale_print` | `PrintsCalculated` | main prints before the last works are done (`tpool.c:101`) |
| `pool_sync_hangs` | `SynchronizeReturns` | the last signal wakes a worker, main sleeps on (`tpool.c:33`) |
| `enroll_stack` | `EnrollsByOwnPreference` | `pp`, `ps` are another thread's (`routine.c:97`) |
| `waiting_wrap` | `ReturnsWhenAllExited` | a wrapped waiting queue is not seen (`scheduler.c:66`) |
| `shift_crash` | `NoLineEndsServer` | the train is looked up by another client's line (`server.c:395`) |
| `friends_unknown` | `SaysTheTruth` | a left-over answer makes a friend unknown (`friend.c:239`) |

`enroll_stack` and `shift_crash` were also seen on the built programs. `NoLineEndsServer` and
`SaysTheTruth` are false for a second reason each, which takes a longer behaviour: `InvalidSeatExit`,
and the names that are in the list below.

The models contain further disagreements that have no run of their own:

- `tpool_request` writes into a full ring (`tpool.c:89`); `testcase/4.in` has 114 works for 100
  slots. `TypeOK` does not bound `queue_size` for this reason.
- Waiters that the scheduler lets go on hold the lock without counting (`scheduler.c:68`, against
  the counts of `thread_tool.h:46`): a writer may write while they read. What the runs and proofs
  show of the lock is therefore weaker than exclusion: the counts never outlive their holders,
  so nobody waits for a count that no one will give back.
- `q_p` and `q_s`, "the remaining spots in classes", limit nobody (`routine.c:103`): in the
  model they are constants.
- `waiting_for` is never reset (`thread_tool.h:126`).
- A client that leaves, or whose server dies, leaves the seats it has chosen locked for good
  (`server.c:345`). In `testcase4/1-cancel.in` a client exits with seats 37 and 40 chosen, and
  `1-cancel-2.out` expects the other one to choose them.
- Chosen seats are written to the train file (`server.c:511`), where `testcase3/1-cancel-file.out`
  and `testcase4/1-cancel-file.out` expect none. `FileBacksRecords` says only that file and records
  do not contradict each other.
- The file lock covers a reading or a write, not a handler: of two write servers each can choose the
  same seat between the other's `Choose` and `LockSeat` (`server.c:498`). Properties "of one write
  server" are false of two, `SeatHeldByOne` with one seat and a client each; those of `two_servers`
  are what is left.
- A word instead of a seat number ends the server when one seat is chosen (`InvalidSeatExit`,
  `server.c:111`), where `testcase2-2/4-cancel.out` expects an answer. This, too, was seen on the
  built program.
- Bytes of a longer answer stay in `middle` behind a shorter one (`friend.c:234`), and Not_Tako then
  prints a name that nobody has, like `C-`: after `T A`, `A B`, `C A`, `T C`, `C A`.
- If the client accepted last has selected a shift, `ShiftFree` puts that train into the record
  of any other client (`server.c:395`), with `shift_id` and `train_fd` different, and `ReadTrain`
  shows it to any other client (`server.c:365`).
- A train read as free and then as full leaves its client without an answer
  (`ShiftUnanswered`, `server.c:414`).
- The answer that Not_Tako takes for a command may be to an earlier one: even where it is a name
  it need not be that of the friend asked.

## Fairness

- `TPool!FairSpec`: weak fairness of main and of each worker. No section under the lock blocks
  but in `pthread_cond_wait`, so every thread that wants the mutex gets it. A wakeup nobody
  sent has no fairness: nothing may depend on it.
- `Scheduler!FairSpec`: weak fairness of the whole; one thread of control keeps running. SIGTSTP
  is never owed.
- `TrainServer!FairSpec`: weak fairness of the handler a server is in. Clients owe nothing, and
  neither does whoever keeps a lock: `HandlersReturn` excepts a server that waits for a lock
  another one keeps, and no other.
- `FriendTree!FairSpec`: weak fairness of each process, which the operating system keeps running.

## The proofs

All theorems are about `Spec`, or what is named instead, for every value of the constants that
the modules' assumptions allow; a further assumption is in the table.

| Module | Theorem | Property | Further assumption |
|---|---|---|---|
| `TPoolProofs` | `TypeCorrect` | `TypeOK` | |
| | `WakeupsSuffice` | `NoLostWakeup` | |
| | `NothingStranded` | `NoStrandedWork` | |
| | `LastWorkIsLast` | `LastMeansIdle` | |
| | `NothingDropped` | `AllCalculated` | `FittingSpec` |
| `TPoolJobProofs` | `NoTwoWriters` | `NoWriteRace` | `FittingSpec` |
| | `Implements` | `ImplementsJobPool` | `FittingSpec` |
| `SchedulerProofs` | `TypeCorrect` | `TypeOK` | |
| | `CountsGivenBack` | `CountsHaveHolders` | |
| | `IdlesForSleepers` | `IdleOnlyWhileOthersSleep` | |
| | `NobodyLost` | `OnePlaceEach` | `Roomy` |
| | `GrantsTakeHead` | `GrantsFromHead` | `Roomy` |
| | `ReturnsLast` | `ReturnsWhenAllExited` | `Roomy` |
| `SchedulerDispatchProofs` | `TurnsInOrder` | `ImplementsDispatcher` | `Roomy` |
| `SchedulerCountProofs` | `NumbersRight` | `CountsRight` | |
| `TrainServerProofs` | `TypeCorrect` | `TypeOK` | |
| | `RecordsCount` | `CountsChosen` | |
| | `OneHolder` | `SeatHeldByOne` | `OneWriter` |
| | `RecordsBacked` | `FileBacksRecords` | `OneWriter` |
| | `BookedForGood` | `BookedStaysBooked` | `OneWriter` |
| | `ShownForGood` | `ShownStaysBooked` | `OneWriter` |
| | `Implements` | `ImplementsSeatBooking` | `OneWriter` |
| `FriendTreeProofs` | `TypesKept` | `TypeOK` | |
| | `ReadsGetAnswers` | `ReadsAreOwed` | |
| | `CommandsStayInOrder` | `CommandsInOrder` | |
| `FriendFamilyProofs` | `FamilyGrows` | `ImplementsFamily` | |

`FittingSpec` is `Spec` restricted to callers that never overfill the ring. `Roomy` says that
twice the number of threads is below `THREAD_MAX`: a thread enters the waiting queue at most
twice, so the queue cannot wrap. It holds in the run `threads` and fails in `waiting_wrap`,
which shows that it is needed. `OneWriter` says that at most one server is a write server; read
servers, clients, trains and seats are unlimited. With two write servers these properties fail.

### The thread pool

1. *Types* (`TypeInv`). `TypeOK` is not inductive: a worker starts its loop at what the slot it
   dequeues says, so queued slots must hold works (`RingHoldsWorks`), and a work must end
   within the product, so `start` must keep to `ChunkStart` (`MainInRange`), which reaches n*n
   exactly (`ChunkStep`, `ChunkBounds`).
2. *Wakeups* (`WakeInv`). While a worker sleeps, the awake idle ones number at least
   `queue_size`. A signal adds one to each side; a worker that takes a work subtracts one from
   each; a worker that finishes adds one; a worker goes to sleep only when the queue is empty.
   `NoStrandedWork` follows, the exit of workers having to wait for `terminate`, which main
   raises with an empty queue.
3. *Counting* (`Conservation`). `completed` + running + queued + those still to be cut =
   `total_works`, whence the test for the last work.
4. *Coverage* (`Coverage`). Every cell is calculated, still to be sent, in a queued work, or
   ahead of a worker that runs its work. This needs the slots between `front` and `rear` to be
   distinct, hence `FittingSpec`, and lemmas on the modulus (`DivMod`, `ModUnique`, `ModAdd`).
5. *Each once* (`EachOnce`). Queued and running works are works that were submitted, no two are
   the same, and a worker is not before the start of its own. Two works of a product share no
   cell (`Disjoint`), so no two workers write the same one. `Enqueue` then is `Submit`, the
   ring's sequence growing at its end (`EnqueueSubmits`), `Dequeue` is `Take`, its sequence
   losing its head (`DequeueTakes`), `Complete` is `Finish`, and every other step changes nothing
   of `JobPool` (`JobStep`).

### The scheduler

1. *Types* (`TInv`). The pass makes ready what it finds in the waiting queue, so what stands
   below `size` must be threads; a thread that runs has not used up its slice.
2. *Counts.* `CountsHaveHolders` is inductive as it stands: a thread that was let go on
   uncounted adds a holder and no count, and gives back a count at most.
3. *Places* (`PInv`). Every thread is ready, asleep, waiting, in charge or has exited, and in one
   of these places (`OnePlace`); the ready queue has no repetitions (`Once`); the waiting queue
   has not wrapped, its `size` being at most the number of times threads have entered it
   (`Unwrapped`); and readers wait only while a writer counts (`Bunched`), so that a pass lets
   all go on or none and `head` ends where `size` is.
4. *Returning.* At the last pass nobody is ready, asleep or in charge. A waiter left then would
   wait for a count, hence for its holder (2), who would have to be ready.
5. *Turns.* A thread's step is a `Wake`, a `Block`, an `Exit` or nothing for `Dispatcher`
   (`StepTurns`): `AwakeTurns` reads `thread_awake` as zero or one blocked thread put at the end.
   A pass is one `Turn` (`ScheduleTurns`): the queue it forms is the ready one, then sleepers and
   waiters, then who ran (`QueueIs`); those sleepers and waiters are blocked, distinct, and no
   more than there are (`SomeIs`, from 3); nobody in the queue sleeps (`QueueAwake`), so its first
   thread runs. When the queue is empty the pass starts the idle thread, which `Dispatcher` does
   not see, or returns, by 4 with all exited.
6. *Counting.* `AllCounted` says that the numbers in a control block are those of turn `i`, also
   while another thread runs; only `Count` changes them. That `Fib` obeys its recursion for every
   argument is itself an induction, and the library's induction theorems take an operator as a
   parameter, which no prover here can instantiate. `LeastNat` gets a least element from `WFMin`
   instead, which is about sets, `Counting` is induction for sets of numbers, and `StartsExist`
   and `StartsAgree` apply it to the functions that obey the recursion up to n.

### The servers

1. `Inv`: types; a client in status SEAT or BOOKED has a train, one in SHIFT an empty record; a
   handler is about a client of its server in a status that leads there; and `CountsChosen`.
   Every step of one client's handler is an instance of `ClientStep`.
2. `Excl`, of one write server: the file backs what the records of its clients hold (`Backs`,
   which says more than `FileBacksRecords`: what is chosen is locked in the file, unless it is
   just being locked); a handler that is to lock a seat has it in its record and finds it
   available, and one that is to free a seat is the only one to hold it (`WritesOwn`); its readings
   agree (`Reads`); and two clients hold different seats of a train (`Apart`). Read servers write
   nothing.
3. `ShowsStep`: what a client was shown as booked is booked, because booked stays booked.
4. `Runs`: a server that handles a line runs, so that no reservation is made by an office that is
   not open. It needs no `OneWriter`.
5. *Refinement.* With `Excl` the holder that `Holder` chooses is unique (`HolderIs`), so `Choose`
   and `LockSeat` together are `Reserve`, the file step of a cancellation is `Release`, and `PaySeat`
   is `Buy`. A connection that is closed in a step of `Tidy` has no seat to give back, so nothing
   changes (`CloseLeaves`); a server that is killed, crashes or exits is `Crash` (`DieLeaves`), and
   `Start` is `Reopen`.

### The process tree

1. *The tree* (`TInv`). Children have been forked, have one parent and are not the root; a
   process that asks or listens has a command and a child to ask.
2. *Owed* (`Owed`). Who listens to a child is owed something: the child has bytes in its pipe, is
   at a command, or has one to read. Only its parent takes bytes out of its pipe, and a command
   ends with at least one byte, since names have one (`NamesAreBytes`).
3. *Order* (`InOrder`). A process has no later command in hand than its parent, and not its
   parent's own before it is asked (`Handed`), so commands reach every pipe in order (`Order`).
4. *Family* (`FInv`). A process has the name its command gives, and is the child of one who has
   the name that command asks for (`Kin`, `Called`); what a process hears of was given after the
   command that made it, and what it hands down after those that made its children (`Later`);
   and no two processes were made by one command (`Single`). The last is the hard one
   (`OnlyOnce`): if the command at hand had made somebody, two friends would have the name it
   asks for, made by two different commands before it, both expected, against `AsksForOne`. So
   `FInv` is an invariant of the behaviours whose commands ask for one.
   So a command stands for one friend (`Bears`), `Meet` is `Family`'s `Meet` (`MeetTree`), and no
   other step is seen.

### Only model-checked

The liveness properties `SubmittedWorksFinish`, `DestroyReturns`, `Terminates`, `HandlersReturn`
and `AllComeToRest`: they rest on fairness, which is out of TLAPS's reach. Every other property
of a passing run is a theorem.

## Not modelled

- *HW2.* `Check` does not compile as committed (`friend.c:358`, `friend.c:369`), and `Adopt`,
  `Graduate` and the bonus are only described in comments: there is no behaviour to model. Of
  `utility.c`, `friend.c` calls only `initList` and links its nodes itself (`Meet`); nobody calls
  the rest.
- *HW3.* The ready queue's array with `THREAD_MAX` threads or more: `thread_setup` then writes past
  the array, and nothing in the code defines what that does. Ids of friends beyond the sleeping
  set, for the same reason. Parsing of the command line and installing the handlers.
- *HW4.* Reading and validating input; the values in the matrices and the transposed copy of `b`.
- *HW1.* Seat numbers outside a record, elapsed time, the wording of prompts, `checker.py`.
- *Scratch.* `testSpace/main.c` has merge-conflict markers and does not compile; `test.c` prints
  one value.
