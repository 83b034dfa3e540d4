------------------------------- MODULE TPool -------------------------------
(***************************************************************************)
(* The thread pool of sp2024-hw4 (tpool.c) and the main() that drives it:  *)
(* T products of N x N matrices, each cut into chunks of cells that the    *)
(* workers take from a ring buffer guarded by one mutex and one condition  *)
(* variable, which the workers and main share.                             *)
(*                                                                         *)
(* Every section of the code under pool->lock has no blocking call in it   *)
(* but pthread_cond_wait, so a section, or the part of it up to the wait,  *)
(* is one action and the mutex needs no variable.  A thread inside         *)
(* pthread_cond_wait is in waiters; it leaves by a signal, the broadcast   *)
(* or a spurious wakeup, and then tests its loop condition again.          *)
(***************************************************************************)
EXTENDS Integers, FiniteSets, Sequences

CONSTANTS
  Worker,           \* the backend threads, pool->num_threads of them
  Main,             \* the thread that runs main()
  MAX_QUEUE_SIZE,   \* slots of the ring buffer
  N,                \* pool->n, the order of the matrices
  T,                \* the number of products, main's t
  NumWorks,         \* NumWorks[m]: into how many works product m is cut
  NoWork            \* what a slot, or a thread's work variable, holds at first

ASSUME WorkerAssumption ==
  IsFiniteSet(Worker) /\ Worker # {} /\ Main \notin Worker
ASSUME QueueAssumption == MAX_QUEUE_SIZE \in Nat \ {0}
ASSUME InputAssumption ==
  N \in Nat \ {0} /\ T \in Nat \ {0} /\ NumWorks \in [1..T -> Nat \ {0}]

Slot == 0..(MAX_QUEUE_SIZE - 1)
Matrix == 1..T
Cell == 0..(N * N - 1)
Work == [c : Matrix, i : Nat, start : 0..(N * N), end : 0..(N * N)]

ASSUME NoWorkAssumption == NoWork \notin Work

VARIABLES
  work_queue, queue_size, front, rear, terminate,
  total_works, completed,
  waiters,          \* the threads inside pthread_cond_wait
  mpc, req, i, start,        \* main: where it is and its loop variables
  wpc, work, pos,            \* each worker: where it is, its work, its loop variable
  calculated,       \* <<m, k>>: cell k of product m has been written
  stale,            \* the cells main printed before they were calculated
  freed,            \* the products whose matrices main has freed
  crashed           \* a worker touched freed memory and brought the process down

poolVars == <<work_queue, queue_size, front, rear, terminate, total_works, completed>>
mainVars == <<mpc, req, i, start, stale, freed>>
workerVars == <<wpc, work, pos, calculated, crashed>>
vars == <<poolVars, waiters, mainVars, workerVars>>

MainPC == {"request", "enqueue", "sync", "print", "free", "destroy", "join", "done"}
WorkerPC == {"idle", "compute", "exited"}

-----------------------------------------------------------------------------
(* The ring buffer, the cut of a product into works, and signals.          *)

NextSlotMutant(x) == x + 1

\* (x + 1) % MAX_QUEUE_SIZE
NextSlot(x) == (x + 1) % MAX_QUEUE_SIZE

WorkEndMutant(from, j, num_works) ==
  from + (N * N) \div num_works + (IF j <= (N * N) % num_works THEN 1 ELSE 0)

\* Where work j of num_works ends when it starts at cell from.
WorkEnd(from, j, num_works) ==
  from + (N * N) \div num_works + (IF j < (N * N) % num_works THEN 1 ELSE 0)

\* The wait sets one pthread_cond_signal may leave behind.
Signalled(ws) == IF ws = {} THEN {ws} ELSE {ws \ {t} : t \in ws}

-----------------------------------------------------------------------------
Init ==
  /\ work_queue = [s \in Slot |-> NoWork]
  /\ queue_size = 0 /\ front = 0 /\ rear = 0
  /\ terminate = FALSE
  /\ total_works = 0 /\ completed = 0
  /\ waiters = {}
  /\ mpc = "request" /\ req = 1 /\ i = 0 /\ start = 0
  /\ stale = {} /\ freed = {}
  /\ wpc = [w \in Worker |-> "idle"]
  /\ work = [w \in Worker |-> NoWork]
  /\ pos = [w \in Worker |-> 0]
  /\ calculated = {}
  /\ crashed = FALSE

(* main() and the tpool functions it calls.                                *)

RequestMutant ==
  /\ mpc = "request"
  /\ total_works' = total_works + NumWorks[req] - 1
  /\ i' = 0 /\ start' = 0
  /\ mpc' = "enqueue"
  /\ UNCHANGED <<work_queue, queue_size, front, rear, terminate, completed,
                 waiters, req, stale, freed, workerVars>>

\* tpool_request up to its loop: all the works are announced in total_works.
Request ==
  /\ mpc = "request"
  /\ total_works' = total_works + NumWorks[req]
  /\ i' = 0 /\ start' = 0
  /\ mpc' = "enqueue"
  /\ UNCHANGED <<work_queue, queue_size, front, rear, terminate, completed,
                 waiters, req, stale, freed, workerVars>>

EnqueueMutant ==
  LET end == WorkEnd(start, i, NumWorks[req]) IN
  /\ mpc = "enqueue" /\ i < NumWorks[req]
  /\ work_queue' = [work_queue EXCEPT ![rear] =
                      [c |-> req, i |-> i, start |-> start, end |-> end]]
  /\ rear' = NextSlot(rear)
  /\ queue_size' = queue_size + 1
  /\ waiters' \in IF queue_size = 0 THEN Signalled(waiters) ELSE {waiters}
  /\ i' = i + 1 /\ start' = end
  /\ UNCHANGED <<front, terminate, total_works, completed, mpc, req, stale, freed,
                 workerVars>>

EnqueueSilentMutant ==
  LET end == WorkEnd(start, i, NumWorks[req]) IN
  /\ mpc = "enqueue" /\ i < NumWorks[req]
  /\ work_queue' = [work_queue EXCEPT ![rear] =
                      [c |-> req, i |-> i, start |-> start, end |-> end]]
  /\ rear' = NextSlot(rear)
  /\ queue_size' = queue_size + 1
  /\ i' = i + 1 /\ start' = end
  /\ UNCHANGED <<front, terminate, total_works, completed, waiters, mpc, req, stale,
                 freed, workerVars>>

\* One turn of tpool_request's loop.  Nothing looks whether a slot is free.
Enqueue ==
  LET end == WorkEnd(start, i, NumWorks[req]) IN
  /\ mpc = "enqueue" /\ i < NumWorks[req]
  /\ work_queue' = [work_queue EXCEPT ![rear] =
                      [c |-> req, i |-> i, start |-> start, end |-> end]]
  /\ rear' = NextSlot(rear)
  /\ queue_size' = queue_size + 1
  /\ waiters' \in Signalled(waiters)
  /\ i' = i + 1 /\ start' = end
  /\ UNCHANGED <<front, terminate, total_works, completed, mpc, req, stale, freed,
                 workerVars>>

\* tpool_request returns and main reads the next product, if there is one.
RequestReturn ==
  /\ mpc = "enqueue" /\ i = NumWorks[req]
  /\ IF req < T THEN req' = req + 1 /\ mpc' = "request"
                ELSE req' = req /\ mpc' = "sync"
  /\ UNCHANGED <<poolVars, waiters, i, start, stale, freed, workerVars>>

\* tpool_synchronize finds works in the queue and waits.
SyncWait ==
  /\ mpc = "sync" /\ Main \notin waiters
  /\ queue_size > 0
  /\ waiters' = waiters \cup {Main}
  /\ UNCHANGED <<poolVars, mainVars, workerVars>>

\* tpool_synchronize finds the queue empty: it does not look at completed.
SyncReturn ==
  /\ mpc = "sync" /\ Main \notin waiters
  /\ queue_size = 0
  /\ mpc' = "print" /\ req' = 1 /\ i' = 0
  /\ UNCHANGED <<poolVars, waiters, start, stale, freed, workerVars>>

\* main prints cell i of product req, whether or not it has been calculated.
PrintCell ==
  /\ mpc = "print"
  /\ stale' = IF <<req, i>> \in calculated THEN stale ELSE stale \cup {<<req, i>>}
  /\ IF i + 1 < N * N THEN i' = i + 1 /\ UNCHANGED <<mpc, req>>
     ELSE /\ i' = 0
          /\ IF req < T THEN req' = req + 1 /\ mpc' = mpc
                        ELSE req' = 1 /\ mpc' = "free"
  /\ UNCHANGED <<poolVars, waiters, start, freed, workerVars>>

\* main frees the matrices of product req.
FreeMatrices ==
  /\ mpc = "free"
  /\ freed' = freed \cup {req}
  /\ IF req < T THEN req' = req + 1 /\ mpc' = mpc
                ELSE req' = req /\ mpc' = "destroy"
  /\ UNCHANGED <<poolVars, waiters, i, start, stale, workerVars>>

DestroyMutant ==
  /\ mpc = "destroy"
  /\ terminate' = TRUE
  /\ waiters' \in Signalled(waiters)
  /\ mpc' = "join"
  /\ UNCHANGED <<work_queue, queue_size, front, rear, total_works, completed,
                 req, i, start, stale, freed, workerVars>>

\* tpool_destroy raises terminate and wakes every waiter.
Destroy ==
  /\ mpc = "destroy"
  /\ terminate' = TRUE
  /\ waiters' = {}
  /\ mpc' = "join"
  /\ UNCHANGED <<work_queue, queue_size, front, rear, total_works, completed,
                 req, i, start, stale, freed, workerVars>>

\* Every pthread_join has returned; the pool is freed and main ends.
Join ==
  /\ mpc = "join"
  /\ \A w \in Worker : wpc[w] = "exited"
  /\ mpc' = "done"
  /\ UNCHANGED <<poolVars, waiters, req, i, start, stale, freed, workerVars>>

(* worker_thread.                                                          *)

WorkerWait(w) ==
  /\ wpc[w] = "idle" /\ w \notin waiters
  /\ queue_size = 0 /\ ~terminate
  /\ waiters' = waiters \cup {w}
  /\ UNCHANGED <<poolVars, mainVars, workerVars>>

WorkerExit(w) ==
  /\ wpc[w] = "idle" /\ w \notin waiters
  /\ terminate /\ queue_size = 0
  /\ wpc' = [wpc EXCEPT ![w] = "exited"]
  /\ UNCHANGED <<poolVars, waiters, mainVars, work, pos, calculated, crashed>>

DequeueMutant(w) ==
  /\ wpc[w] = "idle" /\ w \notin waiters
  /\ queue_size > 0
  /\ work' = [work EXCEPT ![w] = work_queue[front]]
  /\ pos' = [pos EXCEPT ![w] = work_queue[front].start]
  /\ queue_size' = queue_size - 1
  /\ wpc' = [wpc EXCEPT ![w] = "compute"]
  /\ UNCHANGED <<work_queue, rear, front, terminate, total_works, completed, waiters,
                 mainVars, calculated, crashed>>

Dequeue(w) ==
  /\ wpc[w] = "idle" /\ w \notin waiters
  /\ queue_size > 0
  /\ work' = [work EXCEPT ![w] = work_queue[front]]
  /\ pos' = [pos EXCEPT ![w] = work_queue[front].start]
  /\ front' = NextSlot(front)
  /\ queue_size' = queue_size - 1
  /\ wpc' = [wpc EXCEPT ![w] = "compute"]
  /\ UNCHANGED <<work_queue, rear, terminate, total_works, completed, waiters,
                 mainVars, calculated, crashed>>

\* One turn of the worker's loop over its cells.
Compute(w) ==
  /\ wpc[w] = "compute" /\ pos[w] < work[w].end
  /\ calculated' = calculated \cup {<<work[w].c, pos[w]>>}
  /\ pos' = [pos EXCEPT ![w] = @ + 1]
  /\ UNCHANGED <<poolVars, waiters, mainVars, wpc, work, crashed>>

\* The matrices of the work have been freed: the access is undefined, and
\* besides going unnoticed (Compute) it may fault.
Fault(w) ==
  /\ wpc[w] = "compute" /\ pos[w] < work[w].end
  /\ work[w].c \in freed
  /\ crashed' = TRUE
  /\ UNCHANGED <<poolVars, waiters, mainVars, wpc, work, pos, calculated>>

\* The work is freed and counted; the last one announced signals cond.
Complete(w) ==
  /\ wpc[w] = "compute" /\ pos[w] >= work[w].end
  /\ completed' = completed + 1
  /\ waiters' \in IF completed' >= total_works THEN Signalled(waiters) ELSE {waiters}
  /\ work' = [work EXCEPT ![w] = NoWork]
  /\ wpc' = [wpc EXCEPT ![w] = "idle"]
  /\ UNCHANGED <<work_queue, queue_size, front, rear, terminate, total_works,
                 mainVars, pos, calculated, crashed>>

\* pthread_cond_wait may return without a signal.
SpuriousWakeup ==
  /\ \E t \in waiters : waiters' = waiters \ {t}
  /\ UNCHANGED <<poolVars, mainVars, workerVars>>

MainNext ==
  \/ Request \/ Enqueue \/ RequestReturn
  \/ SyncWait \/ SyncReturn
  \/ PrintCell \/ FreeMatrices
  \/ Destroy \/ Join

WorkerNext(w) ==
  \/ WorkerWait(w) \/ WorkerExit(w)
  \/ Dequeue(w) \/ Compute(w) \/ Fault(w) \/ Complete(w)

Next ==
  /\ ~crashed
  /\ MainNext \/ (\E w \in Worker : WorkerNext(w)) \/ SpuriousWakeup

Spec == Init /\ [][Next]_vars

\* Each thread that can step eventually does: no critical section blocks
\* inside, so a thread that wants the mutex gets it.  Wakeups that nobody
\* sent are not to be counted on and get no fairness.
FairSpec ==
  /\ Spec
  /\ WF_vars(~crashed /\ MainNext)
  /\ \A w \in Worker : WF_vars(~crashed /\ WorkerNext(w))

\* The queue holds no more works than it has slots.
QueueFits == queue_size <= MAX_QUEUE_SIZE

\* The behaviours of Spec whose caller never overfills the queue.
FittingSpec == Init /\ [][Next /\ QueueFits']_vars

-----------------------------------------------------------------------------
(* What the state stands for.                                              *)

\* The slot of the k-th queued work, counting from 0.
QueuedSlot(k) == (front + k) % MAX_QUEUE_SIZE

Running == {w \in Worker : wpc[w] = "compute"}

\* How many works of product m tpool_request has put in the queue.
Sent(m) ==
  IF mpc \notin {"request", "enqueue"} \/ m < req THEN NumWorks[m]
  ELSE IF m = req /\ mpc = "enqueue" THEN i ELSE 0

\* The cells of product m cut evenly, in order, the first works one cell
\* longer than the others: where work j starts, and the work itself.
ChunkStart(m, j) ==
  LET extra == (N * N) % NumWorks[m]
  IN  j * ((N * N) \div NumWorks[m]) + (IF j < extra THEN j ELSE extra)

Chunk(m, j) == [c |-> m, i |-> j, start |-> ChunkStart(m, j), end |-> ChunkStart(m, j + 1)]

Submitted == UNION {{Chunk(m, j) : j \in 0..(Sent(m) - 1)} : m \in Matrix}

-----------------------------------------------------------------------------
(* Properties.                                                             *)

\* Every variable has its type.
TypeOK ==
  /\ work_queue \in [Slot -> Work \cup {NoWork}]
  /\ queue_size \in Nat /\ front \in Slot /\ rear \in Slot
  /\ terminate \in BOOLEAN
  /\ total_works \in Nat /\ completed \in Nat
  /\ waiters \subseteq Worker \cup {Main}
  /\ mpc \in MainPC /\ req \in Matrix /\ i \in Nat /\ start \in 0..(N * N)
  /\ stale \subseteq Matrix \X Cell /\ freed \subseteq Matrix
  /\ wpc \in [Worker -> WorkerPC]
  /\ work \in [Worker -> Work \cup {NoWork}]
  /\ pos \in [Worker -> Nat]
  /\ calculated \subseteq Matrix \X Cell
  /\ crashed \in BOOLEAN

\* No wakeup is lost: while a worker sleeps on cond there are at least as
\* many others on their way to the queue as there are works in it, although
\* tpool_request sends one signal for each work, may overtake the workers it
\* woke, and a worker that was busy can take the work of one that was woken.
NoLostWakeup ==
  Worker \cap waiters # {} =>
    Cardinality({w \in Worker \ waiters : wpc[w] = "idle"}) >= queue_size

\* A queued work is never left with nobody to take it: some worker is
\* awake and has not exited.
NoStrandedWork ==
  queue_size > 0 => \E w \in Worker \ waiters : wpc[w] # "exited"

\* The test for the last work (completed >= total_works) is never true while
\* a work is queued or running or a request is half done: completed counts
\* each work once, and total_works announces a request before its works.
LastMeansIdle ==
  completed >= total_works =>
    /\ queue_size = 0 /\ Running = {}
    /\ mpc = "enqueue" => i = NumWorks[req]

\* No two workers are about to write the same cell of the same product.
NoWriteRace ==
  \A v, w \in Running :
    v # w /\ work[v].c = work[w].c /\ pos[v] < work[v].end /\ pos[w] < work[w].end
      => pos[v] # pos[w]

\* When main ends after tpool_destroy, every cell of every product has been
\* calculated: terminate does not make a worker drop what is still queued.
AllCalculated == mpc = "done" => calculated = Matrix \X Cell

\* The pool implements JobPool: the ring buffer hands out, in order and once
\* each, the chunks into which the products are to be cut.
Jobs == INSTANCE JobPool WITH
  Job <- UNION {{Chunk(m, j) : j \in 0..(NumWorks[m] - 1)} : m \in Matrix},
  Idle <- NoWork,
  submitted <- Submitted,
  pending <- [k \in 1..queue_size |-> work_queue[QueuedSlot(k - 1)]],
  running <- work

ImplementsJobPool == Jobs!Spec

\* Every work handed to the pool is executed, whatever main does meanwhile,
\* unless a worker faults on matrices main freed too early.
SubmittedWorksFinish ==
  \A m \in Matrix : \A k \in Cell :
    (mpc = "enqueue" /\ req = m /\ k < start) ~> (<<m, k>> \in calculated \/ crashed)

\* tpool_destroy returns: the broadcast reaches every worker and all exit.
DestroyReturns == mpc = "join" ~> (mpc = "done" \/ crashed)

\* What main prints is the product: no cell is read before it is written.
PrintsCalculated == stale = {}

\* tpool_synchronize returns.
SynchronizeReturns == mpc = "sync" ~> mpc = "print"
=============================================================================
