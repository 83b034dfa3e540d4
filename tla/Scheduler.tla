----------------------------- MODULE Scheduler -----------------------------
(***************************************************************************)
(* The user-level threads of sp2024-hw3: the scheduler (scheduler.c), the  *)
(* macros threads call (thread_tool.h) and the routines they run           *)
(* (routine.c).  One thread runs at a time; it gives control up by         *)
(* longjmp(sched_buf, status), which makes the scheduler choose another.   *)
(*                                                                         *)
(* SIGTSTP and SIGALRM are blocked except inside thread_yield, so what a   *)
(* thread does from where it resumes to its next yield, wait or exit is    *)
(* one action, and one pass of the scheduler is another.  The ready queue  *)
(* is a sequence: with fewer than THREAD_MAX threads its circular array    *)
(* never fills.  The waiting queue keeps its array and its indices, because *)
(* the scheduler does not read it circularly.                              *)
(***************************************************************************)
EXTENDS Integers, Sequences, FiniteSets

CONSTANTS
  Thread,       \* the ids of the threads the command line asks for, 1..n
  Programs,     \* what the command line may ask for: a routine and its
                \* arguments for every thread
  THREAD_MAX,
  time_slice,   \* seconds, the period of the alarm
  q_p, q_s      \* spots in the two classes

Idle == 0   \* the id of the idle thread

ASSUME ThreadAssumption ==
  /\ THREAD_MAX \in Nat /\ time_slice \in Nat \ {0}
  /\ IsFiniteSet(Thread) /\ Thread = 1..Cardinality(Thread) /\ Thread # {}
  /\ Cardinality(Thread) < THREAD_MAX

\* fibonacci and pm take the number to count up to; enroll takes preferences
\* dp and ds, seconds s to sleep and a friend b to wake.
Routine ==
  [routine : {"fibonacci", "pm"}, n : Nat \ {0}]
    \cup [routine : {"enroll"}, dp : Int, ds : Int, s : Nat, b : 0..THREAD_MAX]

ASSUME ProgramAssumption ==
  q_p \in Int /\ q_s \in Int /\ Programs \subseteq [Thread -> Routine]

VARIABLES
  program,        \* program[t]: the routine of thread t and its arguments
  control,        \* who runs: "thread" (current), "scheduler" or, at the end, "returned"
  status,         \* what setjmp(sched_buf) returns to the scheduler
  current,        \* current_thread
  ready_queue,
  waiting_queue,  \* arr, head and size, size being the index behind the last
  sleeping,       \* the ids whose slot of sleeping_set is not NULL
  read_count, write_count,
  tcb,            \* the thread control blocks; pc is where env resumes
  elapsed,        \* whole seconds slept since alarm(time_slice)
  frame,          \* whose pp and ps are in the stack slots all enrolls share
  choice          \* the class each enroll has printed, "none" before it does

vars == <<program, control, status, current, ready_queue, waiting_queue, sleeping,
          read_count, write_count, tcb, elapsed, frame, choice>>

PC == {"start", "loop", "granted_read", "reading", "computed", "granted_write",
       "writing", "exited"}

-----------------------------------------------------------------------------
(* The macros of thread_tool.h.                                            *)

\* longjmp(sched_buf, s)
Enter(s) == control' = "scheduler" /\ status' = s

\* sleep(1) and then thread_yield: a pending signal takes the thread to the
\* scheduler.  After time_slice seconds SIGALRM is pending; before, SIGTSTP,
\* which a user sends at any time, may be.
Yield ==
  /\ elapsed' = elapsed + 1
  /\ \/ Enter(1)
     \/ elapsed' < time_slice /\ UNCHANGED <<control, status>>

\* thread_awake(b) done to the tables
Awakened(b, table) == IF b \in sleeping THEN [table EXCEPT ![b].keepgo = TRUE] ELSE table

AwakeMutant(b) ==
  /\ ready_queue' = Append(ready_queue, b)
  /\ sleeping' = sleeping \ {b}

AwakeFirstMutant(b) ==
  /\ ready_queue' = IF b \in sleeping THEN <<b>> \o ready_queue ELSE ready_queue
  /\ sleeping' = sleeping \ {b}

Awake(b) ==
  /\ ready_queue' = IF b \in sleeping THEN Append(ready_queue, b) ELSE ready_queue
  /\ sleeping' = sleeping \ {b}

\* A thread that finds the lock taken joins the waiting queue.
WaitIn(t) ==
  waiting_queue' = [waiting_queue EXCEPT !.arr[waiting_queue.size] = t,
                                         !.size = (@ + 1) % THREAD_MAX]

-----------------------------------------------------------------------------
(* One pass of the scheduler.                                              *)

\* The numbers in ns from the least up.
Ascending(ns) ==
  {s \in [1..Cardinality(ns) -> ns] :
     /\ \A n \in ns : \E k \in DOMAIN s : s[k] = n
     /\ \A j, k \in DOMAIN s : j < k => s[j] < s[k]}

\* The sleepers whose time is up once this pass has taken a slice from it.
Woken == {t \in sleeping : tcb[t].sleeping_time - time_slice <= 0}

\* The indices of the waiting queue the loop looks at: from head up to size,
\* none when size has wrapped and head has not.
Visible == waiting_queue.head..(waiting_queue.size - 1)

GrantableMutant(t) ==
  \/ tcb[t].waiting_for = 4
  \/ tcb[t].waiting_for = 5 /\ write_count = 0 /\ read_count = 0

Grantable(t) ==
  \/ tcb[t].waiting_for = 4 /\ write_count = 0
  \/ tcb[t].waiting_for = 5 /\ write_count = 0 /\ read_count = 0

\* The indices of the waiters this pass moves to the ready queue.  No count
\* changes.
Granted == {k \in Visible : Grantable(waiting_queue.arr[k])}

RequeuedMutant == IF status = 1 THEN <<current>> ELSE << >>

\* A thread that yielded goes to the back of the queue, the idle one does not.
Requeued == IF status = 1 /\ current # Idle THEN <<current>> ELSE << >>

\* current_thread becomes t, which resumes where its env says.
Dispatch(t) == current' = t /\ control' = "thread"

ChooseMutant(queue, asleep) ==
  LET awake == {k \in DOMAIN queue : queue[k] \notin asleep} IN
  IF awake = {} THEN
    current' = Idle /\ control' = "returned" /\ ready_queue' = << >>
  ELSE
    \E k \in awake :
      /\ \A j \in awake : k <= j
      /\ Dispatch(queue[k])
      /\ ready_queue' = SubSeq(queue, k + 1, Len(queue))

\* The end of scheduler(): dispatch from queue, having dropped threads from
\* its front that are asleep; idle while somebody sleeps; else return.
Choose(queue, asleep) ==
  LET awake == {k \in DOMAIN queue : queue[k] \notin asleep} IN
  IF queue = << >> /\ asleep = {} THEN
    current' = Idle /\ control' = "returned" /\ ready_queue' = << >>
  ELSE IF awake = {} THEN
    Dispatch(Idle) /\ ready_queue' = << >>
  ELSE
    \E k \in awake :
      /\ \A j \in awake : k <= j
      /\ Dispatch(queue[k])
      /\ ready_queue' = SubSeq(queue, k + 1, Len(queue))

Schedule ==
  /\ control = "scheduler"
  /\ elapsed' = 0 /\ status' = 0
  /\ sleeping' = sleeping \ Woken
  /\ tcb' = [t \in Thread |->
               IF t \notin sleeping THEN tcb[t]
               ELSE [tcb[t] EXCEPT !.sleeping_time = @ - time_slice,
                                   !.keepgo = @ \/ t \in Woken]]
  /\ \E woken \in Ascending(Woken), granted \in Ascending(Granted) :
       LET let_go == [k \in DOMAIN granted |-> waiting_queue.arr[granted[k]]] IN
       /\ waiting_queue' = [waiting_queue EXCEPT !.head = (@ + Len(granted)) % THREAD_MAX]
       /\ Choose(ready_queue \o woken \o let_go \o Requeued, sleeping \ Woken)
  /\ UNCHANGED <<program, read_count, write_count, frame, choice>>

-----------------------------------------------------------------------------
(* The routines.                                                           *)

Runs(t, routine, at) ==
  /\ control = "thread" /\ current = t
  /\ program[t].routine = routine /\ tcb[t].pc = at

\* idle: print, sleep, yield.
IdleRun ==
  /\ control = "thread" /\ current = Idle
  /\ Yield
  /\ UNCHANGED <<program, current, ready_queue, waiting_queue, sleeping, read_count,
                 write_count,
                 tcb, frame, choice>>

FibonacciMutant(x, i) ==
  IF i <= 2 THEN [x EXCEPT !.f_cur = 1, !.f_prev = 1]
            ELSE [x EXCEPT !.f_cur = x.f_cur + x.f_prev, !.f_prev = x.f_cur + x.f_prev]

FibonacciValues(x, i) ==
  IF i <= 2 THEN [x EXCEPT !.f_cur = 1, !.f_prev = 1]
            ELSE [x EXCEPT !.f_cur = x.f_cur + x.f_prev, !.f_prev = x.f_cur]

PmValues(x, i) ==
  IF i = 1 THEN [x EXCEPT !.f_cur = 1, !.f_prev = 1]
           ELSE [x EXCEPT !.f_cur = (IF i % 2 = 1 THEN i ELSE -i) + x.f_cur,
                          !.f_prev = x.f_cur]

\* One turn of the loop of fibonacci or pm, from after one yield through the
\* next, or through thread_exit.  The signal mask thread_yield builds on the
\* stack lies over the slots of enroll's pp and ps and may clear them.
Count(t) ==
  LET x == tcb[t]
      i == x.i + 1
      y == IF program[t].routine = "fibonacci" THEN FibonacciValues(x, i)
                                               ELSE PmValues(x, i)
      last == i = program[t].n
  IN
  /\ \E r \in {"fibonacci", "pm"} : Runs(t, r, "start") \/ Runs(t, r, "loop")
  /\ tcb' = [tcb EXCEPT ![t] = [y EXCEPT !.i = i, !.pc = IF last THEN "exited" ELSE "loop"]]
  /\ IF last THEN Enter(3) /\ UNCHANGED <<elapsed, frame>>
             ELSE Yield /\ frame' \in {frame, Idle}
  /\ UNCHANGED <<program, current, ready_queue, waiting_queue, sleeping, read_count,
                 write_count,
                 choice>>

\* enroll sleeps first.  thread_sleep has no setjmp of its own: env still
\* resumes at the start, where keepgo then lets the thread pass.
GoToSleep(t) ==
  /\ Runs(t, "enroll", "start") /\ ~tcb[t].keepgo
  /\ tcb' = [tcb EXCEPT ![t].sleeping_time = program[t].s + time_slice]
  /\ sleeping' = sleeping \cup {t}
  /\ Enter(2)
  /\ UNCHANGED <<program, current, ready_queue, waiting_queue, read_count, write_count, elapsed,
                 frame, choice>>

\* It wakes its friend and takes the read lock ...
AcquireRead(t) ==
  /\ Runs(t, "enroll", "start") /\ tcb[t].keepgo
  /\ write_count = 0
  /\ Awake(program[t].b)
  /\ read_count' = read_count + 1
  /\ tcb' = [Awakened(program[t].b, tcb) EXCEPT ![t].pc = "reading"]
  /\ Yield
  /\ UNCHANGED <<program, current, waiting_queue, write_count, frame, choice>>

\* ... or waits for it.
WaitRead(t) ==
  /\ Runs(t, "enroll", "start") /\ tcb[t].keepgo
  /\ write_count # 0
  /\ Awake(program[t].b)
  /\ tcb' = [Awakened(program[t].b, tcb) EXCEPT ![t].pc = "granted_read",
                                                ![t].waiting_for = 4]
  /\ WaitIn(t)
  /\ Enter(4)
  /\ UNCHANGED <<program, current, read_count, write_count, elapsed, frame, choice>>

\* A waiter the scheduler lets go on holds the lock without counting.
ResumeRead(t) ==
  /\ Runs(t, "enroll", "granted_read")
  /\ tcb' = [tcb EXCEPT ![t].pc = "reading"]
  /\ Yield
  /\ UNCHANGED <<program, current, ready_queue, waiting_queue, sleeping, read_count,
                 write_count,
                 frame, choice>>

ReleaseReadMutant(t) ==
  /\ Runs(t, "enroll", "reading")
  /\ read_count' = read_count - 1
  /\ frame' = t
  /\ tcb' = [tcb EXCEPT ![t].pc = "computed"]
  /\ Yield
  /\ UNCHANGED <<program, current, ready_queue, waiting_queue, sleeping, write_count, choice>>

\* read_unlock; pp and ps are computed into the shared stack slots.
ReleaseRead(t) ==
  /\ Runs(t, "enroll", "reading")
  /\ read_count' = IF read_count > 0 THEN read_count - 1 ELSE read_count
  /\ frame' = t
  /\ tcb' = [tcb EXCEPT ![t].pc = "computed"]
  /\ Yield
  /\ UNCHANGED <<program, current, ready_queue, waiting_queue, sleeping, write_count, choice>>

\* The class enroll prints: by the pp and ps that are on the stack now.
Preferred(t) ==
  IF t # Idle /\ program[t].dp * q_p > program[t].ds * q_s THEN "pj_class" ELSE "sw_class"

AcquireWriteMutant(t) ==
  /\ Runs(t, "enroll", "computed")
  /\ write_count = 0
  /\ write_count' = 1
  /\ choice' = [choice EXCEPT ![t] = Preferred(frame)]
  /\ tcb' = [tcb EXCEPT ![t].pc = "writing"]
  /\ Yield
  /\ UNCHANGED <<program, current, ready_queue, waiting_queue, sleeping, read_count, frame>>

AcquireWrite(t) ==
  /\ Runs(t, "enroll", "computed")
  /\ write_count = 0 /\ read_count = 0
  /\ write_count' = 1
  /\ choice' = [choice EXCEPT ![t] = Preferred(frame)]
  /\ tcb' = [tcb EXCEPT ![t].pc = "writing"]
  /\ Yield
  /\ UNCHANGED <<program, current, ready_queue, waiting_queue, sleeping, read_count, frame>>

WaitWrite(t) ==
  /\ Runs(t, "enroll", "computed")
  /\ write_count # 0 \/ read_count # 0
  /\ tcb' = [tcb EXCEPT ![t].pc = "granted_write", ![t].waiting_for = 5]
  /\ WaitIn(t)
  /\ Enter(5)
  /\ UNCHANGED <<program, current, ready_queue, sleeping, read_count, write_count, elapsed,
                 frame, choice>>

ResumeWrite(t) ==
  /\ Runs(t, "enroll", "granted_write")
  /\ choice' = [choice EXCEPT ![t] = Preferred(frame)]
  /\ tcb' = [tcb EXCEPT ![t].pc = "writing"]
  /\ Yield
  /\ UNCHANGED <<program, current, ready_queue, waiting_queue, sleeping, read_count,
                 write_count,
                 frame>>

ReleaseWriteMutant(t) ==
  /\ Runs(t, "enroll", "writing")
  /\ write_count' = write_count
  /\ tcb' = [tcb EXCEPT ![t].pc = "exited"]
  /\ Enter(3)
  /\ UNCHANGED <<program, current, ready_queue, waiting_queue, sleeping, read_count, elapsed,
                 frame, choice>>

\* write_unlock and thread_exit.
ReleaseWrite(t) ==
  /\ Runs(t, "enroll", "writing")
  /\ write_count' = IF write_count = 1 THEN 0 ELSE write_count
  /\ tcb' = [tcb EXCEPT ![t].pc = "exited"]
  /\ Enter(3)
  /\ UNCHANGED <<program, current, ready_queue, waiting_queue, sleeping, read_count, elapsed,
                 frame, choice>>

-----------------------------------------------------------------------------
\* spawn_thread has run thread_setup for every thread; main calls scheduler.
Init ==
  /\ program \in Programs
  /\ control = "scheduler" /\ status = 0 /\ current = Idle
  /\ ready_queue = [k \in 1..Cardinality(Thread) |-> k]
  /\ waiting_queue = [arr |-> [k \in 0..(THREAD_MAX - 1) |-> Idle], head |-> 0, size |-> 0]
  /\ sleeping = {}
  /\ read_count = 0 /\ write_count = 0
  /\ tcb = [t \in Thread |->
              [pc |-> "start", waiting_for |-> 0, sleeping_time |-> 0, keepgo |-> FALSE,
               i |-> 0, f_cur |-> 0, f_prev |-> 0]]
  /\ elapsed = 0 /\ frame = Idle
  /\ choice = [t \in Thread |-> "none"]

Step(t) ==
  \/ Count(t)
  \/ GoToSleep(t)
  \/ AcquireRead(t) \/ WaitRead(t) \/ ResumeRead(t) \/ ReleaseRead(t)
  \/ AcquireWrite(t) \/ WaitWrite(t) \/ ResumeWrite(t) \/ ReleaseWrite(t)

Next == Schedule \/ IdleRun \/ \E t \in Thread : Step(t)

Spec == Init /\ [][Next]_vars

\* The process keeps running.
FairSpec == Spec /\ WF_vars(Next)

-----------------------------------------------------------------------------
(* What the state stands for.                                              *)

Exited == {t \in Thread : tcb[t].pc = "exited"}

Reading == {t \in Thread : tcb[t].pc = "reading"}

Writing == {t \in Thread : tcb[t].pc = "writing"}

\* The threads in the waiting queue, read as the circular array it is.
Waiting ==
  LET length == (waiting_queue.size - waiting_queue.head) % THREAD_MAX
  IN {waiting_queue.arr[(waiting_queue.head + k) % THREAD_MAX] : k \in 0..(length - 1)}

\* current is not in any queue while it runs or is about to be requeued.
InCharge == IF control = "thread" \/ status = 1 THEN {current} ELSE {}

Runner == IF InCharge = {} THEN Idle ELSE current

Blocked == sleeping \cup Waiting

-----------------------------------------------------------------------------
(* Properties.                                                             *)

\* Every variable has its type.
TypeOK ==
  /\ program \in Programs
  /\ control \in {"thread", "scheduler", "returned"} /\ status \in 0..5
  /\ current \in Thread \cup {Idle}
  /\ ready_queue \in Seq(Thread)
  /\ waiting_queue \in [arr : [0..(THREAD_MAX - 1) -> Thread \cup {Idle}],
                        head : 0..(THREAD_MAX - 1), size : 0..(THREAD_MAX - 1)]
  /\ sleeping \subseteq Thread
  /\ read_count \in Nat /\ write_count \in {0, 1}
  /\ tcb \in [Thread -> [pc : PC, waiting_for : {0, 4, 5}, sleeping_time : Int,
                         keepgo : BOOLEAN, i : Nat, f_cur : Int, f_prev : Int]]
  /\ elapsed \in 0..time_slice
  /\ frame \in Thread \cup {Idle}
  /\ choice \in [Thread -> {"none", "pj_class", "sw_class"}]

\* No thread is lost and none is in two places: a thread is in charge, ready
\* (once), asleep, waiting or has exited, whatever the order in which
\* signals, wakeups by a friend, expired sleeps and grants move it.
OnePlaceEach ==
  \A t \in Thread :
    LET ready == {k \in DOMAIN ready_queue : ready_queue[k] = t}
        places == {p \in {"charge", "ready", "asleep", "waiting", "exited"} :
                     \/ p = "charge" /\ t \in InCharge
                     \/ p = "ready" /\ ready # {}
                     \/ p = "asleep" /\ t \in sleeping
                     \/ p = "waiting" /\ t \in Waiting
                     \/ p = "exited" /\ t \in Exited}
    IN Cardinality(ready) <= 1 /\ Cardinality(places) = 1

\* The counts never outlive their holders: read_count is at most the number
\* of threads between read_lock and read_unlock, a set write_count means that
\* a thread is still to call write_unlock, and not both are set.  This is
\* what keeps waiters from waiting for ever, although waiters that were let
\* go on hold the lock uncounted and give back counts that are not theirs.
CountsHaveHolders ==
  /\ read_count <= Cardinality(Reading)
  /\ write_count = 1 => Writing # {}
  /\ read_count = 0 \/ write_count = 0

\* A pass of the scheduler grants a stretch from the head of the waiting
\* queue or nothing: head, which it advances once for each grant, then never
\* runs past a waiter that was not granted.
GrantsFromHead ==
  control = "scheduler" => \A k \in Granted : waiting_queue.head..k \subseteq Granted

\* The scheduler returns only when every thread has exited.
ReturnsWhenAllExited == control = "returned" => Exited = Thread

\* The idle thread runs only while a thread sleeps and nobody is ready.
IdleOnlyWhileOthersSleep ==
  control = "thread" /\ current = Idle => sleeping # {} /\ ready_queue = << >>

\* The Fibonacci numbers, and the sums 1 - 2 + 3 - ... up to k.
Fib[k \in Nat] == IF k <= 2 THEN 1 ELSE Fib[k - 1] + Fib[k - 2]

AlternatingSum(k) == IF k % 2 = 1 THEN (k + 1) \div 2 ELSE -(k \div 2)

\* fibonacci and pm count right across preemption: what a thread printed last
\* is the i-th Fibonacci number, or 1 - 2 + 3 - ... up to i.
CountsRight ==
  \A t \in Thread :
    tcb[t].i > 0 =>
      tcb[t].f_cur = IF program[t].routine = "fibonacci" THEN Fib[tcb[t].i]
                                                         ELSE AlternatingSum(tcb[t].i)

\* The scheduler implements Dispatcher: threads take turns in the order in
\* which they became ready, however signals, friends, expired sleeps and
\* grants made them so, and nobody who is blocked runs or jumps the queue.
Turns == INSTANCE Dispatcher WITH
  Nobody <- Idle,
  running <- Runner,
  ready <- ready_queue,
  blocked <- Blocked,
  exited <- Exited,
  returned <- control = "returned"

ImplementsDispatcher == Turns!Spec

\* Every thread gets to exit and the scheduler returns: nobody is starved by
\* the others, by signals, by sleepers or by the lock.
Terminates == <>(control = "returned" /\ Exited = Thread)

\* An enroll prints the class its own preferences call for.
EnrollsByOwnPreference == \A t \in Thread : choice[t] # "none" => choice[t] = Preferred(t)
=============================================================================
