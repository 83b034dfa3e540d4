---------------------- MODULE SchedulerDispatchProofs ----------------------
(***************************************************************************)
(* Proof that the scheduler implements Dispatcher, for any number of       *)
(* threads that keeps the waiting queue from wrapping (Roomy).  Each step  *)
(* of a thread is one step of the Dispatcher or none, and so is each pass  *)
(* of the scheduler; the invariants of SchedulerProofs say who is where.   *)
(***************************************************************************)
EXTENDS SchedulerProofs

\* Who is blocked, read off the waiting queue from head to size.
Standing ==
  /\ Blocked \subseteq Thread
  /\ \A t \in Thread : t \in Blocked <=> t \in sleeping \/ Lines(t)

LEMMA PlacesStand == TInv /\ PInv => Standing
<1> SUFFICES ASSUME TInv, PInv PROVE Standing
  OBVIOUS
<1>1. \A t : t \in Waiting <=> Lines(t)
  BY WaitingIsLines
<1>2. \A t : Lines(t) => t \in Thread
  <2> SUFFICES ASSUME NEW t, NEW k \in Visible, waiting_queue.arr[k] = t PROVE t \in Thread
    BY DEF Lines
  <2> QED BY PassFinite
<1>3. sleeping \subseteq Thread
  BY Types
<1> QED BY <1>1, <1>2, <1>3 DEF Standing, Blocked

\* Who runs when a thread has the processor, and who when it has stepped.
LEMMA RunnerIs ==
  ASSUME TInv, PInv, NEW t \in Thread, NEW a, NEW b, Move(t, a, b)
  PROVE  /\ Runner = t /\ t # Idle /\ a # "exited"
         /\ Stays => Runner' = t
         /\ \A s \in {2, 3, 4, 5} : Leaves(s) => Runner' = Idle
<1>1. /\ InCharge = {t}
      /\ Stays => InCharge' = {t}
      /\ \A s \in {2, 3, 4, 5} : Leaves(s) => InCharge' = {}
  BY OthersInCharge DEF Move
<1>2. current = t /\ current' = t /\ t # Idle /\ tcb[t].pc = a
  BY Numbers DEF Move
<1>3. a # "exited"
  BY <1>1, <1>2, InMeans DEF OnePlace
<1> QED BY <1>1, <1>2, <1>3 DEF Runner

\* Who has exited after a step.
LEMMA ExitedMoves ==
  ASSUME NEW t \in Thread, NEW a, NEW b, Move(t, a, b), a # "exited"
  PROVE  Exited' = IF b = "exited" THEN Exited \cup {t} ELSE Exited
BY DEF Move, Exited

\* A step that changes nothing the Dispatcher sees.
LEMMA StutterTurns ==
  ASSUME Runner' = Runner, ready_queue' = ready_queue, Blocked' = Blocked, Exited' = Exited,
         control # "returned", control' # "returned"
  PROVE  UNCHANGED Turns!vars
BY DEF Turns!vars

\* The same queues block the same threads.
LEMMA SameBlocked ==
  ASSUME Standing, Standing', SameQueues, waiting_queue' = waiting_queue
  PROVE  Blocked' = Blocked
BY DEF Blocked, Waiting, SameQueues

\* A thread that goes on or is interrupted, and keeps off the queues.
LEMMA StaysTurns ==
  ASSUME TInv, PInv, Standing, Standing', NEW t \in Thread, NEW a, NEW b, Move(t, a, b),
         b # "exited", Stays, SameQueues, waiting_queue' = waiting_queue
  PROVE  UNCHANGED Turns!vars
<1>1. Runner = t /\ Runner' = t /\ a # "exited"
  BY RunnerIs
<1>2. Exited' = Exited
  BY <1>1, ExitedMoves
<1>3. control # "returned" /\ control' # "returned"
  BY DEF Move, Stays
<1> QED BY <1>1, <1>2, <1>3, SameBlocked, StutterTurns DEF SameQueues

\* A thread that exits.
LEMMA ExitTurns ==
  ASSUME TInv, PInv, Standing, Standing', NEW t \in Thread, NEW a, Move(t, a, "exited"),
         Leaves(3), SameQueues, waiting_queue' = waiting_queue
  PROVE  Turns!Next
<1>1. Runner = t /\ t # Idle /\ Runner' = Idle /\ a # "exited"
  BY RunnerIs
<1>2. Exited' = Exited \cup {t}
  BY <1>1, ExitedMoves
<1>3. control # "returned" /\ control' # "returned"
  BY DEF Move, Leaves
<1>4. Turns!Exit
  BY <1>1, <1>2, <1>3, SameBlocked DEF Turns!Exit, SameQueues
<1> QED BY <1>3, <1>4 DEF Turns!Next

-----------------------------------------------------------------------------
(* Sequences of blocked threads, as the Dispatcher takes them.             *)

LEMMA SomeBlocked ==
  ASSUME NEW s \in Seq(Blocked), Once(s), NEW n \in Nat, Len(s) <= n
  PROVE  s \in Turns!Some(n)
<1>1. s \in [1..Len(s) -> Blocked] /\ Len(s) \in 0..n /\ DOMAIN s = 1..Len(s)
  BY LenProperties
<1>2. s \in Turns!Injection(1..Len(s), Blocked)
  BY <1>1 DEF Turns!Injection, Turns!IsInjective, Once
<1> QED BY <1>1, <1>2 DEF Turns!Some

LEMMA RangeIs ==
  ASSUME NEW S, NEW s \in Seq(S)
  PROVE  \A x : x \in Turns!Range(s) <=> In(x, s)
BY LenProperties DEF Turns!Range, In

LEMMA NoneBlocked ==
  /\ << >> \in Turns!Some(1) /\ Turns!Range(<< >>) = {}
  /\ \A b \in Blocked : <<b>> \in Turns!Some(1) /\ Turns!Range(<<b>>) = {b}
<1>1. << >> \in Seq(Blocked) /\ Once(<< >>) /\ Len(<< >>) <= 1 /\ \A x : ~In(x, << >>)
  BY DEF Once, In
<1>2. ASSUME NEW b \in Blocked
      PROVE  /\ <<b>> \in Seq(Blocked) /\ Once(<<b>>) /\ Len(<<b>>) <= 1
             /\ \A x : In(x, <<b>>) <=> x = b
  BY DEF Once, In
<1>3. << >> \in Turns!Some(1) /\ Turns!Range(<< >>) = {}
  BY <1>1, SomeBlocked, RangeIs
<1>4. ASSUME NEW b \in Blocked
      PROVE  <<b>> \in Turns!Some(1) /\ Turns!Range(<<b>>) = {b}
  BY <1>2, SomeBlocked, RangeIs
<1> QED BY <1>3, <1>4

\* A thread that blocks after waking w, somebody or nobody.
LEMMA BlockTurns ==
  ASSUME TInv, PInv, NEW t \in Thread, NEW a, NEW b, Move(t, a, b), b # "exited",
         NEW s \in {2, 3, 4, 5}, Leaves(s), NEW w \in Turns!Some(1),
         ready_queue' = ready_queue \o w, Blocked' = (Blocked \ Turns!Range(w)) \cup {t}
  PROVE  Turns!Next
<1>1. Runner = t /\ t # Idle /\ Runner' = Idle /\ a # "exited"
  BY RunnerIs
<1>2. Exited' = Exited
  BY <1>1, ExitedMoves
<1>3. control # "returned" /\ control' # "returned"
  BY DEF Move, Leaves
<1>4. Turns!Block(w)
  BY <1>1, <1>2, <1>3 DEF Turns!Block
<1> QED BY <1>3, <1>4 DEF Turns!Next

-----------------------------------------------------------------------------
(* The steps of threads.                                                   *)

\* Counting: a turn of the loop, or the last one and thread_exit.
LEMMA CountTurns ==
  ASSUME TInv, PInv, Standing, Standing', NEW t \in Thread, Count(t)
  PROVE  [Turns!Next]_Turns!vars
<1>1. SameQueues /\ waiting_queue' = waiting_queue
  BY CountDoes
<1>2. PICK a \in {"start", "loop"}, b \in {"loop", "exited"} :
             Move(t, a, b) /\ (b = "loop" => Stays) /\ (b = "exited" => Leaves(3))
  BY CountDoes
<1>3. CASE b = "loop"
  <2>1. UNCHANGED Turns!vars
    BY <1>1, <1>2, <1>3, StaysTurns
  <2> QED BY <2>1
<1>4. CASE b = "exited"
  <2>1. Turns!Next
    BY <1>1, <1>2, <1>4, ExitTurns
  <2> QED BY <2>1
<1> QED BY <1>2, <1>3, <1>4

\* Going to sleep: the thread blocks and wakes nobody.
LEMMA SleepTurns ==
  ASSUME TInv, PInv, Standing, Standing', NEW t \in Thread, GoToSleep(t)
  PROVE  Turns!Next
<1>1. /\ Move(t, "start", "start") /\ Leaves(2)
      /\ sleeping' = sleeping \cup {t} /\ ready_queue' = ready_queue
      /\ waiting_queue' = waiting_queue
  BY SleepDoes
<1>2. \A u : Lines(u)' <=> Lines(u)
  BY <1>1, SameLines
<1>3. Blocked' = (Blocked \ Turns!Range(<< >>)) \cup {t}
  BY <1>1, <1>2, NoneBlocked DEF Standing
<1>4. ready_queue' = ready_queue \o << >>
  BY <1>1, Types, ConcatEmptySeq
<1> QED BY <1>1, <1>3, <1>4, NoneBlocked, BlockTurns

\* What thread_awake(b) does to the ready queue and the sleepers, as a
\* sequence w of blocked threads.
LEMMA AwakeTurns ==
  ASSUME TInv, PInv, Standing, NEW b, Awake(b)
  PROVE  \/ /\ b \in sleeping /\ b \in Blocked /\ ~Lines(b)
            /\ ready_queue' = Append(ready_queue, b) /\ ready_queue' = ready_queue \o <<b>>
            /\ sleeping' = sleeping \ {b}
         \/ ready_queue' = ready_queue /\ sleeping' = sleeping
<1>1. sleeping \subseteq Thread /\ ready_queue \in Seq(Thread)
  BY Types
<1>2. CASE b \in sleeping
  <2>1. b \in Thread /\ b \in Blocked /\ ~Lines(b)
    BY <1>1, <1>2, InMeans DEF OnePlace, Standing
  <2>2. Append(ready_queue, b) = ready_queue \o <<b>>
    BY <1>1, <2>1, AppendIsConcat
  <2> QED BY <1>2, <2>1, <2>2 DEF Awake
<1>3. CASE b \notin sleeping
  BY <1>3 DEF Awake
<1> QED BY <1>2, <1>3

\* Taking the read lock, and waking a friend before: the friend becomes ready.
LEMMA AcquireReadTurns ==
  ASSUME TInv, PInv, Standing, Standing', NEW t \in Thread, AcquireRead(t)
  PROVE  [Turns!Next]_Turns!vars
<1> DEFINE b == program[t].b
<1>1. /\ Move(t, "start", "reading") /\ Stays /\ Awake(b)
      /\ waiting_queue' = waiting_queue
  BY AcquireReadDoes
<1> HIDE DEF b
<1>2. Runner = t /\ t # Idle /\ Runner' = t
  BY <1>1, RunnerIs
<1>3. Exited' = Exited
  BY <1>1, ExitedMoves
<1>4. control # "returned" /\ control' # "returned"
  BY <1>1 DEF Move, Stays
<1>5. \A u : Lines(u)' <=> Lines(u)
  BY <1>1, SameLines
<1>6. CASE ready_queue' = ready_queue /\ sleeping' = sleeping
  <2>1. UNCHANGED Turns!vars
    BY <1>1, <1>6, StaysTurns DEF SameQueues
  <2> QED BY <2>1
<1>7. CASE /\ b \in sleeping /\ b \in Blocked /\ ~Lines(b)
           /\ ready_queue' = Append(ready_queue, b) /\ sleeping' = sleeping \ {b}
  <2>1. Blocked' = Blocked \ {b}
    BY <1>5, <1>7 DEF Standing
  <2>2. Turns!Wake(b)
    BY <1>2, <1>3, <1>4, <1>7, <2>1 DEF Turns!Wake
  <2>3. Turns!Next
    BY <1>4, <1>7, <2>2 DEF Turns!Next
  <2> QED BY <2>3
<1> QED BY <1>1, <1>6, <1>7, AwakeTurns

\* Waiting for the read lock, after waking a friend: the thread blocks.
LEMMA WaitReadTurns ==
  ASSUME Roomy, TInv, PInv, Standing, Standing', NEW t \in Thread, WaitRead(t)
  PROVE  Turns!Next
<1> DEFINE b == program[t].b
<1>1. /\ Move(t, "start", "granted_read") /\ Leaves(4) /\ Awake(b) /\ WaitIn(t)
  BY WaitReadDoes
<1> HIDE DEF b
<1>2. t \notin sleeping /\ ~Lines(t)
  BY <1>1, Running DEF Move
<1>3. \A u : Lines(u)' <=> Lines(u) \/ u = t
  BY <1>1, <1>2, JoinsWaiting
<1>4. CASE ready_queue' = ready_queue /\ sleeping' = sleeping
  <2>1. Blocked' = (Blocked \ Turns!Range(<< >>)) \cup {t}
    BY <1>3, <1>4, NoneBlocked DEF Standing
  <2>2. ready_queue' = ready_queue \o << >>
    BY <1>4, Types, ConcatEmptySeq
  <2> QED BY <1>1, <2>1, <2>2, NoneBlocked, BlockTurns
<1>5. CASE /\ b \in sleeping /\ b \in Blocked /\ ~Lines(b)
           /\ ready_queue' = ready_queue \o <<b>> /\ sleeping' = sleeping \ {b}
  <2>1. Blocked' = (Blocked \ Turns!Range(<<b>>)) \cup {t}
    BY <1>2, <1>3, <1>5, NoneBlocked DEF Standing
  <2> QED BY <1>1, <1>5, <2>1, NoneBlocked, BlockTurns
<1> QED BY <1>1, <1>4, <1>5, AwakeTurns

\* Waiting for the write lock: the thread blocks and wakes nobody.
LEMMA WaitWriteTurns ==
  ASSUME Roomy, TInv, PInv, Standing, Standing', NEW t \in Thread, WaitWrite(t)
  PROVE  Turns!Next
<1>1. Move(t, "computed", "granted_write") /\ Leaves(5) /\ SameQueues /\ WaitIn(t)
  BY WaitWriteDoes
<1>2. t \notin sleeping /\ ~Lines(t)
  BY <1>1, Running DEF Move
<1>3. \A u : Lines(u)' <=> Lines(u) \/ u = t
  BY <1>1, <1>2, JoinsWaiting
<1>4. Blocked' = (Blocked \ Turns!Range(<< >>)) \cup {t}
  BY <1>1, <1>3, NoneBlocked DEF Standing, SameQueues
<1>5. ready_queue' = ready_queue \o << >>
  BY <1>1, Types, ConcatEmptySeq DEF SameQueues
<1> QED BY <1>1, <1>4, <1>5, NoneBlocked, BlockTurns

\* Every step of a thread.
LEMMA StepTurns ==
  ASSUME Roomy, TInv, PInv, Standing, Standing', NEW t \in Thread, Step(t)
  PROVE  [Turns!Next]_Turns!vars
<1>1. CASE Count(t)
  BY <1>1, CountTurns
<1>2. CASE GoToSleep(t)
  BY <1>2, SleepTurns
<1>3. CASE AcquireRead(t)
  BY <1>3, AcquireReadTurns
<1>4. CASE WaitRead(t)
  BY <1>4, WaitReadTurns
<1>5. CASE ResumeRead(t)
  <2>1. UNCHANGED Turns!vars
    BY <1>5, ResumeReadDoes, StaysTurns
  <2> QED BY <2>1
<1>6. CASE ReleaseRead(t)
  <2>1. UNCHANGED Turns!vars
    BY <1>6, ReleaseReadDoes, StaysTurns
  <2> QED BY <2>1
<1>7. CASE AcquireWrite(t)
  <2>1. UNCHANGED Turns!vars
    BY <1>7, AcquireWriteDoes, StaysTurns
  <2> QED BY <2>1
<1>8. CASE WaitWrite(t)
  BY <1>8, WaitWriteTurns
<1>9. CASE ResumeWrite(t)
  <2>1. UNCHANGED Turns!vars
    BY <1>9, ResumeWriteDoes, StaysTurns
  <2> QED BY <2>1
<1>10. CASE ReleaseWrite(t)
  <2>1. Turns!Next
    BY <1>10, ReleaseWriteDoes, ExitTurns
  <2> QED BY <2>1
<1> QED BY <1>1, <1>2, <1>3, <1>4, <1>5, <1>6, <1>7, <1>8, <1>9, <1>10 DEF Step

\* The idle thread.
LEMMA IdleTurns ==
  ASSUME TInv, PInv, Standing, Standing', IdleRun
  PROVE  UNCHANGED Turns!vars
<1>1. /\ control = "thread" /\ current = Idle /\ current' = Idle
      /\ Unmoved /\ Stays /\ SameQueues /\ waiting_queue' = waiting_queue
  BY IdleDoes
<1>2. Runner = Idle /\ Runner' = Idle
  BY <1>1 DEF Runner
<1>3. Exited' = Exited
  BY <1>1 DEF Unmoved, Exited
<1>4. control # "returned" /\ control' # "returned"
  BY <1>1 DEF Stays
<1> QED BY <1>1, <1>2, <1>3, <1>4, SameBlocked, StutterTurns DEF SameQueues

-----------------------------------------------------------------------------
(* A pass of the scheduler.                                                *)

\* Behind those that are ready come those a pass wakes and lets go on, some,
\* and then who ran: the queue is the one the Dispatcher forms.
LEMMA QueueIs ==
  ASSUME TInv, NEW woken, NEW let_go, Parts(woken, let_go), control = "scheduler"
  PROVE  /\ woken \o let_go \in Seq(Thread)
         /\ Requeued = IF Runner = Idle THEN << >> ELSE <<Runner>>
         /\ ready_queue \o woken \o let_go \o Requeued =
              ready_queue \o (woken \o let_go) \o (IF Runner = Idle THEN << >> ELSE <<Runner>>)
<1>1. ready_queue \in Seq(Thread) /\ woken \in Seq(Thread) /\ let_go \in Seq(Thread)
  BY Types DEF Parts
<1>2. woken \o let_go \in Seq(Thread)
  BY <1>1, ConcatProperties
<1>3. ready_queue \o woken \o let_go = ready_queue \o (woken \o let_go)
  BY <1>1, ConcatAssociative
<1>4. Requeued = IF Runner = Idle THEN << >> ELSE <<Runner>>
  <2>1. CASE status = 1
    <3>1. Runner = current
      BY <2>1 DEF Runner, InCharge
    <3> QED BY <2>1, <3>1 DEF Requeued
  <2>2. CASE status # 1
    <3>1. Runner = Idle
      BY <2>2 DEF Runner, InCharge
    <3> QED BY <2>2, <3>1 DEF Requeued
  <2> QED BY <2>1, <2>2
<1> QED BY <1>2, <1>3, <1>4

\* Those some are blocked, each is there once, and there are no more of them
\* than blocked threads.
LEMMA SomeIs ==
  ASSUME TInv, PInv, Standing, NEW woken, NEW let_go, Parts(woken, let_go)
  PROVE  /\ woken \o let_go \in Turns!Some(Cardinality(Blocked))
         /\ \A x \in Thread : x \in Turns!Range(woken \o let_go) <=> x \in Woken \/ LetGo(x)
<1> DEFINE some == woken \o let_go
<1>1. woken \in Seq(Thread) /\ let_go \in Seq(Thread) /\ some \in Seq(Thread)
  BY ConcatProperties DEF Parts
<1>2. \A t : In(t, woken) <=> t \in Woken
  BY DEF Parts, In
<1>3. \A t : In(t, let_go) <=> LetGo(t)
  <2>1. ASSUME NEW t, In(t, let_go)
        PROVE  LetGo(t)
    <3>1. PICK k \in 1..Len(let_go) : let_go[k] = t
      BY <2>1 DEF In
    <3> QED BY <3>1 DEF Parts, LetGo
  <2>2. ASSUME NEW t, LetGo(t)
        PROVE  In(t, let_go)
    <3>1. PICK n \in Granted : waiting_queue.arr[n] = t
      BY <2>2 DEF LetGo
    <3>2. PICK k \in 1..Len(let_go) : let_go[k] = waiting_queue.arr[n]
      BY DEF Parts
    <3> QED BY <3>1, <3>2 DEF In
  <2> QED BY <2>1, <2>2
<1>4. \A t : In(t, some) <=> t \in Woken \/ LetGo(t)
  BY <1>1, <1>2, <1>3, ConcatIn
<1>5. \A t \in Thread : t \in Woken \/ LetGo(t) => t \in Blocked
  BY DEF Standing, Woken, LetGo, Lines, Granted
<1>6. Once(some)
  <2>1. \A m, n \in Granted : waiting_queue.arr[m] = waiting_queue.arr[n] => m = n
    BY DEF PInv, Unwrapped, Granted
  <2>2. Once(woken) /\ Once(let_go)
    BY <2>1 DEF Parts, Once
  <2>3. \A t \in Thread : ~(t \in Woken /\ LetGo(t))
    BY InMeans DEF OnePlace, LetGo, Woken, Lines, Granted
  <2> QED BY <1>1, <1>2, <1>3, <2>2, <2>3, ConcatOnce
<1> HIDE DEF some
<1>7. some \in Seq(Blocked) /\ some \in [1..Len(some) -> Blocked]
  <2>1. \A k \in 1..Len(some) : some[k] \in Thread /\ In(some[k], some)
    BY <1>1, ElementOfSeq DEF In
  <2>2. \A k \in 1..Len(some) : some[k] \in Blocked
    BY <1>4, <1>5, <2>1
  <2>3. Len(some) \in Nat /\ some \in [1..Len(some) -> Thread]
    BY <1>1, LenProperties
  <2>4. some \in [1..Len(some) -> Blocked]
    BY <2>2, <2>3
  <2> QED BY <2>3, <2>4, IsASeq
<1>8. Len(some) <= Cardinality(Blocked) /\ Cardinality(Blocked) \in Nat
  <2>1. IsFiniteSet(Blocked) /\ Cardinality(Blocked) \in Nat
    BY HoldersFinite DEF Standing
  <2>2. some \in Injection(1..Len(some), Blocked)
    BY <1>6, <1>7 DEF Injection, IsInjective, Once
  <2>3. Cardinality(1..Len(some)) <= Cardinality(Blocked)
    BY <2>1, <2>2, FS_Injection
  <2>4. Cardinality(1..Len(some)) = Len(some)
    <3>1. Len(some) \in Nat
      BY <1>1, LenProperties
    <3>2. Cardinality(1..Len(some)) = IF 1 > Len(some) THEN 0 ELSE Len(some) - 1 + 1
      BY <3>1, FS_Interval
    <3> QED BY <3>1, <3>2
  <2> QED BY <2>1, <2>3, <2>4
<1>9. some \in Turns!Some(Cardinality(Blocked))
  BY <1>6, <1>7, <1>8, SomeBlocked
<1>10. \A x : x \in Turns!Range(some) <=> In(x, some)
  BY <1>1, RangeIs
<1> QED BY <1>4, <1>9, <1>10 DEF some

\* Nobody in the queue is asleep.
LEMMA QueueAwake ==
  ASSUME TInv, PInv, NEW woken, NEW let_go, Parts(woken, let_go), control = "scheduler"
  PROVE  LET queue == ready_queue \o woken \o let_go \o Requeued IN
         \A k \in 1..Len(queue) : queue[k] \notin sleeping \ Woken
<1> DEFINE queue == ready_queue \o woken \o let_go \o Requeued
<1>1. queue \in Seq(Thread)
  BY PassQueue
<1>2. \A t \in Thread : In(t, queue) => \/ In(t, ready_queue) \/ t \in Woken
                                        \/ LetGo(t) \/ t \in InCharge
  BY QueueHolds
<1> HIDE DEF queue
<1>3. ASSUME NEW k \in 1..Len(queue), queue[k] \in sleeping \ Woken
      PROVE  FALSE
  <2>1. PICK t \in Thread : t = queue[k] /\ In(t, queue)
    BY <1>1, ElementOfSeq DEF In
  <2>2. In(t, ready_queue) \/ LetGo(t) \/ t \in InCharge
    BY <1>2, <1>3, <2>1
  <2>3. LetGo(t) => Lines(t)
    BY DEF LetGo, Lines, Granted
  <2> QED BY <1>3, <2>1, <2>2, <2>3, InMeans DEF OnePlace
<1> QED BY <1>3 DEF queue

\* The Dispatcher counts as the scheduler does.
LEMMA SameCardinality == \A S : Turns!Cardinality(S) = Cardinality(S)
BY Zenon DEF Turns!Cardinality, Cardinality

\* A turn is a step.
LEMMA TurnIsNext ==
  ASSUME NEW s \in Turns!Some(Cardinality(Blocked)), Turns!Turn(s), control # "returned"
  PROVE  Turns!Next
BY SameCardinality DEF Turns!Next

\* A pass is a turn, or the return, or it starts the idle thread, which the
\* Dispatcher does not see.
LEMMA ScheduleTurns ==
  ASSUME TInv, PInv, CountsHaveHolders, Standing, Standing', Schedule
  PROVE  [Turns!Next]_Turns!vars
<1>1. PICK woken, let_go :
           /\ Parts(woken, let_go)
           /\ waiting_queue' = [waiting_queue EXCEPT
                                  !.head = (@ + Cardinality(Granted)) % THREAD_MAX]
           /\ Choose(ready_queue \o woken \o let_go \o Requeued, sleeping \ Woken)
  BY PassDoes
<1> DEFINE queue == ready_queue \o woken \o let_go \o Requeued
           some == woken \o let_go
<1>2. control = "scheduler" /\ status' = 0 /\ Unmoved /\ sleeping' = sleeping \ Woken
  BY ScheduleMovesNone
<1>3. queue \in Seq(Thread) /\ ready_queue \in Seq(Thread) /\ some \in Seq(Thread)
  BY <1>1, <1>2, PassQueue, QueueIs, Types
<1>4. /\ Requeued = IF Runner = Idle THEN << >> ELSE <<Runner>>
      /\ queue = ready_queue \o some \o (IF Runner = Idle THEN << >> ELSE <<Runner>>)
  BY <1>1, <1>2, QueueIs
<1>5. /\ some \in Turns!Some(Cardinality(Blocked))
      /\ \A x \in Thread : x \in Turns!Range(some) <=> x \in Woken \/ LetGo(x)
  BY <1>1, SomeIs
<1>6. \A k \in 1..Len(queue) : queue[k] \notin sleeping \ Woken
  BY <1>1, <1>2, QueueAwake
<1>7. Exited' = Exited
  BY <1>2 DEF Unmoved, Exited
<1>8. Blocked' = Blocked \ Turns!Range(some)
  <2>1. \A u : Lines(u)' <=> Lines(u) /\ ~LetGo(u)
    BY <1>1, <1>2, PassWaiting
  <2>2. ASSUME NEW u \in Thread
        PROVE  u \in Blocked' <=> u \in Blocked /\ u \notin Turns!Range(some)
    <3>1. u \in Blocked' <=> u \in sleeping \ Woken \/ (Lines(u) /\ ~LetGo(u))
      BY <1>2, <2>1 DEF Standing
    <3>2. u \in Blocked <=> u \in sleeping \/ Lines(u)
      BY DEF Standing
    <3>3. /\ u \in sleeping => ~Lines(u)
          /\ u \in Woken => u \in sleeping
          /\ LetGo(u) => Lines(u)
      BY InMeans DEF OnePlace, Woken, LetGo, Lines, Granted
    <3> QED BY <1>5, <3>1, <3>2, <3>3
  <2>3. Blocked \subseteq Thread /\ Blocked' \subseteq Thread
    BY DEF Standing
  <2> QED BY <2>2, <2>3
<1>9. /\ queue = << >> => /\ ready_queue' = << >> /\ current' = Idle
                          /\ control' = "returned" <=> sleeping \ Woken = {}
      /\ queue # << >> => /\ control' = "thread" /\ current' = queue[1]
                          /\ ready_queue' = SubSeq(queue, 2, Len(queue))
      /\ control' \in {"thread", "returned"}
  BY <1>1, <1>3, <1>6, ChooseDoes
<1>10. control' = "returned" => Exited' = Thread
  BY LastPass
<1> HIDE DEF queue, some
<1>11. Runner' = IF queue = << >> THEN Idle ELSE queue[1]
  BY <1>2, <1>9 DEF Runner, InCharge
<1>12. CASE queue # << >>
  <2>1. Turns!Turn(some)
    BY <1>2, <1>4, <1>7, <1>8, <1>9, <1>11, <1>12 DEF Turns!Turn
  <2>2. Turns!Next
    BY <1>2, <1>5, <2>1, TurnIsNext
  <2> QED BY <2>2
<1>13. CASE queue = << >>
  <2>1. ready_queue = << >> /\ some = << >> /\ Runner = Idle
    <3>1. ready_queue \o some \in Seq(Thread)
      BY <1>3, ConcatProperties
    <3>2. Runner # Idle => Len(queue) = Len(ready_queue \o some) + 1
      BY <1>4, <3>1, ConcatProperties
    <3>3. Runner = Idle
      BY <1>13, <3>1, <3>2, LenProperties
    <3>4. ready_queue \o some = << >>
      BY <1>4, <1>13, <3>1, <3>3, ConcatEmptySeq
    <3> QED BY <1>3, <3>3, <3>4, ConcatEmptySeq, ConcatProperties, EmptySeq
  <2>2. Turns!Range(some) = {}
    BY <2>1, NoneBlocked
  <2>3. /\ Runner' = Idle /\ ready_queue' = ready_queue /\ Blocked' = Blocked
    BY <1>8, <1>9, <1>11, <1>13, <2>1, <2>2
  <2>4. CASE control' = "returned"
    <3>1. Turns!Return
      BY <1>7, <1>10, <2>1, <2>3, <2>4 DEF Turns!Return
    <3>2. Turns!Next
      BY <1>2, <3>1 DEF Turns!Next
    <3> QED BY <3>2
  <2>5. CASE control' # "returned"
    <3>1. UNCHANGED Turns!vars
      BY <1>2, <1>7, <2>1, <2>3, <2>5, StutterTurns
    <3> QED BY <3>1
  <2> QED BY <2>4, <2>5
<1> QED BY <1>12, <1>13

-----------------------------------------------------------------------------
\* Initially all are ready and nobody is blocked.
LEMMA InitTurns == Init => Turns!Init
<1> SUFFICES ASSUME Init PROVE Turns!Init
  OBVIOUS
<1>1. TInv /\ PInv
  BY InitTypes, InitPlaces
<1>2. Standing
  BY <1>1, PlacesStand
<1>3. sleeping = {} /\ \A u \in Thread : ~Lines(u)
  <2>1. waiting_queue.head = 0 /\ waiting_queue.size = 0 /\ sleeping = {}
    BY DEF Init
  <2>2. Visible = {}
    BY <2>1 DEF Visible
  <2> QED BY <2>1, <2>2 DEF Lines
<1>4. Blocked = {}
  BY <1>2, <1>3 DEF Standing
<1>5. Exited = {}
  BY DEF Init, Exited
<1>6. Runner = Idle
  BY DEF Init, Runner, InCharge
<1>7. ready_queue = [k \in 1..Cardinality(Thread) |-> k] /\ control = "scheduler"
  BY DEF Init
<1>8. (control = "returned") = FALSE
  BY <1>7
<1> QED BY <1>4, <1>5, <1>6, <1>7, <1>8, SameCardinality, Zenon DEF Turns!Init

LEMMA NextTurns ==
  ASSUME Roomy
  PROVE  TInv /\ PInv /\ CountsHaveHolders /\ Standing /\ Standing' /\ [Next]_vars
           => [Turns!Next]_Turns!vars
<1> SUFFICES ASSUME TInv, PInv, CountsHaveHolders, Standing, Standing', [Next]_vars
             PROVE  [Turns!Next]_Turns!vars
  OBVIOUS
<1>1. CASE UNCHANGED vars
  <2>1. UNCHANGED Turns!vars
    BY <1>1 DEF vars, Turns!vars, Runner, InCharge, Blocked, Waiting, Exited
  <2> QED BY <2>1
<1>2. CASE Schedule
  BY <1>2, ScheduleTurns
<1>3. CASE IdleRun
  <2>1. UNCHANGED Turns!vars
    BY <1>3, IdleTurns
  <2> QED BY <2>1
<1>4. ASSUME NEW t \in Thread, Step(t)
      PROVE  [Turns!Next]_Turns!vars
  BY <1>4, StepTurns
<1> QED BY <1>1, <1>2, <1>3, <1>4 DEF Next

\* ImplementsDispatcher of the runs: for any number of threads that keeps the
\* waiting queue from wrapping and any programs, threads get the processor in
\* the order in which they became ready, whoever is woken or let go on comes
\* behind those, and nobody who is blocked or has exited runs.
THEOREM TurnsInOrder ==
  ASSUME Roomy
  PROVE  Spec => ImplementsDispatcher
<1>1. Init => Turns!Init
  BY InitTurns
<1>2. TInv /\ PInv /\ CountsHaveHolders /\ Standing /\ Standing' /\ [Next]_vars
        => [Turns!Next]_Turns!vars
  BY NextTurns
<1>3. TInv /\ PInv => Standing
  BY PlacesStand
<1>4. Spec => []TInv /\ []PInv /\ []CountsHaveHolders
  BY PlacesInvariance, TypesInvariance, CountsInvariance, PTL
<1> QED BY <1>1, <1>2, <1>3, <1>4, PTL DEF Spec, ImplementsDispatcher, Turns!Spec
=============================================================================
