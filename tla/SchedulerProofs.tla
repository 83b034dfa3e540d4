------------------------ MODULE SchedulerProofs ------------------------
(***************************************************************************)
(* Proofs about Scheduler, for any number of threads below THREAD_MAX and  *)
(* any command lines.                                                      *)
(***************************************************************************)
EXTENDS Scheduler, FiniteSetTheorems, SequenceTheorems, TLAPS

\* What the assumptions on the constants come to.
LEMMA Numbers ==
  /\ THREAD_MAX \in Nat /\ THREAD_MAX > 0 /\ time_slice \in Nat /\ time_slice >= 1
  /\ IsFiniteSet(Thread) /\ Cardinality(Thread) \in Nat
  /\ Cardinality(Thread) < THREAD_MAX
  /\ \A t \in Thread : t \in Int /\ t # Idle
<1>1. IsFiniteSet(Thread) /\ Cardinality(Thread) \in Nat
  BY ThreadAssumption, FS_CardinalityType
<1> QED BY <1>1, ThreadAssumption DEF Idle

-----------------------------------------------------------------------------
(* Types.                                                                  *)

Block == [pc : PC, waiting_for : {0, 4, 5}, sleeping_time : Int,
          keepgo : BOOLEAN, i : Nat, f_cur : Int, f_prev : Int]

\* TypeOK is not inductive: the scheduler makes ready what it finds in the
\* waiting queue, and a thread that yields must not have used up its slice.
TInv ==
  /\ TypeOK
  /\ control = "thread" => elapsed < time_slice /\ status = 0
  /\ \A k \in 0..(waiting_queue.size - 1) : waiting_queue.arr[k] \in Thread

\* TInv in the form the steps below use.
LEMMA Types ==
  ASSUME TInv
  PROVE  /\ program \in Programs /\ control \in {"thread", "scheduler", "returned"}
         /\ status \in 0..5 /\ current \in Thread \cup {Idle}
         /\ ready_queue \in Seq(Thread) /\ sleeping \subseteq Thread
         /\ waiting_queue.arr \in [0..(THREAD_MAX - 1) -> Thread \cup {Idle}]
         /\ waiting_queue.head \in 0..(THREAD_MAX - 1)
         /\ waiting_queue.size \in 0..(THREAD_MAX - 1)
         /\ read_count \in Nat /\ write_count \in {0, 1}
         /\ tcb \in [Thread -> Block]
         /\ elapsed \in 0..time_slice /\ frame \in Thread \cup {Idle}
         /\ choice \in [Thread -> {"none", "pj_class", "sw_class"}]
         /\ control = "thread" => elapsed < time_slice /\ status = 0
         /\ \A k \in 0..(waiting_queue.size - 1) : waiting_queue.arr[k] \in Thread
BY DEF TInv, TypeOK, Block

\* Initially every thread is ready and the waiting queue empty.
LEMMA InitTypes == Init => TInv
<1> SUFFICES ASSUME Init PROVE TInv
  OBVIOUS
<1>1. ready_queue \in Seq(Thread)
  <2>1. Cardinality(Thread) \in Nat /\ Thread = 1..Cardinality(Thread)
    BY Numbers, ThreadAssumption
  <2>2. [k \in 1..Cardinality(Thread) |-> k] \in Seq(1..Cardinality(Thread))
    BY <2>1
  <2> QED BY <2>1, <2>2 DEF Init
<1>2. tcb \in [Thread -> Block]
  <2>1. [pc |-> "start", waiting_for |-> 0, sleeping_time |-> 0, keepgo |-> FALSE,
         i |-> 0, f_cur |-> 0, f_prev |-> 0] \in Block
    BY DEF Block, PC
  <2> QED BY <2>1, Zenon DEF Init
<1>3. waiting_queue \in [arr : [0..(THREAD_MAX - 1) -> Thread \cup {Idle}],
                         head : 0..(THREAD_MAX - 1), size : 0..(THREAD_MAX - 1)]
  <2>1. 0 \in 0..(THREAD_MAX - 1)
    BY Numbers
  <2> QED BY <2>1 DEF Init
<1>4. waiting_queue.size = 0
  BY DEF Init
<1>5. elapsed \in 0..time_slice
  <2>1. time_slice \in Nat
    BY Numbers
  <2> QED BY <2>1 DEF Init
<1>6. choice \in [Thread -> {"none", "pj_class", "sw_class"}]
  BY DEF Init
<1>7. TypeOK
  BY <1>1, <1>2, <1>3, <1>5, <1>6 DEF Init, TypeOK, Block
<1> QED BY <1>4, <1>7 DEF Init, TInv

\* What concerns the slice alone.
LEMMA Slices ==
  ASSUME TInv
  PROVE  /\ time_slice \in Nat /\ time_slice >= 1
         /\ control \in {"thread", "scheduler", "returned"} /\ status \in 0..5
         /\ elapsed \in 0..time_slice
         /\ control = "thread" => elapsed < time_slice /\ status = 0
<1>1. time_slice \in Nat /\ time_slice >= 1
  BY Numbers
<1> QED BY <1>1 DEF TInv, TypeOK

\* A yield leaves a thread in its slice or takes it to the scheduler.
LEMMA YieldTypes ==
  ASSUME TInv, control = "thread", Yield
  PROVE  /\ control' \in {"thread", "scheduler"} /\ status' \in 0..5
         /\ elapsed' \in 0..time_slice
         /\ control' = "thread" => elapsed' < time_slice /\ status' = 0
<1>1. elapsed' = elapsed + 1 /\ elapsed' \in 0..time_slice
  BY Slices DEF Yield
<1>2. CASE Enter(1)
  BY <1>1, <1>2 DEF Enter
<1>3. CASE elapsed' < time_slice /\ UNCHANGED <<control, status>>
  BY <1>1, <1>3, Slices
<1> QED BY <1>2, <1>3 DEF Yield

\* The index behind k, in a ring of m.
LEMMA NextIndex ==
  ASSUME NEW m \in Nat, NEW k \in 0..(m - 1)
  PROVE  /\ (k + 1) % m \in 0..(m - 1)
         /\ (k + 1) % m = IF k + 1 < m THEN k + 1 ELSE 0
<1>1. CASE k + 1 < m
  BY <1>1
<1>2. CASE k + 1 = m
  BY <1>2
<1> QED BY <1>1, <1>2

\* Joining the waiting queue keeps its type.
LEMMA WaitTypes ==
  ASSUME TInv, NEW t \in Thread, WaitIn(t)
  PROVE  /\ waiting_queue' \in [arr : [0..(THREAD_MAX - 1) -> Thread \cup {Idle}],
                                head : 0..(THREAD_MAX - 1), size : 0..(THREAD_MAX - 1)]
         /\ \A k \in 0..(waiting_queue'.size - 1) : waiting_queue'.arr[k] \in Thread
         /\ waiting_queue'.head = waiting_queue.head
         /\ waiting_queue'.size = (waiting_queue.size + 1) % THREAD_MAX
         /\ waiting_queue'.arr = [waiting_queue.arr EXCEPT ![waiting_queue.size] = t]
<1> DEFINE w == waiting_queue
<1>1. /\ waiting_queue'.arr = [w.arr EXCEPT ![w.size] = t] /\ waiting_queue'.head = w.head
      /\ waiting_queue'.size = (w.size + 1) % THREAD_MAX
      /\ waiting_queue' = [arr |-> waiting_queue'.arr, head |-> waiting_queue'.head,
                           size |-> waiting_queue'.size]
  BY DEF WaitIn, TInv, TypeOK
<1>2. /\ (w.size + 1) % THREAD_MAX \in 0..(THREAD_MAX - 1)
      /\ (w.size + 1) % THREAD_MAX = w.size + 1 \/ (w.size + 1) % THREAD_MAX = 0
  <2>1. w.size \in 0..(THREAD_MAX - 1) /\ THREAD_MAX \in Nat
    BY Types, Numbers
  <2> QED BY <2>1, NextIndex
<1>3. waiting_queue'.arr \in [0..(THREAD_MAX - 1) -> Thread \cup {Idle}]
  BY <1>1, Types
<1>4. ASSUME NEW k \in 0..(waiting_queue'.size - 1)
      PROVE  waiting_queue'.arr[k] \in Thread
  <2>1. k \in 0..(THREAD_MAX - 1) /\ k \in 0..w.size
    <3>1. w.size \in 0..(THREAD_MAX - 1)
      BY Types
    <3>2. THREAD_MAX \in Nat
      BY Numbers
    <3> QED BY <1>1, <1>2, <3>1, <3>2
  <2>2. CASE k = w.size
    BY <1>1, <2>1, <2>2, Types
  <2>3. CASE k \in 0..(w.size - 1)
    BY <1>1, <2>1, <2>3, Types
  <2>4. w.size \in 0..(THREAD_MAX - 1)
    BY Types
  <2> QED BY <2>1, <2>2, <2>3, <2>4
<1> QED BY <1>1, <1>2, <1>3, <1>4, Types

\* Waking a friend keeps the types.
LEMMA AwakeTypes ==
  ASSUME TInv, NEW b, Awake(b)
  PROVE  /\ ready_queue' \in Seq(Thread) /\ sleeping' \subseteq Thread
         /\ Awakened(b, tcb) \in [Thread -> Block]
         /\ \A u \in Thread : /\ Awakened(b, tcb)[u].pc = tcb[u].pc
                              /\ Awakened(b, tcb)[u].waiting_for = tcb[u].waiting_for
                              /\ Awakened(b, tcb)[u].sleeping_time = tcb[u].sleeping_time
<1>1. CASE b \in sleeping
  <2>1. b \in Thread
    BY <1>1, Types
  <2>2. ready_queue' \in Seq(Thread)
    BY <1>1, <2>1, Types, AppendProperties DEF Awake
  <2>3. sleeping' \subseteq Thread
    BY Types DEF Awake
  <2>4. Awakened(b, tcb) = [tcb EXCEPT ![b].keepgo = TRUE]
    BY <1>1 DEF Awakened
  <2>5. tcb \in [Thread -> Block]
    BY Types
  <2>6. Awakened(b, tcb) \in [Thread -> Block]
    BY ZenonT(40), <2>1, <2>4, <2>5 DEF Block
  <2>7. \A u \in Thread : Awakened(b, tcb)[u] = IF u = b THEN [tcb[b] EXCEPT !.keepgo = TRUE] ELSE tcb[u]
    BY <2>1, <2>4, <2>5
  <2>8. tcb[b] \in Block
    BY <2>1, <2>5
  <2> QED BY ZenonT(40), <2>2, <2>3, <2>6, <2>7, <2>8 DEF Block
<1>2. CASE b \notin sleeping
  BY <1>2, Types DEF Awake, Awakened
<1> QED BY <1>1, <1>2

\* A control block stays one when these fields change.
LEMMA BlockPc == ASSUME NEW x \in Block, NEW a \in PC PROVE [x EXCEPT !.pc = a] \in Block
BY DEF Block

\* A block that waits is a block.
LEMMA BlockWait ==
  ASSUME NEW x \in Block, NEW a \in PC, NEW w \in {0, 4, 5}
  PROVE  [x EXCEPT !.pc = a, !.waiting_for = w] \in Block
BY DEF Block

\* A block that sleeps is a block.
LEMMA BlockSleep ==
  ASSUME NEW x \in Block, NEW s \in Int
  PROVE  [x EXCEPT !.sleeping_time = s] \in Block
BY DEF Block

\* A block that ages is a block.
LEMMA BlockAge ==
  ASSUME NEW x \in Block, NEW s \in Int, NEW g \in BOOLEAN
  PROVE  [x EXCEPT !.sleeping_time = s, !.keepgo = g] \in Block
BY DEF Block

\* A block with new numbers is a block.
LEMMA BlockNumbers ==
  ASSUME NEW x \in Block, NEW f \in Int, NEW g \in Int
  PROVE  [x EXCEPT !.f_cur = f, !.f_prev = g] \in Block
BY DEF Block

\* A block that has counted is a block.
LEMMA BlockCounted ==
  ASSUME NEW x \in Block, NEW i \in Nat, NEW a \in PC
  PROVE  [x EXCEPT !.i = i, !.pc = a] \in Block
BY DEF Block

\* The arguments an enroll takes.
LEMMA Programmed ==
  ASSUME TInv, NEW t \in Thread, program[t].routine = "enroll"
  PROVE  program[t].s \in Nat
<1>1. program[t] \in Routine
  BY Types, ProgramAssumption
<1>2. program[t] \notin [routine : {"fibonacci", "pm"}, n : Nat \ {0}]
  OBVIOUS
<1> QED BY <1>1, <1>2 DEF Routine

\* What a step of a thread changes is typed if these parts are.
LEMMA TypesAgain ==
  ASSUME TInv, program' = program, current' = current,
         control' \in {"thread", "scheduler"}, status' \in 0..5,
         ready_queue' \in Seq(Thread), sleeping' \subseteq Thread,
         waiting_queue' = waiting_queue \/ \E t \in Thread : WaitIn(t),
         read_count' \in Nat, write_count' \in {0, 1}, tcb' \in [Thread -> Block],
         elapsed' \in 0..time_slice, frame' \in Thread \cup {Idle},
         choice' \in [Thread -> {"none", "pj_class", "sw_class"}],
         control' = "thread" => elapsed' < time_slice /\ status' = 0
  PROVE  TInv'
<1>1. /\ waiting_queue' \in [arr : [0..(THREAD_MAX - 1) -> Thread \cup {Idle}],
                             head : 0..(THREAD_MAX - 1), size : 0..(THREAD_MAX - 1)]
      /\ \A k \in 0..(waiting_queue'.size - 1) : waiting_queue'.arr[k] \in Thread
  <2>1. CASE waiting_queue' = waiting_queue
    BY <2>1 DEF TInv, TypeOK
  <2>2. CASE \E t \in Thread : WaitIn(t)
    BY <2>2, WaitTypes
  <2> QED BY <2>1, <2>2
<1>2. TypeOK'
  BY <1>1, Types DEF TypeOK, Block
<1> QED BY <1>1, <1>2 DEF TInv

\* IdleRun keeps the types.
LEMMA IdleTypes == ASSUME TInv, IdleRun PROVE TInv'
<1>1. control = "thread" /\ Yield
  BY DEF IdleRun
<1> QED BY <1>1, YieldTypes, Types, TypesAgain DEF IdleRun

\* What fibonacci and pm compute are numbers.
LEMMA Computes ==
  ASSUME NEW x \in Block, NEW i \in Nat
  PROVE  FibonacciValues(x, i) \in Block /\ PmValues(x, i) \in Block
<1>1. x.f_cur \in Int /\ x.f_prev \in Int
  BY DEF Block
<1>2. \A f, g \in Int : [x EXCEPT !.f_cur = f, !.f_prev = g] \in Block
  BY BlockNumbers
<1>3. 1 \in Int /\ x.f_cur + x.f_prev \in Int /\ (IF i % 2 = 1 THEN i ELSE -i) + x.f_cur \in Int
  BY <1>1
<1>4. [x EXCEPT !.f_cur = 1, !.f_prev = 1] \in Block
  BY <1>2, <1>3, Zenon
<1>5. /\ [x EXCEPT !.f_cur = x.f_cur + x.f_prev, !.f_prev = x.f_cur] \in Block
      /\ [x EXCEPT !.f_cur = (IF i % 2 = 1 THEN i ELSE -i) + x.f_cur, !.f_prev = x.f_cur] \in Block
  BY <1>1, <1>2, <1>3, Zenon
<1> QED BY <1>4, <1>5, Zenon DEF FibonacciValues, PmValues

\* Count keeps the types.
LEMMA CountTypes == ASSUME TInv, NEW t \in Thread, Count(t) PROVE TInv'
<1> DEFINE x == tcb[t]
           y == IF program[t].routine = "fibonacci" THEN FibonacciValues(x, x.i + 1)
                                                    ELSE PmValues(x, x.i + 1)
           last == x.i + 1 = program[t].n
           z == [y EXCEPT !.i = x.i + 1, !.pc = IF last THEN "exited" ELSE "loop"]
<1>1. /\ control = "thread" /\ program' = program /\ current' = current
      /\ tcb' = [tcb EXCEPT ![t] = z]
      /\ \/ Enter(3) /\ elapsed' = elapsed /\ frame' = frame
         \/ Yield /\ frame' \in {frame, Idle}
      /\ UNCHANGED <<ready_queue, waiting_queue, sleeping, read_count, write_count, choice>>
  BY DEF Count, Runs
<1>2. x \in Block
  BY Types
<1>3. x.i + 1 \in Nat
  BY <1>2 DEF Block
<1>4. y \in Block
  BY <1>2, <1>3, Computes
<1>5. z \in Block
  <2> HIDE DEF y
  <2>1. (IF last THEN "exited" ELSE "loop") \in PC
    BY DEF PC
  <2> QED BY <1>3, <1>4, <2>1, BlockCounted
<1>6. tcb' \in [Thread -> Block]
  <2> HIDE DEF z
  <2> QED BY <1>1, <1>5, Types
<1>7. CASE Enter(3) /\ elapsed' = elapsed /\ frame' = frame
  BY <1>1, <1>6, <1>7, Types, TypesAgain DEF Enter
<1>8. CASE Yield /\ frame' \in {frame, Idle}
  BY <1>1, <1>6, <1>8, YieldTypes, Types, TypesAgain
<1> QED BY <1>1, <1>7, <1>8

\* GoToSleep keeps the types.
LEMMA SleepTypes == ASSUME TInv, NEW t \in Thread, GoToSleep(t) PROVE TInv'
<1>1. program[t].s + time_slice \in Int
  BY Programmed, Numbers DEF GoToSleep, Runs
<1>2. tcb' \in [Thread -> Block]
  <2>1. [tcb[t] EXCEPT !.sleeping_time = program[t].s + time_slice] \in Block
    BY <1>1, Types, BlockSleep
  <2> QED BY <2>1, Types DEF GoToSleep
<1>3. /\ control' = "scheduler" /\ status' = 2 /\ sleeping' \subseteq Thread
      /\ UNCHANGED <<program, current, ready_queue, waiting_queue, read_count, write_count, elapsed,
                     frame, choice>>
  BY Types DEF GoToSleep, Enter
<1> QED BY <1>2, <1>3, Types, TypesAgain

\* AcquireRead keeps the types.
LEMMA AcquireReadTypes == ASSUME TInv, NEW t \in Thread, AcquireRead(t) PROVE TInv'
<1>1. /\ control = "thread" /\ Yield /\ Awake(program[t].b) /\ read_count' = read_count + 1
      /\ tcb' = [Awakened(program[t].b, tcb) EXCEPT ![t].pc = "reading"]
      /\ UNCHANGED <<program, current, waiting_queue, write_count, frame, choice>>
  BY DEF AcquireRead, Runs
<1>2. ready_queue' \in Seq(Thread) /\ sleeping' \subseteq Thread
  BY <1>1, AwakeTypes
<1>3. tcb' \in [Thread -> Block]
  <2>1. [Awakened(program[t].b, tcb)[t] EXCEPT !.pc = "reading"] \in Block
    BY <1>1, AwakeTypes, BlockPc DEF PC
  <2> QED BY <1>1, <2>1, AwakeTypes
<1>4. read_count' \in Nat
  BY <1>1, Types
<1> QED BY <1>1, <1>2, <1>3, <1>4, YieldTypes, Types, TypesAgain

\* WaitRead keeps the types.
LEMMA WaitReadTypes == ASSUME TInv, NEW t \in Thread, WaitRead(t) PROVE TInv'
<1>1. /\ control' = "scheduler" /\ status' = 4 /\ Awake(program[t].b) /\ WaitIn(t)
      /\ tcb' = [Awakened(program[t].b, tcb) EXCEPT ![t].pc = "granted_read", ![t].waiting_for = 4]
      /\ UNCHANGED <<program, current, read_count, write_count, elapsed, frame, choice>>
  BY DEF WaitRead, Enter
<1>2. ready_queue' \in Seq(Thread) /\ sleeping' \subseteq Thread
  BY <1>1, AwakeTypes
<1>3. tcb' \in [Thread -> Block]
  <2>1. [Awakened(program[t].b, tcb)[t] EXCEPT !.pc = "granted_read", !.waiting_for = 4] \in Block
    BY <1>1, AwakeTypes, BlockWait DEF PC
  <2> QED BY <1>1, <2>1, AwakeTypes
<1> QED BY <1>1, <1>2, <1>3, Types, TypesAgain

\* The steps that set t's pc and yield.
LEMMA PcTypes ==
  ASSUME TInv, NEW t \in Thread, NEW a \in PC, tcb' = [tcb EXCEPT ![t].pc = a]
  PROVE  tcb' \in [Thread -> Block]
<1>1. [tcb[t] EXCEPT !.pc = a] \in Block
  BY Types, BlockPc
<1> QED BY <1>1, Types

\* ResumeRead keeps the types.
LEMMA ResumeReadTypes == ASSUME TInv, NEW t \in Thread, ResumeRead(t) PROVE TInv'
<1>1. /\ control = "thread" /\ Yield /\ tcb' = [tcb EXCEPT ![t].pc = "reading"]
      /\ UNCHANGED <<program, current, ready_queue, waiting_queue, sleeping, read_count,
                     write_count, frame, choice>>
  BY DEF ResumeRead, Runs
<1>2. tcb' \in [Thread -> Block]
  BY <1>1, PcTypes DEF PC
<1> QED BY <1>1, <1>2, YieldTypes, Types, TypesAgain

\* ReleaseRead keeps the types.
LEMMA ReleaseReadTypes == ASSUME TInv, NEW t \in Thread, ReleaseRead(t) PROVE TInv'
<1>1. /\ control = "thread" /\ Yield /\ tcb' = [tcb EXCEPT ![t].pc = "computed"]
      /\ read_count' = IF read_count > 0 THEN read_count - 1 ELSE read_count
      /\ frame' = t
      /\ UNCHANGED <<program, current, ready_queue, waiting_queue, sleeping, write_count, choice>>
  BY DEF ReleaseRead, Runs
<1>2. tcb' \in [Thread -> Block]
  BY <1>1, PcTypes DEF PC
<1>3. read_count' \in Nat
  BY <1>1, Types
<1> QED BY <1>1, <1>2, <1>3, YieldTypes, Types, TypesAgain

\* An enroll prints a class.
LEMMA ChoiceTypes ==
  ASSUME TInv, NEW t \in Thread, choice' = [choice EXCEPT ![t] = Preferred(frame)]
  PROVE  choice' \in [Thread -> {"none", "pj_class", "sw_class"}]
<1>1. Preferred(frame) \in {"none", "pj_class", "sw_class"}
  BY DEF Preferred
<1> QED BY <1>1, Types

\* AcquireWrite keeps the types.
LEMMA AcquireWriteTypes == ASSUME TInv, NEW t \in Thread, AcquireWrite(t) PROVE TInv'
<1>1. /\ control = "thread" /\ Yield /\ tcb' = [tcb EXCEPT ![t].pc = "writing"]
      /\ write_count' = 1 /\ choice' = [choice EXCEPT ![t] = Preferred(frame)]
      /\ UNCHANGED <<program, current, ready_queue, waiting_queue, sleeping, read_count, frame>>
  BY DEF AcquireWrite, Runs
<1>2. tcb' \in [Thread -> Block]
  BY <1>1, PcTypes DEF PC
<1> QED BY <1>1, <1>2, ChoiceTypes, YieldTypes, Types, TypesAgain

\* WaitWrite keeps the types.
LEMMA WaitWriteTypes == ASSUME TInv, NEW t \in Thread, WaitWrite(t) PROVE TInv'
<1>1. /\ control' = "scheduler" /\ status' = 5 /\ WaitIn(t)
      /\ tcb' = [tcb EXCEPT ![t].pc = "granted_write", ![t].waiting_for = 5]
      /\ UNCHANGED <<program, current, ready_queue, sleeping, read_count, write_count, elapsed,
                     frame, choice>>
  BY DEF WaitWrite, Enter
<1>2. tcb' \in [Thread -> Block]
  <2>1. [tcb[t] EXCEPT !.pc = "granted_write", !.waiting_for = 5] \in Block
    BY Types, BlockWait DEF PC
  <2> QED BY <1>1, <2>1, Types
<1> QED BY <1>1, <1>2, Types, TypesAgain

\* ResumeWrite keeps the types.
LEMMA ResumeWriteTypes == ASSUME TInv, NEW t \in Thread, ResumeWrite(t) PROVE TInv'
<1>1. /\ control = "thread" /\ Yield /\ tcb' = [tcb EXCEPT ![t].pc = "writing"]
      /\ choice' = [choice EXCEPT ![t] = Preferred(frame)]
      /\ UNCHANGED <<program, current, ready_queue, waiting_queue, sleeping, read_count,
                     write_count, frame>>
  BY DEF ResumeWrite, Runs
<1>2. tcb' \in [Thread -> Block]
  BY <1>1, PcTypes DEF PC
<1> QED BY <1>1, <1>2, ChoiceTypes, YieldTypes, Types, TypesAgain

\* ReleaseWrite keeps the types.
LEMMA ReleaseWriteTypes == ASSUME TInv, NEW t \in Thread, ReleaseWrite(t) PROVE TInv'
<1>1. /\ control' = "scheduler" /\ status' = 3 /\ tcb' = [tcb EXCEPT ![t].pc = "exited"]
      /\ write_count' = IF write_count = 1 THEN 0 ELSE write_count
      /\ UNCHANGED <<program, current, ready_queue, waiting_queue, sleeping, read_count, elapsed,
                     frame, choice>>
  BY DEF ReleaseWrite, Enter
<1>2. tcb' \in [Thread -> Block]
  BY <1>1, PcTypes DEF PC
<1> QED BY <1>1, <1>2, Types, TypesAgain

-----------------------------------------------------------------------------
(* One pass of the scheduler.                                              *)

\* The choice is among queue's threads; if all of them are awake, the first.
LEMMA ChooseDoes ==
  ASSUME NEW queue \in Seq(Thread), NEW asleep, Choose(queue, asleep)
  PROVE  /\ ready_queue' \in Seq(Thread) /\ current' \in Thread \cup {Idle}
         /\ control' \in {"thread", "returned"}
         /\ queue = << >> => /\ ready_queue' = << >> /\ current' = Idle
                             /\ control' = "returned" <=> asleep = {}
         /\ queue # << >> /\ (\A k \in 1..Len(queue) : queue[k] \notin asleep) =>
              /\ control' = "thread" /\ current' = queue[1]
              /\ ready_queue' = SubSeq(queue, 2, Len(queue))
         /\ control' = "returned" => queue = << >> /\ asleep = {}
         /\ current' = Idle /\ control' = "thread" => ready_queue' = << >> /\ asleep # {}
<1> DEFINE awake == {k \in DOMAIN queue : queue[k] \notin asleep}
<1>1. DOMAIN queue = 1..Len(queue) /\ Len(queue) \in Nat
  BY LenProperties
<1>2. queue = << >> <=> Len(queue) = 0
  BY EmptySeq
<1>3. CASE queue = << >> /\ asleep = {}
  BY <1>1, <1>2, <1>3 DEF Choose
<1>4. CASE ~(queue = << >> /\ asleep = {}) /\ awake = {}
  <2>1. current' = Idle /\ control' = "thread" /\ ready_queue' = << >>
    BY <1>4 DEF Choose, Dispatch
  <2>2. queue # << >> => 1 \in DOMAIN queue
    BY <1>1, <1>2
  <2>3. asleep # {}
    BY <1>4, <2>2
  <2> QED BY <1>1, <1>4, <2>1, <2>2, <2>3
<1>5. CASE ~(queue = << >> /\ asleep = {}) /\ awake # {}
  <2>1. PICK k \in awake : /\ \A j \in awake : k <= j
                           /\ current' = queue[k] /\ control' = "thread"
                           /\ ready_queue' = SubSeq(queue, k + 1, Len(queue))
    BY <1>5 DEF Choose, Dispatch
  <2>2. k \in 1..Len(queue) /\ queue # << >>
    BY <1>1, <1>2
  <2>3. queue[k] \in Thread /\ queue[k] # Idle
    BY <2>2, ElementOfSeq, Numbers
  <2>4. ready_queue' \in Seq(Thread)
    BY <1>1, <2>1, <2>2, SubSeqProperties
  <2>5. ASSUME \A j \in 1..Len(queue) : queue[j] \notin asleep
        PROVE  k = 1
    <3>1. 1 \in awake
      BY <1>1, <2>2, <2>5
    <3> QED BY <2>1, <2>2, <3>1
  <2> QED BY <2>1, <2>2, <2>3, <2>4, <2>5
<1> QED BY <1>3, <1>4, <1>5

\* What Ascending gives for a finite set.
LEMMA AscendingDoes ==
  ASSUME NEW S \in SUBSET Int, IsFiniteSet(S), NEW s \in Ascending(S)
  PROVE  /\ s \in Seq(S) /\ Len(s) = Cardinality(S) /\ Cardinality(S) \in Nat
         /\ DOMAIN s = 1..Len(s)
         /\ \A k \in 1..Len(s) : s[k] \in S
         /\ \A n \in S : \E k \in 1..Len(s) : s[k] = n
         /\ \A j, k \in 1..Len(s) : s[j] = s[k] => j = k
<1>1. /\ s \in [1..Cardinality(S) -> S]
      /\ \A n \in S : \E k \in DOMAIN s : s[k] = n
      /\ \A j, k \in DOMAIN s : j < k => s[j] < s[k]
  BY DEF Ascending
<1>2. Cardinality(S) \in Nat
  BY FS_CardinalityType
<1>3. s \in Seq(S) /\ DOMAIN s = 1..Cardinality(S) /\ Len(s) = Cardinality(S)
  BY <1>1, <1>2
<1>4. ASSUME NEW j \in 1..Len(s), NEW k \in 1..Len(s), s[j] = s[k]
      PROVE  j = k
  <2>1. s[j] \in Int /\ s[k] \in Int
    BY <1>1, <1>3
  <2>2. ~(j < k) /\ ~(k < j)
    BY <1>1, <1>3, <1>4, <2>1
  <2> QED BY <1>2, <1>3, <2>2
<1> QED BY <1>1, <1>2, <1>3, <1>4

\* The sleepers that wake and the waiters that are let go on are finitely many.
LEMMA PassFinite ==
  ASSUME TInv
  PROVE  /\ Woken \in SUBSET Int /\ IsFiniteSet(Woken) /\ Woken \subseteq Thread
         /\ Granted \in SUBSET Int /\ IsFiniteSet(Granted) /\ Granted \subseteq Visible
         /\ IsFiniteSet(Visible)
         /\ \A k \in Visible : k \in 0..(waiting_queue.size - 1) /\ waiting_queue.arr[k] \in Thread
<1>1. Woken \subseteq Thread /\ Thread \subseteq Int
  BY Types, Numbers DEF Woken
<1>2. waiting_queue.head \in Int /\ waiting_queue.size \in Int /\ waiting_queue.head >= 0
  <2>1. THREAD_MAX \in Nat
    BY Numbers
  <2> QED BY <2>1, Types
<1>3. IsFiniteSet(Visible) /\ Visible \subseteq Int
  BY SMTT(30), <1>2, FS_Interval DEF Visible
<1>4. \A k \in Visible : k \in 0..(waiting_queue.size - 1)
  BY <1>2 DEF Visible
<1>5. Granted \subseteq Visible
  BY DEF Granted
<1> QED BY <1>1, <1>3, <1>4, <1>5, Types, Numbers, FS_Subset

\* The parts of the queue the scheduler chooses from, in order.
Parts(woken, let_go) ==
  /\ woken \in Seq(Thread)
  /\ \A k \in 1..Len(woken) : woken[k] \in Woken
  /\ \A t \in Woken : \E k \in 1..Len(woken) : woken[k] = t
  /\ \A j, k \in 1..Len(woken) : woken[j] = woken[k] => j = k
  /\ let_go \in Seq(Thread) /\ Len(let_go) = Cardinality(Granted)
  /\ \A k \in 1..Len(let_go) : \E n \in Granted : let_go[k] = waiting_queue.arr[n]
  /\ \A n \in Granted : \E k \in 1..Len(let_go) : let_go[k] = waiting_queue.arr[n]
  /\ (\A m, n \in Granted : waiting_queue.arr[m] = waiting_queue.arr[n] => m = n) =>
       \A j, k \in 1..Len(let_go) : let_go[j] = let_go[k] => j = k

\* What a pass appends to the ready queue, and how far head goes.
LEMMA PassDoes ==
  ASSUME TInv, Schedule
  PROVE  \E woken, let_go :
           /\ Parts(woken, let_go)
           /\ waiting_queue' = [waiting_queue EXCEPT
                                  !.head = (@ + Cardinality(Granted)) % THREAD_MAX]
           /\ Choose(ready_queue \o woken \o let_go \o Requeued, sleeping \ Woken)
<1>1. PICK woken \in Ascending(Woken), granted \in Ascending(Granted) :
         /\ waiting_queue' = [waiting_queue EXCEPT !.head = (@ + Len(granted)) % THREAD_MAX]
         /\ Choose(ready_queue \o woken \o [k \in DOMAIN granted |-> waiting_queue.arr[granted[k]]]
                     \o Requeued, sleeping \ Woken)
  BY DEF Schedule
<1> DEFINE let_go == [k \in DOMAIN granted |-> waiting_queue.arr[granted[k]]]
<1>2. /\ woken \in Seq(Woken) /\ Woken \subseteq Thread
      /\ \A k \in 1..Len(woken) : woken[k] \in Woken
      /\ \A t \in Woken : \E k \in 1..Len(woken) : woken[k] = t
      /\ \A j, k \in 1..Len(woken) : woken[j] = woken[k] => j = k
  BY PassFinite, AscendingDoes
<1>3. /\ DOMAIN granted = 1..Cardinality(Granted) /\ Len(granted) = Cardinality(Granted)
      /\ Cardinality(Granted) \in Nat
      /\ \A k \in 1..Cardinality(Granted) : granted[k] \in Granted
      /\ \A n \in Granted : \E k \in 1..Cardinality(Granted) : granted[k] = n
      /\ \A j, k \in 1..Cardinality(Granted) : granted[j] = granted[k] => j = k
  BY PassFinite, AscendingDoes
<1>4. \A n \in Granted : waiting_queue.arr[n] \in Thread
  BY PassFinite
<1>5. /\ let_go \in Seq(Thread) /\ Len(let_go) = Cardinality(Granted)
      /\ \A k \in 1..Cardinality(Granted) : let_go[k] = waiting_queue.arr[granted[k]]
  BY <1>3, <1>4
<1> HIDE DEF let_go
<1>6. woken \in Seq(Thread)
  BY <1>2
<1>7. Parts(woken, let_go)
  <2>1. \A k \in 1..Len(let_go) : \E n \in Granted : let_go[k] = waiting_queue.arr[n]
    BY <1>3, <1>5
  <2>2. \A n \in Granted : \E k \in 1..Len(let_go) : let_go[k] = waiting_queue.arr[n]
    BY <1>3, <1>5
  <2>3. ASSUME \A m, n \in Granted : waiting_queue.arr[m] = waiting_queue.arr[n] => m = n,
               NEW j \in 1..Len(let_go), NEW k \in 1..Len(let_go), let_go[j] = let_go[k]
        PROVE  j = k
    <3>1. granted[j] \in Granted /\ granted[k] \in Granted
      BY <1>3, <1>5
    <3>2. granted[j] = granted[k]
      BY <1>5, <2>3, <3>1
    <3> QED BY <1>3, <1>5, <3>2
  <2> QED BY <1>2, <1>5, <1>6, <2>1, <2>2, <2>3 DEF Parts
<1> QED BY <1>1, <1>3, <1>7 DEF let_go

\* The queue the scheduler chooses from holds threads.
LEMMA PassQueue ==
  ASSUME TInv, NEW woken, NEW let_go, Parts(woken, let_go)
  PROVE  /\ ready_queue \o woken \in Seq(Thread)
         /\ ready_queue \o woken \o let_go \in Seq(Thread)
         /\ Requeued \in Seq(Thread)
         /\ ready_queue \o woken \o let_go \o Requeued \in Seq(Thread)
<1>1. ready_queue \in Seq(Thread) /\ woken \in Seq(Thread) /\ let_go \in Seq(Thread)
  BY Types DEF Parts
<1>2. Requeued \in Seq(Thread)
  <2>1. CASE status = 1 /\ current # Idle
    <3>1. current \in Thread
      BY <2>1, Types
    <3> QED BY <2>1, <3>1 DEF Requeued
  <2>2. CASE ~(status = 1 /\ current # Idle)
    BY <2>2 DEF Requeued
  <2> QED BY <2>1, <2>2
<1> QED BY <1>1, <1>2, ConcatProperties

\* A pass of the scheduler keeps the types.
LEMMA ScheduleTypes == ASSUME TInv, Schedule PROVE TInv'
<1>1. PICK woken, let_go :
           /\ Parts(woken, let_go)
           /\ waiting_queue' = [waiting_queue EXCEPT
                                  !.head = (@ + Cardinality(Granted)) % THREAD_MAX]
           /\ Choose(ready_queue \o woken \o let_go \o Requeued, sleeping \ Woken)
  BY PassDoes
<1>2. /\ ready_queue' \in Seq(Thread) /\ current' \in Thread \cup {Idle}
      /\ control' \in {"thread", "returned"}
  BY <1>1, PassQueue, ChooseDoes
<1>3. /\ waiting_queue' \in [arr : [0..(THREAD_MAX - 1) -> Thread \cup {Idle}],
                             head : 0..(THREAD_MAX - 1), size : 0..(THREAD_MAX - 1)]
      /\ \A k \in 0..(waiting_queue'.size - 1) : waiting_queue'.arr[k] \in Thread
  <2>1. Cardinality(Granted) \in Nat
    BY PassFinite, FS_CardinalityType
  <2>2. THREAD_MAX \in Nat /\ THREAD_MAX > 0
    BY Numbers
  <2>3. waiting_queue.head \in Nat
    BY <2>2, Types
  <2>4. (waiting_queue.head + Cardinality(Granted)) % THREAD_MAX \in 0..(THREAD_MAX - 1)
    BY <2>1, <2>2, <2>3
  <2>5. /\ waiting_queue'.arr = waiting_queue.arr /\ waiting_queue'.size = waiting_queue.size
        /\ waiting_queue' \in [arr : [0..(THREAD_MAX - 1) -> Thread \cup {Idle}],
                               head : 0..(THREAD_MAX - 1), size : 0..(THREAD_MAX - 1)]
    BY <1>1, <2>4 DEF TInv, TypeOK
  <2> QED BY <2>5, Types
<1>4. tcb' \in [Thread -> Block]
  <2>1. \A t \in Thread : tcb[t] \in Block /\ tcb[t].sleeping_time - time_slice \in Int
                          /\ (tcb[t].keepgo \/ t \in Woken) \in BOOLEAN
    <3>1. \A t \in Thread : tcb[t] \in Block
      BY Types
    <3>2. time_slice \in Int
      BY Numbers
    <3>3. \A t \in Thread : tcb[t].sleeping_time \in Int
      BY <3>1 DEF Block
    <3> QED BY <3>1, <3>2, <3>3
  <2>2. \A t \in Thread :
          [tcb[t] EXCEPT !.sleeping_time = @ - time_slice, !.keepgo = @ \/ t \in Woken] \in Block
    BY <2>1, BlockAge
  <2>3. tcb' = [t \in Thread |->
                  IF t \notin sleeping THEN tcb[t]
                  ELSE [tcb[t] EXCEPT !.sleeping_time = @ - time_slice,
                                      !.keepgo = @ \/ t \in Woken]]
    BY DEF Schedule
  <2> QED BY <2>1, <2>2, <2>3, Zenon
<1>5. /\ elapsed' = 0 /\ status' = 0 /\ sleeping' = sleeping \ Woken
      /\ UNCHANGED <<program, read_count, write_count, frame, choice>>
  BY DEF Schedule
<1>6. 0 \in 0..time_slice /\ 0 < time_slice
  <2>1. time_slice \in Nat /\ time_slice >= 1
    BY Numbers
  <2> QED BY <2>1
<1>7. TypeOK'
  <2>1. /\ program' \in Programs /\ read_count' \in Nat /\ write_count' \in {0, 1}
        /\ frame' \in Thread \cup {Idle} /\ choice' \in [Thread -> {"none", "pj_class", "sw_class"}]
        /\ sleeping' \subseteq Thread /\ status' \in 0..5
    BY <1>5, Types
  <2> QED BY <1>2, <1>3, <1>4, <1>5, <1>6, <2>1 DEF TypeOK, Block
<1> QED BY <1>3, <1>5, <1>6, <1>7 DEF TInv

\* Every step keeps the types.
LEMMA NextTypes == TInv /\ [Next]_vars => TInv'
<1> SUFFICES ASSUME TInv, [Next]_vars PROVE TInv'
  OBVIOUS
<1>1. CASE UNCHANGED vars
  BY <1>1 DEF TInv, TypeOK, vars
<1>2. CASE Schedule
  BY <1>2, ScheduleTypes
<1>3. CASE IdleRun
  BY <1>3, IdleTypes
<1>4. ASSUME NEW t \in Thread, Step(t)
      PROVE  TInv'
  BY <1>4, CountTypes, SleepTypes, AcquireReadTypes, WaitReadTypes, ResumeReadTypes,
     ReleaseReadTypes, AcquireWriteTypes, WaitWriteTypes, ResumeWriteTypes, ReleaseWriteTypes
     DEF Step
<1> QED BY <1>1, <1>2, <1>3, <1>4 DEF Next

\* The types hold throughout, for any number of threads and any command lines.
LEMMA TypesInvariance == Spec => []TInv
BY InitTypes, NextTypes, PTL DEF Spec

\* TypeOK of the runs: every variable keeps its type.
THEOREM TypeCorrect == Spec => []TypeOK
<1>1. TInv => TypeOK
  BY DEF TInv
<1> QED BY <1>1, TypesInvariance, PTL

-----------------------------------------------------------------------------
(* The steps of threads, without what the lock and the queues do not see.  *)

\* Nobody's position changes but t's, which goes from a to b.
Move(t, a, b) ==
  /\ control = "thread" /\ current = t /\ current' = t
  /\ tcb[t].pc = a /\ tcb'[t].pc = b
  /\ \A u \in Thread : u # t => /\ tcb'[u].pc = tcb[u].pc
                                /\ tcb'[u].waiting_for = tcb[u].waiting_for

\* t goes on or is interrupted; t leaves for the scheduler with status s.
Stays == \/ control' = "thread" /\ status' = 0
         \/ control' = "scheduler" /\ status' = 1
Leaves(s) == control' = "scheduler" /\ status' = s

SameQueues == ready_queue' = ready_queue /\ sleeping' = sleeping
SameLock == read_count' = read_count /\ write_count' = write_count

\* A thread that yields goes on or is to be requeued.
LEMMA YieldStays == ASSUME TInv, control = "thread", Yield PROVE Stays
BY Slices DEF Yield, Enter, Stays

\* Setting t's pc to b.
LEMMA PcMoves ==
  ASSUME TInv, NEW t \in Thread, NEW b, tcb' = [tcb EXCEPT ![t].pc = b]
  PROVE  /\ tcb'[t].pc = b /\ tcb'[t].waiting_for = tcb[t].waiting_for
         /\ \A u \in Thread : u # t => tcb'[u] = tcb[u]
<1>1. tcb \in [Thread -> Block]
  BY Types
<1>2. tcb[t] \in Block
  BY <1>1
<1>3. tcb'[t] = [tcb[t] EXCEPT !.pc = b] /\ \A u \in Thread : u # t => tcb'[u] = tcb[u]
  BY <1>1
<1> QED BY <1>2, <1>3 DEF Block

\* What Count does to places and counts.
LEMMA CountDoes ==
  ASSUME TInv, NEW t \in Thread, Count(t)
  PROVE  /\ \E a \in {"start", "loop"}, b \in {"loop", "exited"} :
              Move(t, a, b) /\ (b = "loop" => Stays) /\ (b = "exited" => Leaves(3))
         /\ SameQueues /\ SameLock /\ waiting_queue' = waiting_queue
<1> DEFINE x == tcb[t]
           y == IF program[t].routine = "fibonacci" THEN FibonacciValues(x, x.i + 1)
                                                    ELSE PmValues(x, x.i + 1)
           last == x.i + 1 = program[t].n
           z == [y EXCEPT !.i = x.i + 1, !.pc = IF last THEN "exited" ELSE "loop"]
<1>1. /\ control = "thread" /\ current = t /\ current' = current /\ x.pc \in {"start", "loop"}
      /\ tcb' = [tcb EXCEPT ![t] = z]
      /\ last => Enter(3)
      /\ ~last => Yield
      /\ SameQueues /\ SameLock /\ waiting_queue' = waiting_queue
  BY DEF Count, Runs, SameQueues, SameLock
<1>2. x \in Block /\ tcb \in [Thread -> Block]
  BY Types
<1>3. y \in Block
  <2>1. x.i + 1 \in Nat
    BY <1>2 DEF Block
  <2> QED BY <1>2, <2>1, Computes
<1>4. z.pc = IF last THEN "exited" ELSE "loop"
  <2> HIDE DEF y, last
  <2> QED BY <1>3 DEF Block
<1> HIDE DEF z
<1>5. tcb'[t] = z /\ \A u \in Thread : u # t => tcb'[u] = tcb[u]
  BY <1>1, <1>2
<1>6. CASE last
  BY <1>1, <1>4, <1>5, <1>6 DEF Move, Enter, Leaves
<1>7. CASE ~last
  BY <1>1, <1>4, <1>5, <1>7, YieldStays DEF Move
<1> QED BY <1>1, <1>6, <1>7

\* What GoToSleep does to them.
LEMMA SleepDoes ==
  ASSUME TInv, NEW t \in Thread, GoToSleep(t)
  PROVE  /\ Move(t, "start", "start") /\ Leaves(2)
         /\ sleeping' = sleeping \cup {t} /\ ready_queue' = ready_queue
         /\ SameLock /\ waiting_queue' = waiting_queue
<1>1. /\ control = "thread" /\ current = t /\ current' = current /\ tcb[t].pc = "start"
      /\ tcb' = [tcb EXCEPT ![t].sleeping_time = program[t].s + time_slice]
      /\ control' = "scheduler" /\ status' = 2
      /\ sleeping' = sleeping \cup {t} /\ ready_queue' = ready_queue
      /\ SameLock /\ waiting_queue' = waiting_queue
  BY DEF GoToSleep, Runs, Enter, SameLock
<1>2. tcb[t] \in Block /\ tcb \in [Thread -> Block]
  BY Types
<1>3. /\ tcb'[t] = [tcb[t] EXCEPT !.sleeping_time = program[t].s + time_slice]
      /\ \A u \in Thread : u # t => tcb'[u] = tcb[u]
  BY <1>1, <1>2
<1>4. tcb'[t].pc = tcb[t].pc
  BY <1>2, <1>3 DEF Block
<1> QED BY <1>1, <1>3, <1>4 DEF Move, Leaves

\* What AcquireRead does to them.
LEMMA AcquireReadDoes ==
  ASSUME TInv, NEW t \in Thread, AcquireRead(t)
  PROVE  /\ Move(t, "start", "reading") /\ Stays /\ Awake(program[t].b)
         /\ write_count = 0 /\ write_count' = 0 /\ read_count' = read_count + 1
         /\ waiting_queue' = waiting_queue
<1> DEFINE aw == Awakened(program[t].b, tcb)
<1>1. /\ control = "thread" /\ current = t /\ current' = current /\ tcb[t].pc = "start"
      /\ tcb' = [aw EXCEPT ![t].pc = "reading"] /\ Yield /\ Awake(program[t].b)
      /\ write_count = 0 /\ write_count' = 0 /\ read_count' = read_count + 1
      /\ waiting_queue' = waiting_queue
  BY DEF AcquireRead, Runs
<1>2. /\ aw \in [Thread -> Block]
      /\ \A u \in Thread : aw[u].pc = tcb[u].pc /\ aw[u].waiting_for = tcb[u].waiting_for
  BY <1>1, AwakeTypes
<1> HIDE DEF aw
<1>3. tcb'[t] = [aw[t] EXCEPT !.pc = "reading"] /\ \A u \in Thread : u # t => tcb'[u] = aw[u]
  BY <1>1, <1>2
<1>4. tcb'[t].pc = "reading"
  BY <1>2, <1>3 DEF Block
<1> QED BY <1>1, <1>2, <1>3, <1>4, YieldStays DEF Move

\* What WaitRead does to them.
LEMMA WaitReadDoes ==
  ASSUME TInv, NEW t \in Thread, WaitRead(t)
  PROVE  /\ Move(t, "start", "granted_read") /\ tcb'[t].waiting_for = 4
         /\ Leaves(4) /\ Awake(program[t].b) /\ WaitIn(t) /\ SameLock /\ write_count # 0
<1> DEFINE aw == Awakened(program[t].b, tcb)
<1>1. /\ control = "thread" /\ current = t /\ current' = current /\ tcb[t].pc = "start"
      /\ tcb' = [aw EXCEPT ![t].pc = "granted_read", ![t].waiting_for = 4]
      /\ Enter(4) /\ Awake(program[t].b) /\ WaitIn(t) /\ SameLock /\ write_count # 0
  BY DEF WaitRead, Runs, SameLock
<1>2. /\ aw \in [Thread -> Block]
      /\ \A u \in Thread : aw[u].pc = tcb[u].pc /\ aw[u].waiting_for = tcb[u].waiting_for
  BY <1>1, AwakeTypes
<1> HIDE DEF aw
<1>3. /\ tcb'[t] = [aw[t] EXCEPT !.pc = "granted_read", !.waiting_for = 4]
      /\ \A u \in Thread : u # t => tcb'[u] = aw[u]
  BY <1>1, <1>2
<1>4. tcb'[t].pc = "granted_read" /\ tcb'[t].waiting_for = 4
  BY <1>2, <1>3 DEF Block
<1> QED BY <1>1, <1>2, <1>3, <1>4 DEF Move, Enter, Leaves

\* What ResumeRead does to them.
LEMMA ResumeReadDoes ==
  ASSUME TInv, NEW t \in Thread, ResumeRead(t)
  PROVE  /\ Move(t, "granted_read", "reading") /\ Stays
         /\ SameQueues /\ SameLock /\ waiting_queue' = waiting_queue
<1>1. tcb' = [tcb EXCEPT ![t].pc = "reading"] /\ Yield /\ control = "thread"
  BY DEF ResumeRead, Runs
<1> QED BY <1>1, PcMoves, YieldStays DEF ResumeRead, Runs, Move, SameQueues, SameLock

\* What ReleaseRead does to them.
LEMMA ReleaseReadDoes ==
  ASSUME TInv, NEW t \in Thread, ReleaseRead(t)
  PROVE  /\ Move(t, "reading", "computed") /\ Stays
         /\ SameQueues /\ waiting_queue' = waiting_queue
         /\ read_count' = IF read_count > 0 THEN read_count - 1 ELSE read_count
         /\ write_count' = write_count
<1>1. tcb' = [tcb EXCEPT ![t].pc = "computed"] /\ Yield /\ control = "thread"
  BY DEF ReleaseRead, Runs
<1> QED BY <1>1, PcMoves, YieldStays DEF ReleaseRead, Runs, Move, SameQueues

\* What AcquireWrite does to them.
LEMMA AcquireWriteDoes ==
  ASSUME TInv, NEW t \in Thread, AcquireWrite(t)
  PROVE  /\ Move(t, "computed", "writing") /\ Stays
         /\ SameQueues /\ waiting_queue' = waiting_queue
         /\ write_count = 0 /\ read_count = 0 /\ write_count' = 1 /\ read_count' = 0
<1>1. tcb' = [tcb EXCEPT ![t].pc = "writing"] /\ Yield /\ control = "thread"
  BY DEF AcquireWrite, Runs
<1> QED BY <1>1, PcMoves, YieldStays DEF AcquireWrite, Runs, Move, SameQueues

\* What WaitWrite does to them.
LEMMA WaitWriteDoes ==
  ASSUME TInv, NEW t \in Thread, WaitWrite(t)
  PROVE  /\ Move(t, "computed", "granted_write") /\ tcb'[t].waiting_for = 5
         /\ Leaves(5) /\ SameQueues /\ WaitIn(t) /\ SameLock
<1>1. /\ control = "thread" /\ current = t /\ current' = current /\ tcb[t].pc = "computed"
      /\ tcb' = [tcb EXCEPT ![t].pc = "granted_write", ![t].waiting_for = 5]
      /\ Enter(5) /\ WaitIn(t) /\ SameQueues /\ SameLock
  BY DEF WaitWrite, Runs, SameQueues, SameLock
<1>2. tcb \in [Thread -> Block] /\ tcb[t] \in Block
  BY Types
<1>3. /\ tcb'[t] = [tcb[t] EXCEPT !.pc = "granted_write", !.waiting_for = 5]
      /\ \A u \in Thread : u # t => tcb'[u] = tcb[u]
  BY <1>1, <1>2
<1>4. tcb'[t].pc = "granted_write" /\ tcb'[t].waiting_for = 5
  BY <1>2, <1>3 DEF Block
<1> QED BY <1>1, <1>3, <1>4 DEF Move, Enter, Leaves

\* What ResumeWrite does to them.
LEMMA ResumeWriteDoes ==
  ASSUME TInv, NEW t \in Thread, ResumeWrite(t)
  PROVE  /\ Move(t, "granted_write", "writing") /\ Stays
         /\ SameQueues /\ SameLock /\ waiting_queue' = waiting_queue
<1>1. tcb' = [tcb EXCEPT ![t].pc = "writing"] /\ Yield /\ control = "thread"
  BY DEF ResumeWrite, Runs
<1> QED BY <1>1, PcMoves, YieldStays DEF ResumeWrite, Runs, Move, SameQueues, SameLock

\* What ReleaseWrite does to them.
LEMMA ReleaseWriteDoes ==
  ASSUME TInv, NEW t \in Thread, ReleaseWrite(t)
  PROVE  /\ Move(t, "writing", "exited") /\ Leaves(3)
         /\ SameQueues /\ waiting_queue' = waiting_queue
         /\ write_count' = (IF write_count = 1 THEN 0 ELSE write_count)
         /\ read_count' = read_count
<1>1. tcb' = [tcb EXCEPT ![t].pc = "exited"]
  BY DEF ReleaseWrite
<1> QED BY <1>1, PcMoves DEF ReleaseWrite, Runs, Move, SameQueues, Enter, Leaves

\* The idle thread, and a pass of the scheduler, move no thread.
Unmoved == \A t \in Thread : /\ tcb'[t].pc = tcb[t].pc
                             /\ tcb'[t].waiting_for = tcb[t].waiting_for

\* What IdleRun does to them.
LEMMA IdleDoes ==
  ASSUME TInv, IdleRun
  PROVE  /\ control = "thread" /\ current = Idle /\ current' = Idle
         /\ Unmoved /\ Stays /\ SameQueues /\ SameLock /\ waiting_queue' = waiting_queue
BY YieldStays DEF IdleRun, Unmoved, SameQueues, SameLock

\* A pass changes no pc, no count and only sleepers whose time is up.
LEMMA ScheduleMovesNone ==
  ASSUME TInv, Schedule
  PROVE  /\ control = "scheduler" /\ status' = 0 /\ Unmoved /\ SameLock
         /\ sleeping' = sleeping \ Woken
<1>1. \A t \in Thread :
        /\ tcb[t] \in Block
        /\ tcb'[t] = IF t \notin sleeping THEN tcb[t]
                     ELSE [tcb[t] EXCEPT !.sleeping_time = @ - time_slice,
                                         !.keepgo = @ \/ t \in Woken]
  BY Types DEF Schedule
<1>2. ASSUME NEW t \in Thread
      PROVE  tcb'[t].pc = tcb[t].pc /\ tcb'[t].waiting_for = tcb[t].waiting_for
  <2>1. CASE t \notin sleeping
    BY <1>1, <2>1
  <2>2. CASE t \in sleeping
    <3>1. PICK s, g : tcb'[t] = [tcb[t] EXCEPT !.sleeping_time = s, !.keepgo = g]
      BY ZenonT(40), <1>1, <2>2
    <3> QED BY <1>1, <3>1 DEF Block
  <2> QED BY <2>1, <2>2
<1> QED BY <1>2 DEF Schedule, Unmoved, SameLock

-----------------------------------------------------------------------------
(* The lock's counts.                                                      *)

\* Sets of threads are finite.
LEMMA HoldersFinite ==
  /\ IsFiniteSet(Reading) /\ Cardinality(Reading) \in Nat
  /\ \A S \in SUBSET Thread : IsFiniteSet(S) /\ Cardinality(S) \in Nat
<1>1. \A S \in SUBSET Thread : IsFiniteSet(S) /\ Cardinality(S) \in Nat
  BY Numbers, FS_Subset, FS_CardinalityType
<1> QED BY <1>1 DEF Reading

\* How a move changes the holders of the lock.
LEMMA HoldersMove ==
  ASSUME NEW t \in Thread, NEW a, NEW b, Move(t, a, b)
  PROVE  /\ a # "reading" /\ b # "reading" => Reading' = Reading
         /\ a # "reading" /\ b = "reading" => Reading' = Reading \cup {t} /\ t \notin Reading
         /\ a = "reading" /\ b # "reading" => Reading' = Reading \ {t} /\ t \in Reading
         /\ a # "writing" => Writing \subseteq Writing'
         /\ b = "writing" => t \in Writing'
BY DEF Move, Reading, Writing

\* Who holds the lock depends on pc alone.
LEMMA UnmovedHolders ==
  ASSUME Unmoved
  PROVE  Reading' = Reading /\ Writing' = Writing
BY DEF Unmoved, Reading, Writing

\* Every step keeps the counts within their holders.
LEMMA NextCounts == TInv /\ CountsHaveHolders /\ [Next]_vars => CountsHaveHolders'
<1> SUFFICES ASSUME TInv, CountsHaveHolders, [Next]_vars PROVE CountsHaveHolders'
  OBVIOUS
<1>0. /\ read_count <= Cardinality(Reading) /\ (write_count = 1 => Writing # {})
      /\ read_count = 0 \/ write_count = 0
      /\ read_count \in Nat /\ write_count \in {0, 1}
      /\ Cardinality(Reading) \in Nat /\ IsFiniteSet(Reading)
  BY Types, HoldersFinite DEF CountsHaveHolders
<1>1. ASSUME SameLock, Cardinality(Reading') >= Cardinality(Reading), Writing \subseteq Writing'
      PROVE  CountsHaveHolders'
  <2>1. Cardinality(Reading') >= read_count
    <3>1. Cardinality(Reading') \in Nat
      BY HoldersFinite DEF Reading
    <3> QED BY <1>0, <1>1, <3>1
  <2> QED BY <1>0, <1>1, <2>1 DEF CountsHaveHolders, SameLock
<1>2. ASSUME SameLock, NEW t \in Thread, NEW a, NEW b, Move(t, a, b),
             a # "reading", a # "writing"
      PROVE  CountsHaveHolders'
  <2>1. Cardinality(Reading') >= Cardinality(Reading)
    <3>1. CASE b # "reading"
      BY <1>0, <1>2, <3>1, HoldersMove
    <3>2. CASE b = "reading"
      <4>1. Reading' = Reading \cup {t}
        BY <1>2, <3>2, HoldersMove
      <4>2. Cardinality(Reading \cup {t}) >= Cardinality(Reading)
        BY <1>0, FS_AddElement
      <4> QED BY <4>1, <4>2
    <3> QED BY <3>1, <3>2
  <2> QED BY <1>1, <1>2, <2>1, HoldersMove
<1>3. CASE UNCHANGED vars
  BY <1>3 DEF vars, CountsHaveHolders, Reading, Writing
<1>4. CASE Schedule
  <2>1. SameLock /\ Reading' = Reading /\ Writing' = Writing
    BY <1>4, ScheduleMovesNone, UnmovedHolders
  <2> QED BY <1>0, <1>1, <2>1
<1>5. CASE IdleRun
  <2>1. SameLock /\ Reading' = Reading /\ Writing' = Writing
    BY <1>5, IdleDoes, UnmovedHolders
  <2> QED BY <1>0, <1>1, <2>1
<1>6. ASSUME NEW t \in Thread, Step(t)
      PROVE  CountsHaveHolders'
  <2>1. CASE Count(t)
    <3>1. PICK a \in {"start", "loop"}, b \in {"loop", "exited"} : Move(t, a, b)
      BY <2>1, CountDoes
    <3> QED BY <1>2, <2>1, <3>1, CountDoes
  <2>2. CASE GoToSleep(t)
    BY <1>2, <2>2, SleepDoes
  <2>3. CASE AcquireRead(t)
    <3>1. /\ Move(t, "start", "reading") /\ read_count' = read_count + 1
          /\ write_count = 0 /\ write_count' = 0
      BY <2>3, AcquireReadDoes
    <3>2. Reading' = Reading \cup {t} /\ t \notin Reading
      BY <3>1, HoldersMove
    <3>3. Cardinality(Reading') = Cardinality(Reading) + 1
      BY <1>0, <3>2, FS_AddElement
    <3> QED BY <1>0, <3>1, <3>3 DEF CountsHaveHolders
  <2>4. CASE WaitRead(t)
    BY <1>2, <2>4, WaitReadDoes
  <2>5. CASE ResumeRead(t)
    BY <1>2, <2>5, ResumeReadDoes
  <2>6. CASE ReleaseRead(t)
    <3>1. /\ Move(t, "reading", "computed") /\ write_count' = write_count
          /\ read_count' = IF read_count > 0 THEN read_count - 1 ELSE read_count
      BY <2>6, ReleaseReadDoes
    <3>2. Reading' = Reading \ {t} /\ t \in Reading /\ Writing \subseteq Writing'
      BY <3>1, HoldersMove
    <3>3. Cardinality(Reading') = Cardinality(Reading) - 1
      BY <1>0, <3>2, FS_RemoveElement
    <3>4. Cardinality(Reading') \in Nat
      BY HoldersFinite DEF Reading
    <3>5. read_count' <= Cardinality(Reading')
      BY <1>0, <3>1, <3>3, <3>4
    <3> QED BY <1>0, <3>1, <3>2, <3>5 DEF CountsHaveHolders
  <2>7. CASE AcquireWrite(t)
    <3>1. /\ Move(t, "computed", "writing") /\ write_count' = 1 /\ read_count' = 0
      BY <2>7, AcquireWriteDoes
    <3>2. Reading' = Reading /\ t \in Writing'
      BY <3>1, HoldersMove
    <3> QED BY <1>0, <3>1, <3>2 DEF CountsHaveHolders
  <2>8. CASE WaitWrite(t)
    BY <1>2, <2>8, WaitWriteDoes
  <2>9. CASE ResumeWrite(t)
    BY <1>2, <2>9, ResumeWriteDoes
  <2>10. CASE ReleaseWrite(t)
    <3>1. /\ Move(t, "writing", "exited") /\ read_count' = read_count
          /\ write_count' = (IF write_count = 1 THEN 0 ELSE write_count)
      BY <2>10, ReleaseWriteDoes
    <3>2. Reading' = Reading
      BY <3>1, HoldersMove
    <3> QED BY <1>0, <3>1, <3>2 DEF CountsHaveHolders
  <2> QED BY <1>6, <2>1, <2>2, <2>3, <2>4, <2>5, <2>6, <2>7, <2>8, <2>9, <2>10 DEF Step
<1> QED BY <1>3, <1>4, <1>5, <1>6 DEF Next

\* CountsHaveHolders is an invariant.
LEMMA CountsInvariance == Spec => []CountsHaveHolders
<1>1. Init => CountsHaveHolders
  <2> SUFFICES ASSUME Init PROVE CountsHaveHolders
    OBVIOUS
  <2>1. Cardinality(Reading) \in Nat
    BY HoldersFinite
  <2> QED BY <2>1 DEF Init, CountsHaveHolders
<1> QED BY <1>1, NextCounts, TypesInvariance, PTL DEF Spec

\* CountsHaveHolders of the runs: no count outlives its holders, although
\* waiters that are let go on hold the lock without counting and give back
\* counts that are not theirs.
THEOREM CountsGivenBack == Spec => []CountsHaveHolders
BY CountsInvariance

-----------------------------------------------------------------------------
(* The idle thread.                                                        *)

\* Every step leaves the idle thread only sleepers to wait for.
LEMMA NextIdle ==
  TInv /\ IdleOnlyWhileOthersSleep /\ [Next]_vars => IdleOnlyWhileOthersSleep'
<1> SUFFICES ASSUME TInv, IdleOnlyWhileOthersSleep, [Next]_vars
             PROVE  IdleOnlyWhileOthersSleep'
  OBVIOUS
<1>1. CASE UNCHANGED vars
  BY <1>1 DEF vars, IdleOnlyWhileOthersSleep
<1>2. CASE Schedule
  <2>1. PICK woken, let_go :
           /\ Parts(woken, let_go)
           /\ Choose(ready_queue \o woken \o let_go \o Requeued, sleeping \ Woken)
    BY <1>2, PassDoes
  <2>2. current' = Idle /\ control' = "thread" => ready_queue' = << >> /\ sleeping \ Woken # {}
    BY <2>1, PassQueue, ChooseDoes
  <2> QED BY <1>2, <2>2, ScheduleMovesNone DEF IdleOnlyWhileOthersSleep
<1>3. CASE IdleRun
  BY <1>3, IdleDoes DEF IdleOnlyWhileOthersSleep, SameQueues
<1>4. ASSUME NEW t \in Thread, Step(t)
      PROVE  IdleOnlyWhileOthersSleep'
  <2>1. current = t /\ current' = t /\ t # Idle
    BY <1>4, Numbers, CountDoes, SleepDoes, AcquireReadDoes, WaitReadDoes, ResumeReadDoes,
       ReleaseReadDoes, AcquireWriteDoes, WaitWriteDoes, ResumeWriteDoes, ReleaseWriteDoes
       DEF Step, Move
  <2> QED BY <2>1 DEF IdleOnlyWhileOthersSleep
<1> QED BY <1>1, <1>2, <1>3, <1>4 DEF Next

\* IdleOnlyWhileOthersSleep of the runs: the processor idles only while a
\* thread sleeps and none is ready.
THEOREM IdlesForSleepers == Spec => []IdleOnlyWhileOthersSleep
<1>1. Init => IdleOnlyWhileOthersSleep
  BY DEF Init, IdleOnlyWhileOthersSleep
<1> QED BY <1>1, NextIdle, TypesInvariance, PTL DEF Spec

-----------------------------------------------------------------------------
(* Places.  These proofs are for a waiting queue that does not wrap: a     *)
(* thread waits at most twice, so an array with room for that suffices.    *)

Roomy == 2 * Cardinality(Thread) < THREAD_MAX

In(x, s) == \E k \in 1..Len(s) : s[k] = x

Once(s) == \A j, k \in 1..Len(s) : s[j] = s[k] => j = k

\* What is in a concatenation.
LEMMA ConcatIn ==
  ASSUME NEW S, NEW s \in Seq(S), NEW u \in Seq(S), NEW x
  PROVE  In(x, s \o u) <=> In(x, s) \/ In(x, u)
<1>1. /\ Len(s) \in Nat /\ Len(u) \in Nat /\ Len(s \o u) = Len(s) + Len(u)
      /\ \A i \in 1..(Len(s) + Len(u)) : (s \o u)[i] = IF i <= Len(s) THEN s[i] ELSE u[i - Len(s)]
  BY ConcatProperties, LenProperties
<1>2. ASSUME NEW i \in 1..Len(s \o u), (s \o u)[i] = x
      PROVE  In(x, s) \/ In(x, u)
  <2>1. CASE i <= Len(s)
    BY <1>1, <1>2, <2>1 DEF In
  <2>2. CASE i > Len(s)
    <3>1. i - Len(s) \in 1..Len(u)
      BY <1>1, <2>2
    <3> QED BY <1>1, <1>2, <2>2, <3>1 DEF In
  <2> QED BY <1>1, <2>1, <2>2
<1>3. ASSUME NEW i \in 1..Len(s), s[i] = x
      PROVE  In(x, s \o u)
  BY <1>1, <1>3 DEF In
<1>4. ASSUME NEW i \in 1..Len(u), u[i] = x
      PROVE  In(x, s \o u)
  <2>1. i + Len(s) \in 1..(Len(s) + Len(u)) /\ ~(i + Len(s) <= Len(s)) /\ i + Len(s) - Len(s) = i
    BY <1>1
  <2> QED BY <1>1, <1>4, <2>1 DEF In
<1> QED BY <1>2, <1>3, <1>4 DEF In

\* Disjoint sequences without repetitions make one.
LEMMA ConcatOnce ==
  ASSUME NEW S, NEW s \in Seq(S), NEW u \in Seq(S), Once(s), Once(u),
         \A x \in S : ~(In(x, s) /\ In(x, u))
  PROVE  Once(s \o u)
<1>1. /\ Len(s) \in Nat /\ Len(u) \in Nat /\ Len(s \o u) = Len(s) + Len(u)
      /\ \A i \in 1..(Len(s) + Len(u)) : (s \o u)[i] = IF i <= Len(s) THEN s[i] ELSE u[i - Len(s)]
  BY ConcatProperties, LenProperties
<1>2. ASSUME NEW i \in 1..Len(s), NEW j \in 1..Len(u)
      PROVE  s[i] # u[j]
  <2>1. s[i] \in S /\ In(s[i], s)
    BY ElementOfSeq DEF In
  <2> QED BY <2>1 DEF In
<1>3. SUFFICES ASSUME NEW i \in 1..Len(s \o u), NEW j \in 1..Len(s \o u), (s \o u)[i] = (s \o u)[j]
               PROVE  i = j
  BY DEF Once
<1>4. CASE i <= Len(s) /\ j <= Len(s)
  BY <1>1, <1>3, <1>4 DEF Once
<1>5. CASE i > Len(s) /\ j > Len(s)
  <2>1. i - Len(s) \in 1..Len(u) /\ j - Len(s) \in 1..Len(u)
    BY <1>1, <1>5
  <2>2. i - Len(s) = j - Len(s)
    BY <1>1, <1>3, <1>5, <2>1 DEF Once
  <2> QED BY <1>1, <2>2
<1>6. CASE i <= Len(s) /\ j > Len(s)
  <2>1. i \in 1..Len(s) /\ j - Len(s) \in 1..Len(u)
    BY <1>1, <1>6
  <2>2. (s \o u)[i] = s[i] /\ (s \o u)[j] = u[j - Len(s)]
    BY <1>1, <1>6
  <2> QED BY <1>2, <1>3, <2>1, <2>2
<1>7. CASE i > Len(s) /\ j <= Len(s)
  <2>1. j \in 1..Len(s) /\ i - Len(s) \in 1..Len(u)
    BY <1>1, <1>7
  <2>2. (s \o u)[j] = s[j] /\ (s \o u)[i] = u[i - Len(s)]
    BY <1>1, <1>7
  <2> QED BY <1>2, <1>3, <2>1, <2>2
<1> QED BY <1>1, <1>4, <1>5, <1>6, <1>7

\* What is in a sequence with one more.
LEMMA AppendIn ==
  ASSUME NEW S, NEW s \in Seq(S), NEW b \in S, ~In(b, s), Once(s)
  PROVE  /\ Once(Append(s, b))
         /\ \A x : In(x, Append(s, b)) <=> In(x, s) \/ x = b
<1>1. /\ Len(s) \in Nat /\ Len(Append(s, b)) = Len(s) + 1
      /\ \A i \in 1..Len(s) : Append(s, b)[i] = s[i]
      /\ Append(s, b)[Len(s) + 1] = b
  BY AppendProperties, LenProperties
<1>2. \A i \in 1..Len(Append(s, b)) : i \in 1..Len(s) \/ i = Len(s) + 1
  BY <1>1
<1> QED BY <1>1, <1>2 DEF In, Once

\* What is in a sequence without its first.
LEMMA RestIn ==
  ASSUME NEW S, NEW s \in Seq(S), s # << >>, Once(s)
  PROVE  /\ Once(SubSeq(s, 2, Len(s)))
         /\ \A x : In(x, SubSeq(s, 2, Len(s))) <=> In(x, s) /\ x # s[1]
<1> DEFINE r == SubSeq(s, 2, Len(s))
<1>1. Len(s) \in Nat /\ Len(s) # 0
  BY LenProperties, EmptySeq
<1>2. \A i \in 2..Len(s) : s[i] \in S
  BY <1>1, ElementOfSeq
<1>3. /\ Len(r) = Len(s) - 1
      /\ \A i \in 1..(Len(s) - 1) : r[i] = s[i + 1]
  <2>1. Len(r) = IF 2 <= Len(s) THEN Len(s) - 2 + 1 ELSE 0
    BY <1>1, <1>2, SubSeqProperties
  <2>2. \A i \in 1..(Len(s) - 2 + 1) : r[i] = s[2 + i - 1]
    BY <1>1, <1>2, SubSeqProperties
  <2>3. Len(r) = Len(s) - 1
    <3>1. \A n \in Nat : n # 0 => (IF 2 <= n THEN n - 2 + 1 ELSE 0) = n - 1
      OBVIOUS
    <3> QED BY <1>1, <2>1, <3>1, Zenon
  <2>4. ASSUME NEW i \in 1..(Len(s) - 1)
        PROVE  r[i] = s[i + 1]
    <3>1. i \in 1..(Len(s) - 2 + 1) /\ 2 + i - 1 = i + 1
      BY <1>1
    <3> QED BY <2>2, <3>1
  <2> QED BY <2>3, <2>4
<1> HIDE DEF r
<1>4. Once(r)
  BY <1>1, <1>3 DEF Once
<1>5. ASSUME NEW x, In(x, r)
      PROVE  In(x, s) /\ x # s[1]
  <2>1. PICK i \in 1..(Len(s) - 1) : r[i] = x
    BY <1>3, <1>5 DEF In
  <2>2. s[i + 1] = x /\ i + 1 \in 1..Len(s) /\ i + 1 # 1 /\ 1 \in 1..Len(s)
    BY <1>1, <1>3, <2>1
  <2> QED BY <2>2 DEF In, Once
<1>6. ASSUME NEW x, In(x, s), x # s[1]
      PROVE  In(x, r)
  <2>1. PICK i \in 1..Len(s) : s[i] = x /\ i # 1
    BY <1>6 DEF In
  <2>2. i - 1 \in 1..(Len(s) - 1) /\ i - 1 + 1 = i
    BY <1>1, <2>1
  <2> QED BY <1>3, <2>1, <2>2 DEF In
<1> QED BY <1>4, <1>5, <1>6 DEF r

\* t stands in the waiting queue.
Lines(t) == \E k \in Visible : waiting_queue.arr[k] = t

\* The threads that are done with waiting for the read lock, for the write lock.
PastRead == {t \in Thread : tcb[t].pc \notin {"start", "loop"}}
PastWrite == {t \in Thread : tcb[t].pc \in {"granted_write", "writing", "exited"}}

OnePlace(t) ==
  /\ In(t, ready_queue) => /\ t \notin sleeping /\ ~Lines(t) /\ t \notin InCharge
                           /\ tcb[t].pc # "exited"
  /\ t \in sleeping => ~Lines(t) /\ t \notin InCharge /\ tcb[t].pc = "start"
  /\ Lines(t) => /\ t \notin InCharge
                 /\ \/ tcb[t].pc = "granted_read" /\ tcb[t].waiting_for = 4
                    \/ tcb[t].pc = "granted_write" /\ tcb[t].waiting_for = 5
  /\ t \in InCharge => tcb[t].pc # "exited"
  /\ In(t, ready_queue) \/ t \in sleeping \/ Lines(t) \/ t \in InCharge \/ tcb[t].pc = "exited"

\* The waiting queue has not wrapped, and nobody stands in it twice.
Unwrapped ==
  /\ waiting_queue.head <= waiting_queue.size
  /\ waiting_queue.size <= Cardinality(PastRead) + Cardinality(PastWrite)
  /\ \A m, n \in Visible : waiting_queue.arr[m] = waiting_queue.arr[n] => m = n

\* Readers wait only for a writer that counts: a pass grants all or nothing.
Bunched ==
  write_count = 0 /\ (read_count > 0 \/ control = "thread") =>
    \A t \in Thread : Lines(t) => tcb[t].waiting_for = 5

PInv == /\ \A t \in Thread : OnePlace(t)
        /\ Once(ready_queue)
        /\ Unwrapped
        /\ Bunched

\* The indices of the waiting queue, as numbers.
LEMMA Indices ==
  ASSUME TInv
  PROVE  /\ waiting_queue.head \in Nat /\ waiting_queue.size \in Nat
         /\ waiting_queue.head < THREAD_MAX /\ waiting_queue.size < THREAD_MAX
         /\ THREAD_MAX \in Nat
         /\ \A k : k \in Visible => k \in Nat
<1>1. THREAD_MAX \in Nat
  BY Numbers
<1> QED BY <1>1, Types DEF Visible

\* While a thread moves, places depend on who is in charge afterwards.
LEMMA OthersInCharge ==
  ASSUME TInv, NEW t \in Thread, control = "thread", current = t, current' = t
  PROVE  /\ InCharge = {t}
         /\ Stays => InCharge' = {t}
         /\ \A s \in {2, 3, 4, 5} : Leaves(s) => InCharge' = {}
BY DEF InCharge, Stays, Leaves

\* PInv of one thread.
LEMMA InMeans == \A t \in Thread : PInv => OnePlace(t)
BY DEF PInv

\* The thread that runs is nowhere else.
LEMMA Running ==
  ASSUME TInv, PInv, NEW t \in Thread, control = "thread", current = t
  PROVE  ~In(t, ready_queue) /\ t \notin sleeping /\ ~Lines(t)
<1>1. t \in InCharge
  BY DEF InCharge
<1> QED BY <1>1, InMeans DEF OnePlace

\* Who stands in the waiting queue depends on that alone.
LEMMA SameLines ==
  ASSUME waiting_queue' = waiting_queue
  PROVE  Visible' = Visible /\ \A t : Lines(t)' <=> Lines(t)
BY DEF Visible, Lines

\* The threads that do not run keep their place, or are woken.
LEMMA Elsewhere ==
  ASSUME TInv, PInv, NEW t \in Thread, NEW a, NEW b, Move(t, a, b), InCharge' \subseteq {t},
         sleeping' \subseteq sleeping \cup {t},
         \A u \in Thread : u # t => /\ (Lines(u)' <=> Lines(u))
                                    /\ In(u, ready_queue') \/ u \in sleeping' <=>
                                         In(u, ready_queue) \/ u \in sleeping
                                    /\ ~(In(u, ready_queue') /\ u \in sleeping')
  PROVE  \A u \in Thread : u # t => OnePlace(u)'
<1> SUFFICES ASSUME NEW u \in Thread, u # t PROVE OnePlace(u)'
  OBVIOUS
<1>1. OnePlace(u) /\ InCharge = {t}
  BY InMeans DEF Move, InCharge
<1>2. tcb'[u].pc = tcb[u].pc /\ tcb'[u].waiting_for = tcb[u].waiting_for
  BY DEF Move
<1>3. u \notin InCharge /\ u \notin InCharge'
  BY <1>1
<1>4. (In(u, ready_queue))' = In(u, ready_queue')
  BY DEF In
<1> QED BY <1>1, <1>2, <1>3, <1>4 DEF OnePlace

\* A friend that sleeps is woken.
LEMMA AwakePlaces ==
  ASSUME TInv, PInv, NEW t \in Thread, NEW b, Awake(b), control = "thread", current = t
  PROVE  /\ Once(ready_queue') /\ sleeping' \subseteq sleeping
         /\ \A u \in Thread : /\ In(u, ready_queue') \/ u \in sleeping' <=>
                                   In(u, ready_queue) \/ u \in sleeping
                              /\ ~(In(u, ready_queue') /\ u \in sleeping')
         /\ ~In(t, ready_queue') /\ t \notin sleeping'
<1>1. Once(ready_queue) /\ \A u \in Thread : ~(In(u, ready_queue) /\ u \in sleeping)
  BY DEF PInv, OnePlace
<1>2. ~In(t, ready_queue) /\ t \notin sleeping
  BY Running
<1>3. CASE b \in sleeping
  <2>1. b \in Thread /\ ~In(b, ready_queue) /\ ready_queue \in Seq(Thread)
    BY <1>1, <1>3, Types
  <2>2. ready_queue' = Append(ready_queue, b) /\ sleeping' = sleeping \ {b}
    BY <1>3 DEF Awake
  <2>3. Once(ready_queue') /\ \A x : In(x, ready_queue') <=> In(x, ready_queue) \/ x = b
    BY <1>1, <2>1, <2>2, AppendIn
  <2> QED BY <1>1, <1>2, <1>3, <2>2, <2>3
<1>4. CASE b \notin sleeping
  <2>1. ready_queue' = ready_queue /\ sleeping' = sleeping
    BY <1>4 DEF Awake
  <2> QED BY <1>1, <1>2, <2>1
<1> QED BY <1>3, <1>4

\* Who has waited has waited.
LEMMA PastGrows ==
  ASSUME NEW t \in Thread, NEW a, NEW b, Move(t, a, b),
         a \in {"start", "loop"} \/ b \notin {"start", "loop"},
         a \in {"granted_write", "writing", "exited"} => b \in {"granted_write", "writing", "exited"}
  PROVE  /\ PastRead \subseteq PastRead' /\ PastWrite \subseteq PastWrite'
         /\ Cardinality(PastRead) \in Nat /\ Cardinality(PastRead') \in Nat
         /\ Cardinality(PastWrite) \in Nat /\ Cardinality(PastWrite') \in Nat
         /\ Cardinality(PastRead') >= Cardinality(PastRead)
         /\ Cardinality(PastWrite') >= Cardinality(PastWrite)
         /\ a \in {"start", "loop"} /\ b \notin {"start", "loop"} =>
              Cardinality(PastRead') >= Cardinality(PastRead) + 1
         /\ /\ a \notin {"granted_write", "writing", "exited"}
            /\ b \in {"granted_write", "writing", "exited"}
            => Cardinality(PastWrite') >= Cardinality(PastWrite) + 1
<1>1. PastRead \subseteq PastRead' /\ PastWrite \subseteq PastWrite'
  BY DEF Move, PastRead, PastWrite
<1>2. /\ IsFiniteSet(PastRead) /\ IsFiniteSet(PastRead') /\ IsFiniteSet(PastWrite) /\ IsFiniteSet(PastWrite')
      /\ Cardinality(PastRead) \in Nat /\ Cardinality(PastRead') \in Nat
      /\ Cardinality(PastWrite) \in Nat /\ Cardinality(PastWrite') \in Nat
  BY HoldersFinite DEF PastRead, PastWrite
<1>3. /\ Cardinality(PastRead') >= Cardinality(PastRead)
      /\ Cardinality(PastWrite') >= Cardinality(PastWrite)
  BY <1>1, <1>2, FS_Subset
<1>4. ASSUME a \in {"start", "loop"}, b \notin {"start", "loop"}
      PROVE  Cardinality(PastRead') >= Cardinality(PastRead) + 1
  <2>1. t \in PastRead' /\ t \notin PastRead
    BY <1>4 DEF Move, PastRead
  <2>2. Cardinality(PastRead') # Cardinality(PastRead)
    BY <1>1, <1>2, <2>1, FS_Subset
  <2> QED BY <1>2, <1>3, <2>2
<1>5. ASSUME a \notin {"granted_write", "writing", "exited"}, b \in {"granted_write", "writing", "exited"}
      PROVE  Cardinality(PastWrite') >= Cardinality(PastWrite) + 1
  <2>1. t \in PastWrite' /\ t \notin PastWrite
    BY <1>5 DEF Move, PastWrite
  <2>2. Cardinality(PastWrite') # Cardinality(PastWrite)
    BY <1>1, <1>2, <2>1, FS_Subset
  <2> QED BY <1>2, <1>3, <2>2
<1> QED BY <1>1, <1>2, <1>3, <1>4, <1>5

\* There is room, however many have waited.
LEMMA Room ==
  ASSUME Roomy
  PROVE  Cardinality(PastRead) + Cardinality(PastWrite) < THREAD_MAX
<1>1. /\ Cardinality(PastRead) <= Cardinality(Thread)
      /\ Cardinality(PastWrite) <= Cardinality(Thread)
  BY Numbers, FS_Subset DEF PastRead, PastWrite
<1>2. /\ Cardinality(PastRead) \in Nat /\ Cardinality(PastWrite) \in Nat
      /\ Cardinality(Thread) \in Nat /\ THREAD_MAX \in Nat
  BY Numbers, HoldersFinite DEF PastRead, PastWrite
<1> QED BY <1>1, <1>2 DEF Roomy

\* The waiting queue stays what it was.
LEMMA SameWaiting ==
  ASSUME TInv, PInv, NEW t \in Thread, NEW a, NEW b, Move(t, a, b),
         a \in {"start", "loop"} \/ b \notin {"start", "loop"},
         a \in {"granted_write", "writing", "exited"} => b \in {"granted_write", "writing", "exited"},
         waiting_queue' = waiting_queue
  PROVE  Unwrapped'
<1>1. /\ waiting_queue.head <= waiting_queue.size
      /\ waiting_queue.size <= Cardinality(PastRead) + Cardinality(PastWrite)
      /\ \A m, n \in Visible : waiting_queue.arr[m] = waiting_queue.arr[n] => m = n
  BY DEF PInv, Unwrapped
<1>2. waiting_queue.size <= Cardinality(PastRead') + Cardinality(PastWrite')
  <2>1. waiting_queue.size \in Nat
    BY Indices
  <2> QED BY <1>1, <2>1, PastGrows
<1> QED BY <1>1, <1>2, SameLines DEF Unwrapped

\* t joins it.
LEMMA JoinsWaiting ==
  ASSUME Roomy, TInv, PInv, NEW t \in Thread, NEW a, NEW b, Move(t, a, b), WaitIn(t), ~Lines(t),
         \/ a = "start" /\ b = "granted_read"
         \/ a = "computed" /\ b = "granted_write"
  PROVE  Unwrapped' /\ \A u : Lines(u)' <=> Lines(u) \/ u = t
<1> DEFINE w == waiting_queue
<1>1. /\ w.head \in Nat /\ w.size \in Nat /\ w.size < THREAD_MAX /\ THREAD_MAX \in Nat
      /\ w.head <= w.size /\ w.size <= Cardinality(PastRead) + Cardinality(PastWrite)
  BY Indices DEF PInv, Unwrapped
<1>2. /\ Cardinality(PastRead) \in Nat /\ Cardinality(PastRead') \in Nat
      /\ Cardinality(PastWrite) \in Nat /\ Cardinality(PastWrite') \in Nat
      /\ Cardinality(PastRead') + Cardinality(PastWrite') >=
           Cardinality(PastRead) + Cardinality(PastWrite) + 1
  <2>1. CASE a = "start" /\ b = "granted_read"
    BY <2>1, PastGrows
  <2>2. CASE a = "computed" /\ b = "granted_write"
    BY <2>2, PastGrows
  <2> QED BY <2>1, <2>2
<1>3. Cardinality(PastRead') + Cardinality(PastWrite') < THREAD_MAX
  <2>1. /\ Cardinality(PastRead') <= Cardinality(Thread)
        /\ Cardinality(PastWrite') <= Cardinality(Thread)
    BY Numbers, FS_Subset DEF PastRead, PastWrite
  <2>2. Cardinality(Thread) \in Nat
    BY Numbers
  <2> QED BY <1>1, <1>2, <2>1, <2>2 DEF Roomy
<1>4. w.size + 1 < THREAD_MAX
  BY <1>1, <1>2, <1>3
<1>5. /\ waiting_queue'.head = w.head /\ waiting_queue'.size = w.size + 1
      /\ waiting_queue'.arr = [w.arr EXCEPT ![w.size] = t]
  <2>1. (w.size + 1) % THREAD_MAX = w.size + 1
    BY <1>1, <1>4
  <2> QED BY <2>1, WaitTypes
<1>6. DOMAIN w.arr = 0..(THREAD_MAX - 1)
  BY Types
<1>7. /\ waiting_queue'.arr[w.size] = t
      /\ \A k \in Visible : waiting_queue'.arr[k] = w.arr[k] /\ k # w.size
      /\ Visible' = Visible \cup {w.size} /\ w.size \notin Visible
  <2>1. Visible' = w.head..w.size /\ Visible = w.head..(w.size - 1)
    BY <1>1, <1>5 DEF Visible
  <2>2. Visible' = Visible \cup {w.size} /\ w.size \notin Visible
    BY <1>1, <2>1
  <2>3. \A k \in Visible : k \in 0..(THREAD_MAX - 1) /\ k # w.size
    BY <1>1, <2>1
  <2>4. waiting_queue'.arr[w.size] = t
    BY <1>1, <1>5, <1>6
  <2> QED BY <1>5, <1>6, <2>2, <2>3, <2>4
<1>8. \A u : Lines(u)' <=> Lines(u) \/ u = t
  BY <1>7 DEF Lines
<1>9. ASSUME NEW m \in Visible', NEW n \in Visible', waiting_queue'.arr[m] = waiting_queue'.arr[n]
      PROVE  m = n
  <2>1. \A k \in Visible : w.arr[k] # t
    BY DEF Lines
  <2>2. \A j, k \in Visible : w.arr[j] = w.arr[k] => j = k
    BY DEF PInv, Unwrapped
  <2> QED BY <1>7, <1>9, <2>1, <2>2
<1>10. waiting_queue'.head <= waiting_queue'.size
  BY <1>1, <1>5
<1>11. waiting_queue'.size <= Cardinality(PastRead') + Cardinality(PastWrite')
  BY <1>1, <1>2, <1>5
<1> QED BY <1>8, <1>9, <1>10, <1>11 DEF Unwrapped

\* Count keeps the places.
LEMMA CountPlaces == ASSUME TInv, PInv, NEW t \in Thread, Count(t) PROVE PInv'
<1>1. PICK a \in {"start", "loop"}, b \in {"loop", "exited"} :
        Move(t, a, b) /\ (b = "loop" => Stays) /\ (b = "exited" => Leaves(3))
  BY CountDoes
<1>2. SameQueues /\ SameLock /\ waiting_queue' = waiting_queue
  BY CountDoes
<1>3. /\ control = "thread" /\ current = t /\ current' = t /\ InCharge' \subseteq {t}
      /\ b = "loop" => InCharge' = {t}
      /\ b = "exited" => InCharge' = {}
  BY <1>1, OthersInCharge DEF Move
<1>4. ~In(t, ready_queue) /\ t \notin sleeping /\ ~Lines(t)
  BY <1>3, Running
<1>5. \A u \in Thread : u # t => OnePlace(u)'
  <2>1. \A u \in Thread : ~(In(u, ready_queue) /\ u \in sleeping)
    BY InMeans DEF OnePlace
  <2> QED BY <1>1, <1>2, <1>3, <2>1, SameLines, Elsewhere DEF SameQueues
<1>6. OnePlace(t)'
  BY <1>1, <1>2, <1>3, <1>4, SameLines DEF OnePlace, SameQueues, Move, In
<1>7. Unwrapped'
  BY <1>1, <1>2, SameWaiting
<1>8. Bunched'
  <2>1. ASSUME write_count' = 0, NEW u \in Thread, Lines(u)'
        PROVE  tcb'[u].waiting_for = 5
    <3>1. Lines(u) /\ u # t
      BY <1>2, <1>4, <2>1, SameLines
    <3>2. tcb[u].waiting_for = 5
      BY <1>2, <1>3, <2>1, <3>1 DEF PInv, Bunched, SameLock
    <3> QED BY <1>1, <3>1, <3>2 DEF Move
  <2> QED BY <2>1 DEF Bunched
<1> QED BY <1>2, <1>5, <1>6, <1>7, <1>8 DEF PInv, SameQueues, Once

\* A step of an enroll that goes on or exits keeps the places.
LEMMA PlainPlaces ==
  ASSUME TInv, PInv, NEW t \in Thread, NEW a, NEW b, Move(t, a, b),
         a \in {"granted_read", "reading", "computed", "granted_write", "writing"},
         b \in {"reading", "computed", "writing", "exited"},
         a \in {"granted_write", "writing"} => b \in {"writing", "exited"},
         b = "exited" => Leaves(3), b # "exited" => Stays,
         SameQueues, waiting_queue' = waiting_queue,
         write_count' = 0 => \/ write_count = 0
                             \/ read_count' = 0 /\ control' = "scheduler"
  PROVE  PInv'
<1>3. /\ control = "thread" /\ current = t /\ current' = t /\ InCharge' \subseteq {t}
      /\ b # "exited" => InCharge' = {t}
      /\ b = "exited" => InCharge' = {}
  BY OthersInCharge DEF Move
<1>4. ~In(t, ready_queue) /\ t \notin sleeping /\ ~Lines(t)
  BY <1>3, Running
<1>5. \A u \in Thread : u # t => OnePlace(u)'
  <2>1. \A u \in Thread : ~(In(u, ready_queue) /\ u \in sleeping)
    BY InMeans DEF OnePlace
  <2> QED BY <1>3, <2>1, SameLines, Elsewhere DEF SameQueues
<1>6. OnePlace(t)'
  BY <1>3, <1>4, SameLines DEF OnePlace, SameQueues, Move, In
<1>7. Unwrapped'
  BY SameWaiting
<1>8. Bunched'
  <2>1. ASSUME write_count' = 0, read_count' > 0 \/ control' = "thread", NEW u \in Thread, Lines(u)'
        PROVE  tcb'[u].waiting_for = 5
    <3>1. Lines(u) /\ u # t
      BY <1>4, <2>1, SameLines
    <3>2. write_count = 0
      BY <2>1
    <3>3. tcb[u].waiting_for = 5
      BY <1>3, <3>1, <3>2 DEF PInv, Bunched
    <3> QED BY <3>1, <3>3 DEF Move
  <2> QED BY <2>1 DEF Bunched
<1> QED BY <1>5, <1>6, <1>7, <1>8 DEF PInv, SameQueues, Once

\* GoToSleep keeps the places.
LEMMA SleepPlaces == ASSUME TInv, PInv, NEW t \in Thread, GoToSleep(t) PROVE PInv'
<1>1. /\ Move(t, "start", "start") /\ Leaves(2)
      /\ sleeping' = sleeping \cup {t} /\ ready_queue' = ready_queue
      /\ SameLock /\ waiting_queue' = waiting_queue
  BY SleepDoes
<1>3. /\ control = "thread" /\ current = t /\ current' = t /\ InCharge' = {}
  BY <1>1, OthersInCharge DEF Move
<1>4. ~In(t, ready_queue) /\ t \notin sleeping /\ ~Lines(t)
  BY <1>3, Running
<1>5. \A u \in Thread : u # t => OnePlace(u)'
  <2>1. \A u \in Thread : ~(In(u, ready_queue) /\ u \in sleeping)
    BY InMeans DEF OnePlace
  <2> QED BY <1>1, <1>3, <2>1, SameLines, Elsewhere
<1>6. OnePlace(t)'
  BY <1>1, <1>3, <1>4, SameLines DEF OnePlace, Move, In
<1>7. Unwrapped'
  BY <1>1, SameWaiting
<1>8. Bunched'
  <2>1. ASSUME write_count' = 0, NEW u \in Thread, Lines(u)'
        PROVE  tcb'[u].waiting_for = 5
    <3>1. Lines(u) /\ u # t
      BY <1>1, <1>4, <2>1, SameLines
    <3>2. tcb[u].waiting_for = 5
      BY <1>1, <1>3, <2>1, <3>1 DEF PInv, Bunched, SameLock
    <3> QED BY <1>1, <3>1, <3>2 DEF Move
  <2> QED BY <2>1 DEF Bunched
<1> QED BY <1>1, <1>5, <1>6, <1>7, <1>8 DEF PInv, Once

\* AcquireRead keeps the places: who is woken was asleep and in no queue.
LEMMA AcquireReadPlaces == ASSUME TInv, PInv, NEW t \in Thread, AcquireRead(t) PROVE PInv'
<1>1. /\ Move(t, "start", "reading") /\ Stays /\ Awake(program[t].b)
      /\ write_count = 0 /\ waiting_queue' = waiting_queue
  BY AcquireReadDoes
<1>3. /\ control = "thread" /\ current = t /\ current' = t /\ InCharge' = {t}
  BY <1>1, OthersInCharge DEF Move
<1>4. ~Lines(t) /\ ~In(t, ready_queue') /\ t \notin sleeping' /\ Once(ready_queue')
  BY <1>1, <1>3, Running, AwakePlaces
<1>5. \A u \in Thread : u # t => OnePlace(u)'
  BY <1>1, <1>3, SameLines, AwakePlaces, Elsewhere
<1>6. OnePlace(t)'
  BY <1>1, <1>3, <1>4, SameLines DEF OnePlace, Move, In
<1>7. Unwrapped'
  BY <1>1, SameWaiting
<1>8. Bunched'
  <2>1. ASSUME NEW u \in Thread, Lines(u)'
        PROVE  tcb'[u].waiting_for = 5
    <3>1. Lines(u) /\ u # t
      BY <1>1, <1>4, <2>1, SameLines
    <3>2. tcb[u].waiting_for = 5
      BY <1>1, <1>3, <3>1 DEF PInv, Bunched
    <3> QED BY <1>1, <3>1, <3>2 DEF Move
  <2> QED BY <2>1 DEF Bunched
<1> QED BY <1>4, <1>5, <1>6, <1>7, <1>8 DEF PInv, Once

\* WaitRead keeps the places.
LEMMA WaitReadPlaces ==
  ASSUME Roomy, TInv, PInv, CountsHaveHolders, NEW t \in Thread, WaitRead(t) PROVE PInv'
<1>1. /\ Move(t, "start", "granted_read") /\ tcb'[t].waiting_for = 4
      /\ Leaves(4) /\ Awake(program[t].b) /\ WaitIn(t) /\ SameLock /\ write_count # 0
  BY WaitReadDoes
<1>3. /\ control = "thread" /\ current = t /\ current' = t /\ InCharge' = {}
  BY <1>1, OthersInCharge DEF Move
<1>4. ~Lines(t) /\ ~In(t, ready_queue') /\ t \notin sleeping' /\ Once(ready_queue')
  BY <1>1, <1>3, Running, AwakePlaces
<1>5. Unwrapped' /\ \A u : Lines(u)' <=> Lines(u) \/ u = t
  BY <1>1, <1>4, JoinsWaiting
<1>6. \A u \in Thread : u # t => OnePlace(u)'
  BY <1>1, <1>3, <1>5, AwakePlaces, Elsewhere
<1>7. OnePlace(t)'
  BY <1>1, <1>3, <1>4, <1>5 DEF OnePlace, Move, In
<1>8. Bunched'
  BY <1>1 DEF Bunched, SameLock
<1> QED BY <1>4, <1>5, <1>6, <1>7, <1>8 DEF PInv, Once

\* WaitWrite keeps the places.
LEMMA WaitWritePlaces ==
  ASSUME Roomy, TInv, PInv, NEW t \in Thread, WaitWrite(t) PROVE PInv'
<1>1. /\ Move(t, "computed", "granted_write") /\ tcb'[t].waiting_for = 5
      /\ Leaves(5) /\ SameQueues /\ WaitIn(t) /\ SameLock
  BY WaitWriteDoes
<1>3. /\ control = "thread" /\ current = t /\ current' = t /\ InCharge' = {}
  BY <1>1, OthersInCharge DEF Move
<1>4. ~In(t, ready_queue) /\ t \notin sleeping /\ ~Lines(t)
  BY <1>3, Running
<1>5. Unwrapped' /\ \A u : Lines(u)' <=> Lines(u) \/ u = t
  BY <1>1, <1>4, JoinsWaiting
<1>6. \A u \in Thread : u # t => OnePlace(u)'
  <2>1. \A u \in Thread : ~(In(u, ready_queue) /\ u \in sleeping)
    BY InMeans DEF OnePlace
  <2> QED BY <1>1, <1>3, <1>5, <2>1, Elsewhere DEF SameQueues
<1>7. OnePlace(t)'
  BY <1>1, <1>3, <1>4, <1>5 DEF OnePlace, Move, In, SameQueues
<1>8. Bunched'
  <2>1. ASSUME write_count' = 0, NEW u \in Thread, Lines(u)'
        PROVE  tcb'[u].waiting_for = 5
    <3>1. CASE u = t
      BY <1>1, <3>1
    <3>2. CASE u # t
      <4>1. Lines(u)
        BY <1>5, <2>1, <3>2
      <4>2. tcb[u].waiting_for = 5
        BY <1>1, <1>3, <2>1, <4>1 DEF PInv, Bunched, SameLock
      <4> QED BY <1>1, <3>2, <4>2 DEF Move
    <3> QED BY <3>1, <3>2
  <2> QED BY <2>1 DEF Bunched
<1> QED BY <1>1, <1>5, <1>6, <1>7, <1>8 DEF PInv, Once, SameQueues

\* Every step of a thread keeps the places.
LEMMA StepPlaces ==
  ASSUME Roomy, TInv, PInv, CountsHaveHolders, NEW t \in Thread, Step(t) PROVE PInv'
<1>1. CASE ResumeRead(t)
  BY <1>1, ResumeReadDoes, PlainPlaces DEF SameLock
<1>2. CASE ReleaseRead(t)
  BY <1>2, ReleaseReadDoes, PlainPlaces
<1>3. CASE AcquireWrite(t)
  BY <1>3, AcquireWriteDoes, PlainPlaces
<1>4. CASE ResumeWrite(t)
  BY <1>4, ResumeWriteDoes, PlainPlaces DEF SameLock
<1>5. CASE ReleaseWrite(t)
  <2>1. /\ Move(t, "writing", "exited") /\ Leaves(3)
        /\ SameQueues /\ waiting_queue' = waiting_queue /\ read_count' = read_count
        /\ write_count' = (IF write_count = 1 THEN 0 ELSE write_count)
    BY <1>5, ReleaseWriteDoes
  <2>2. /\ read_count = 0 \/ write_count = 0
        /\ control' = "scheduler"
    BY <2>1 DEF CountsHaveHolders, Leaves
  <2> QED BY <2>1, <2>2, PlainPlaces
<1> QED BY <1>1, <1>2, <1>3, <1>4, <1>5, CountPlaces, SleepPlaces, AcquireReadPlaces,
           WaitReadPlaces, WaitWritePlaces DEF Step

\* IdleRun keeps the places.
LEMMA IdlePlaces == ASSUME TInv, PInv, IdleRun PROVE PInv'
<1>1. /\ control = "thread" /\ current = Idle /\ current' = Idle
      /\ Unmoved /\ Stays /\ SameQueues /\ SameLock /\ waiting_queue' = waiting_queue
  BY IdleDoes
<1>2. InCharge = {Idle} /\ InCharge' = {Idle}
  BY <1>1 DEF InCharge, Stays
<1>3. \A u \in Thread : OnePlace(u)'
  BY <1>1, <1>2, Numbers, SameLines, InMeans DEF OnePlace, SameQueues, Unmoved, In
<1>4. PastRead' = PastRead /\ PastWrite' = PastWrite
  BY <1>1 DEF PastRead, PastWrite, Unmoved
<1>5. Unwrapped'
  BY <1>1, <1>4, SameLines DEF Unwrapped, PInv
<1>6. Bunched'
  BY <1>1, SameLines DEF Bunched, PInv, SameLock, Unmoved
<1> QED BY <1>1, <1>3, <1>5, <1>6 DEF PInv, SameQueues, Once

-----------------------------------------------------------------------------
(* A pass of the scheduler keeps the places.                               *)

\* All waiters are let go on, or none.
LEMMA AllOrNone ==
  ASSUME TInv, PInv
  PROVE  /\ Granted = Visible \/ Granted = {}
         /\ write_count = 0 /\ read_count = 0 => Granted = Visible
<1>1. \A k \in Visible : /\ waiting_queue.arr[k] \in Thread /\ Lines(waiting_queue.arr[k])
                         /\ tcb[waiting_queue.arr[k]].waiting_for \in {4, 5}
  <2> SUFFICES ASSUME NEW k \in Visible
               PROVE  /\ waiting_queue.arr[k] \in Thread /\ Lines(waiting_queue.arr[k])
                      /\ tcb[waiting_queue.arr[k]].waiting_for \in {4, 5}
    OBVIOUS
  <2>1. waiting_queue.arr[k] \in Thread /\ Lines(waiting_queue.arr[k])
    BY PassFinite DEF Lines
  <2> QED BY <2>1, InMeans DEF OnePlace
<1>2. write_count \in {0, 1} /\ read_count \in Nat
  BY Types
<1>3. CASE write_count = 1
  BY <1>3 DEF Granted, Grantable
<1>4. CASE write_count = 0 /\ read_count = 0
  BY <1>1, <1>4 DEF Granted, Grantable
<1>5. CASE write_count = 0 /\ read_count > 0
  <2>1. \A k \in Visible : tcb[waiting_queue.arr[k]].waiting_for = 5
    BY <1>1, <1>5 DEF PInv, Bunched
  <2> QED BY <1>2, <1>5, <2>1 DEF Granted, Grantable
<1> QED BY <1>2, <1>3, <1>4, <1>5

\* t is let go on.
LetGo(t) == \E n \in Granted : waiting_queue.arr[n] = t

\* The queue the scheduler chooses from.
LEMMA QueueHolds ==
  ASSUME TInv, PInv, NEW woken, NEW let_go, Parts(woken, let_go), control = "scheduler"
  PROVE  LET queue == ready_queue \o woken \o let_go \o Requeued IN
         /\ Once(queue)
         /\ \A t \in Thread : In(t, queue) <=> \/ In(t, ready_queue) \/ t \in Woken
                                               \/ LetGo(t) \/ t \in InCharge
<1> DEFINE q1 == ready_queue \o woken
           q2 == q1 \o let_go
           q3 == q2 \o Requeued
<1>1. /\ ready_queue \in Seq(Thread) /\ woken \in Seq(Thread) /\ let_go \in Seq(Thread)
      /\ q1 \in Seq(Thread) /\ q2 \in Seq(Thread) /\ Requeued \in Seq(Thread)
  <2>1. ready_queue \in Seq(Thread) /\ woken \in Seq(Thread) /\ let_go \in Seq(Thread)
    BY Types DEF Parts
  <2>2. q1 \in Seq(Thread) /\ q2 \in Seq(Thread) /\ Requeued \in Seq(Thread)
    BY PassQueue
  <2> QED BY <2>1, <2>2
<1>2. \A t : In(t, woken) <=> t \in Woken
  BY DEF Parts, In
<1>3. \A t : In(t, let_go) <=> LetGo(t)
  <2>1. ASSUME NEW t, In(t, let_go)
        PROVE  LetGo(t)
    <3>1. PICK k \in 1..Len(let_go) : let_go[k] = t
      BY <2>1 DEF In
    <3> QED BY <3>1 DEF Parts, LetGo
  <2>2. ASSUME NEW t, LetGo(t)
        PROVE  In(t, let_go)
    <3>1. PICK n \in Granted : waiting_queue.arr[n] = t
      BY <2>2 DEF LetGo
    <3>2. PICK k \in 1..Len(let_go) : let_go[k] = waiting_queue.arr[n]
      BY DEF Parts
    <3> QED BY <3>1, <3>2 DEF In
  <2> QED BY <2>1, <2>2
<1>4. Once(ready_queue) /\ Once(woken) /\ Once(let_go)
  <2>1. \A m, n \in Granted : waiting_queue.arr[m] = waiting_queue.arr[n] => m = n
    BY DEF PInv, Unwrapped, Granted
  <2> QED BY <2>1 DEF PInv, Parts, Once
<1>5. \A t \in Thread : In(t, Requeued) <=> t \in InCharge
  <2>1. CASE status = 1 /\ current # Idle
    <3>1. Requeued = <<current>> /\ InCharge = {current}
      BY <2>1 DEF Requeued, InCharge
    <3> QED BY <3>1 DEF In
  <2>2. CASE ~(status = 1 /\ current # Idle)
    <3>1. Requeued = << >> /\ InCharge \subseteq {Idle}
      BY <2>2 DEF Requeued, InCharge
    <3> QED BY <3>1, Numbers DEF In
  <2> QED BY <2>1, <2>2
<1>6. Once(Requeued)
  <2>1. CASE status = 1 /\ current # Idle
    BY <2>1 DEF Requeued, Once
  <2>2. CASE ~(status = 1 /\ current # Idle)
    BY <2>2 DEF Requeued, Once
  <2> QED BY <2>1, <2>2
<1>7. \A t \in Thread : /\ ~(In(t, ready_queue) /\ t \in Woken)
                        /\ ~(LetGo(t) /\ (In(t, ready_queue) \/ t \in Woken))
                        /\ ~(t \in InCharge /\ (In(t, ready_queue) \/ t \in Woken \/ LetGo(t)))
  BY InMeans DEF OnePlace, LetGo, Woken, Lines, Granted
<1> HIDE DEF q1, q2, q3
<1>8. Once(q1) /\ \A t : In(t, q1) <=> In(t, ready_queue) \/ t \in Woken
  <2>1. \A t : In(t, q1) <=> In(t, ready_queue) \/ t \in Woken
    BY <1>1, <1>2, ConcatIn DEF q1
  <2>2. Once(q1)
    BY <1>1, <1>2, <1>4, <1>7, ConcatOnce DEF q1
  <2> QED BY <2>1, <2>2
<1>9. Once(q2) /\ \A t : In(t, q2) <=> In(t, ready_queue) \/ t \in Woken \/ LetGo(t)
  <2>1. \A t : In(t, q2) <=> In(t, ready_queue) \/ t \in Woken \/ LetGo(t)
    BY <1>1, <1>3, <1>8, ConcatIn DEF q2
  <2>2. Once(q2)
    BY <1>1, <1>3, <1>4, <1>7, <1>8, ConcatOnce DEF q2
  <2> QED BY <2>1, <2>2
<1>10. /\ Once(q3)
       /\ \A t \in Thread : In(t, q3) <=> In(t, ready_queue) \/ t \in Woken \/ LetGo(t) \/ t \in InCharge
  <2>1. \A t \in Thread : In(t, q3) <=> In(t, ready_queue) \/ t \in Woken \/ LetGo(t) \/ t \in InCharge
    BY <1>1, <1>5, <1>9, ConcatIn DEF q3
  <2>2. Once(q3)
    BY <1>1, <1>5, <1>6, <1>7, <1>9, ConcatOnce DEF q3
  <2> QED BY <2>1, <2>2
<1> QED BY <1>10 DEF q1, q2, q3

\* Everyone in that queue is ready or in charge afterwards.
LEMMA DispatchPlaces ==
  ASSUME TInv, PInv, NEW queue \in Seq(Thread), Once(queue), status' = 0,
         \A k \in 1..Len(queue) : queue[k] \notin sleeping \ Woken,
         Choose(queue, sleeping \ Woken)
  PROVE  /\ Once(ready_queue')
         /\ \A t \in Thread : /\ In(t, queue) <=> In(t, ready_queue') \/ t \in InCharge'
                              /\ ~(In(t, ready_queue') /\ t \in InCharge')
<1>1. CASE queue = << >>
  <2>1. ready_queue' = << >> /\ InCharge' \subseteq {Idle}
    BY <1>1, ChooseDoes DEF InCharge
  <2>2. \A t : ~In(t, << >>)
    BY DEF In
  <2> QED BY <1>1, <2>1, <2>2, Numbers DEF Once
<1>2. CASE queue # << >>
  <2>1. /\ control' = "thread" /\ current' = queue[1]
        /\ ready_queue' = SubSeq(queue, 2, Len(queue))
    BY <1>2, ChooseDoes
  <2>2. InCharge' = {queue[1]}
    BY <2>1 DEF InCharge
  <2>3. /\ Once(ready_queue')
        /\ \A x : In(x, ready_queue') <=> In(x, queue) /\ x # queue[1]
    BY <1>2, <2>1, RestIn
  <2>4. In(queue[1], queue)
    <3>1. Len(queue) \in Nat /\ Len(queue) # 0
      BY <1>2, LenProperties, EmptySeq
    <3> QED BY <3>1 DEF In
  <2> QED BY <2>2, <2>3, <2>4
<1> QED BY <1>1, <1>2

\* What is left of the waiting queue.
LEMMA PassWaiting ==
  ASSUME TInv, PInv, Unmoved,
         waiting_queue' = [waiting_queue EXCEPT !.head = (@ + Cardinality(Granted)) % THREAD_MAX]
  PROVE  /\ Unwrapped'
         /\ \A t : Lines(t)' <=> Lines(t) /\ ~LetGo(t)
<1> DEFINE w == waiting_queue
<1>1. /\ w.head \in Nat /\ w.size \in Nat /\ w.head < THREAD_MAX /\ w.size < THREAD_MAX
      /\ THREAD_MAX \in Nat /\ w.head <= w.size
  BY Indices DEF PInv, Unwrapped
<1>2. /\ waiting_queue'.arr = w.arr /\ waiting_queue'.size = w.size
      /\ waiting_queue'.head = (w.head + Cardinality(Granted)) % THREAD_MAX
  BY DEF TInv, TypeOK
<1>3. \A x \in Nat : x < THREAD_MAX => x % THREAD_MAX = x
  BY <1>1
<1>4. PastRead' = PastRead /\ PastWrite' = PastWrite
  BY DEF PastRead, PastWrite, Unmoved
<1>5. CASE Granted = {}
  <2>1. waiting_queue'.head = w.head
    BY <1>1, <1>2, <1>3, <1>5, FS_EmptySet
  <2>2. Visible' = Visible
    BY <1>2, <2>1 DEF Visible
  <2>3. \A t : Lines(t)' <=> Lines(t) /\ ~LetGo(t)
    BY <1>2, <1>5, <2>2 DEF Lines, LetGo
  <2> QED BY <1>2, <1>4, <2>1, <2>2, <2>3 DEF PInv, Unwrapped
<1>6. CASE Granted = Visible
  <2>1. Cardinality(Visible) = w.size - w.head
    <3>1. Cardinality(w.head..(w.size - 1)) = IF w.head > w.size - 1 THEN 0 ELSE w.size - 1 - w.head + 1
      BY <1>1, FS_Interval
    <3> QED BY <1>1, <3>1 DEF Visible
  <2>2. waiting_queue'.head = w.size
    <3>1. w.head + (w.size - w.head) = w.size
      BY <1>1
    <3> QED BY <1>1, <1>2, <1>3, <1>6, <2>1, <3>1
  <2>3. Visible' = {}
    BY <1>1, <1>2, <2>2 DEF Visible
  <2>4. \A t : Lines(t)' <=> Lines(t) /\ ~LetGo(t)
    BY <1>6, <2>3 DEF Lines, LetGo
  <2>5. waiting_queue'.head <= waiting_queue'.size
    BY <1>1, <1>2, <2>2
  <2> QED BY <1>2, <1>4, <2>3, <2>4, <2>5 DEF PInv, Unwrapped
<1> QED BY <1>5, <1>6, AllOrNone

\* A pass of the scheduler keeps the places.
LEMMA SchedulePlaces == ASSUME TInv, PInv, Schedule PROVE PInv'
<1>1. PICK woken, let_go :
           /\ Parts(woken, let_go)
           /\ waiting_queue' = [waiting_queue EXCEPT
                                  !.head = (@ + Cardinality(Granted)) % THREAD_MAX]
           /\ Choose(ready_queue \o woken \o let_go \o Requeued, sleeping \ Woken)
  BY PassDoes
<1> DEFINE queue == ready_queue \o woken \o let_go \o Requeued
<1>2. /\ control = "scheduler" /\ status' = 0 /\ Unmoved /\ SameLock /\ sleeping' = sleeping \ Woken
  BY ScheduleMovesNone
<1>3. queue \in Seq(Thread)
  BY <1>1, PassQueue
<1>4. /\ Once(queue)
      /\ \A t \in Thread : In(t, queue) <=> \/ In(t, ready_queue) \/ t \in Woken
                                            \/ LetGo(t) \/ t \in InCharge
  BY <1>1, <1>2, QueueHolds
<1> HIDE DEF queue
<1>5. \A k \in 1..Len(queue) : queue[k] \notin sleeping \ Woken
  <2> SUFFICES ASSUME NEW k \in 1..Len(queue), queue[k] \in sleeping \ Woken PROVE FALSE
    OBVIOUS
  <2>1. queue[k] \in Thread /\ In(queue[k], queue)
    BY <1>3, ElementOfSeq DEF In
  <2>2. PICK t \in Thread : t = queue[k]
    BY <2>1
  <2>3. In(t, ready_queue) \/ LetGo(t) \/ t \in InCharge
    BY <1>4, <2>1, <2>2
  <2>4. LetGo(t) => Lines(t)
    BY DEF LetGo, Lines, Granted
  <2> QED BY <2>2, <2>3, <2>4, InMeans DEF OnePlace
<1>6. /\ Once(ready_queue')
      /\ \A t \in Thread : /\ In(t, queue) <=> In(t, ready_queue') \/ t \in InCharge'
                           /\ ~(In(t, ready_queue') /\ t \in InCharge')
  BY <1>1, <1>2, <1>3, <1>4, <1>5, DispatchPlaces DEF queue
<1>7. Unwrapped' /\ \A t : Lines(t)' <=> Lines(t) /\ ~LetGo(t)
  BY <1>1, <1>2, PassWaiting
<1>8. ASSUME NEW t \in Thread
      PROVE  OnePlace(t)'
  <2>1. OnePlace(t) /\ tcb'[t].pc = tcb[t].pc /\ tcb'[t].waiting_for = tcb[t].waiting_for
    BY <1>2, InMeans DEF Unmoved
  <2>2. LetGo(t) => Lines(t)
    BY DEF LetGo, Lines, Granted
  <2>3. Woken \subseteq sleeping
    BY DEF Woken
  <2>4. In(t, queue) <=> In(t, ready_queue) \/ t \in Woken \/ LetGo(t) \/ t \in InCharge
    BY <1>4
  <2>5. /\ In(t, queue) <=> In(t, ready_queue') \/ t \in InCharge'
        /\ ~(In(t, ready_queue') /\ t \in InCharge')
    BY <1>6
  <2>6. Lines(t)' <=> Lines(t) /\ ~LetGo(t)
    BY <1>7
  <2>7. (In(t, ready_queue))' <=> In(t, ready_queue')
    BY DEF In
  <2>8. tcb[t].pc # "exited" \/ ~In(t, queue)
    BY <2>1, <2>2, <2>3, <2>4 DEF OnePlace
  <2> QED BY <1>2, <2>1, <2>2, <2>3, <2>4, <2>5, <2>6, <2>7, <2>8 DEF OnePlace
<1>9. Bunched'
  <2>1. CASE write_count = 0 /\ read_count = 0
    <3>1. Granted = Visible
      BY <2>1, AllOrNone
    <3>2. \A t : ~Lines(t)'
      BY <1>7, <3>1 DEF LetGo, Lines
    <3> QED BY <3>2 DEF Bunched
  <2>2. CASE ~(write_count = 0 /\ read_count = 0)
    <3>1. write_count' = 0 => read_count > 0 /\ write_count = 0
      BY <1>2, <2>2, Types DEF SameLock
    <3>2. \A t : Lines(t)' => Lines(t)
      BY <1>7
    <3> QED BY <1>2, <3>1, <3>2 DEF Bunched, PInv, Unmoved
  <2> QED BY <2>1, <2>2
<1> QED BY <1>6, <1>7, <1>8, <1>9 DEF PInv, Once

\* Initially every thread is in the ready queue, once.
LEMMA InitPlaces == Init => PInv
<1> SUFFICES ASSUME Init PROVE PInv
  OBVIOUS
<1>1. /\ ready_queue = [k \in 1..Cardinality(Thread) |-> k] /\ Thread = 1..Cardinality(Thread)
      /\ Cardinality(Thread) \in Nat
  BY Numbers, ThreadAssumption DEF Init
<1>2. /\ Len(ready_queue) = Cardinality(Thread)
      /\ \A k \in 1..Cardinality(Thread) : ready_queue[k] = k
  BY <1>1
<1>3. Once(ready_queue) /\ \A t \in Thread : In(t, ready_queue)
  BY <1>1, <1>2 DEF Once, In
<1>4. /\ waiting_queue.head = 0 /\ waiting_queue.size = 0 /\ Visible = {}
      /\ sleeping = {} /\ InCharge = {} /\ control = "scheduler" /\ read_count = 0
      /\ \A t \in Thread : tcb[t].pc = "start"
  BY DEF Init, Visible, InCharge
<1>5. \A t \in Thread : OnePlace(t)
  BY <1>3, <1>4 DEF OnePlace, Lines
<1>6. Unwrapped
  <2>1. Cardinality(PastRead) \in Nat /\ Cardinality(PastWrite) \in Nat
    BY HoldersFinite DEF PastRead, PastWrite
  <2> QED BY <1>4, <2>1 DEF Unwrapped
<1>7. Bunched
  BY <1>4 DEF Bunched
<1> QED BY <1>3, <1>5, <1>6, <1>7 DEF PInv

\* Every step keeps the places.
LEMMA NextPlaces ==
  ASSUME Roomy
  PROVE  TInv /\ CountsHaveHolders /\ PInv /\ [Next]_vars => PInv'
<1> SUFFICES ASSUME TInv, CountsHaveHolders, PInv, [Next]_vars PROVE PInv'
  OBVIOUS
<1>1. CASE UNCHANGED vars
  BY <1>1 DEF vars, PInv, OnePlace, Once, Unwrapped, Bunched, Lines, Visible, InCharge, In,
              PastRead, PastWrite
<1> QED BY <1>1, SchedulePlaces, IdlePlaces, StepPlaces DEF Next

\* PInv is an invariant while the waiting queue has room.
LEMMA PlacesInvariance ==
  ASSUME Roomy
  PROVE  Spec => []PInv
BY InitPlaces, NextPlaces, TypesInvariance, CountsInvariance, PTL DEF Spec

-----------------------------------------------------------------------------
(* What follows from the places.                                           *)

\* The waiting queue, read as a circular array.
LEMMA WaitingIsLines ==
  ASSUME TInv, PInv, NEW t
  PROVE  t \in Waiting <=> Lines(t)
<1> DEFINE w == waiting_queue
           length == (w.size - w.head) % THREAD_MAX
<1>1. /\ w.head \in Nat /\ w.size \in Nat /\ w.head < THREAD_MAX /\ w.size < THREAD_MAX
      /\ THREAD_MAX \in Nat /\ w.head <= w.size
  BY Indices DEF PInv, Unwrapped
<1>2. \A x \in Nat : x < THREAD_MAX => x % THREAD_MAX = x
  BY <1>1
<1>3. length = w.size - w.head
  <2>1. w.size - w.head \in Nat /\ w.size - w.head < THREAD_MAX
    BY <1>1
  <2> QED BY <1>2, <2>1
<1>4. ASSUME NEW k \in 0..(length - 1)
      PROVE  (w.head + k) % THREAD_MAX = w.head + k /\ w.head + k \in Visible
  <2>1. w.head + k \in Nat /\ w.head + k < THREAD_MAX /\ w.head + k \in w.head..(w.size - 1)
    BY <1>1, <1>3
  <2> QED BY <1>2, <2>1 DEF Visible
<1>5. ASSUME NEW n \in Visible
      PROVE  n - w.head \in 0..(length - 1) /\ w.head + (n - w.head) = n
  BY <1>1, <1>3 DEF Visible
<1>6. ASSUME t \in Waiting
      PROVE  Lines(t)
  <2>1. PICK k \in 0..(length - 1) : w.arr[(w.head + k) % THREAD_MAX] = t
    BY <1>6 DEF Waiting
  <2> QED BY <1>4, <2>1 DEF Lines
<1>7. ASSUME Lines(t)
      PROVE  t \in Waiting
  <2>1. PICK n \in Visible : w.arr[n] = t
    BY <1>7 DEF Lines
  <2>2. n - w.head \in 0..(length - 1) /\ w.arr[(w.head + (n - w.head)) % THREAD_MAX] = t
    BY <1>4, <1>5, <2>1
  <2> QED BY <2>2 DEF Waiting
<1> QED BY <1>6, <1>7

\* PInv puts every thread in one place.
LEMMA PlacesAreOne == TInv /\ PInv => OnePlaceEach
<1> SUFFICES ASSUME TInv, PInv PROVE OnePlaceEach
  OBVIOUS
<1> SUFFICES ASSUME NEW t \in Thread
             PROVE  LET ready == {k \in DOMAIN ready_queue : ready_queue[k] = t}
                        places == {p \in {"charge", "ready", "asleep", "waiting", "exited"} :
                                     \/ p = "charge" /\ t \in InCharge
                                     \/ p = "ready" /\ ready # {}
                                     \/ p = "asleep" /\ t \in sleeping
                                     \/ p = "waiting" /\ t \in Waiting
                                     \/ p = "exited" /\ t \in Exited}
                    IN Cardinality(ready) <= 1 /\ Cardinality(places) = 1
  BY Zenon DEF OnePlaceEach
<1> DEFINE ready == {k \in DOMAIN ready_queue : ready_queue[k] = t}
           places == {p \in {"charge", "ready", "asleep", "waiting", "exited"} :
                        \/ p = "charge" /\ t \in InCharge
                        \/ p = "ready" /\ ready # {}
                        \/ p = "asleep" /\ t \in sleeping
                        \/ p = "waiting" /\ t \in Waiting
                        \/ p = "exited" /\ t \in Exited}
<1>1. OnePlace(t) /\ Once(ready_queue) /\ DOMAIN ready_queue = 1..Len(ready_queue)
  BY Types, LenProperties, InMeans DEF PInv
<1>2. ready # {} <=> In(t, ready_queue)
  BY <1>1 DEF In
<1>3. Cardinality(ready) <= 1
  <2>1. CASE ready = {}
    BY <2>1, FS_EmptySet
  <2>2. CASE ready # {}
    <3>1. PICK k \in ready : TRUE
      BY <2>2
    <3>2. ready = {k}
      BY <1>1, <3>1 DEF Once
    <3>3. Cardinality({k}) = 1
      BY FS_Singleton
    <3> QED BY <3>2, <3>3
  <2> QED BY <2>1, <2>2
<1>4. t \in Waiting <=> Lines(t)
  BY WaitingIsLines
<1>5. t \in Exited <=> tcb[t].pc = "exited"
  BY DEF Exited
<1> HIDE DEF ready
<1>6. \E p : places = {p}
  <2>1. CASE In(t, ready_queue)
    <3>1. ~(t \in sleeping) /\ ~(t \in Waiting) /\ ~(t \in InCharge) /\ ~(t \in Exited) /\ ready # {}
      BY <1>1, <1>2, <1>4, <1>5, <2>1 DEF OnePlace
    <3> QED BY <3>1
  <2>2. CASE t \in sleeping
    <3>1. ready = {} /\ ~(t \in Waiting) /\ ~(t \in InCharge) /\ ~(t \in Exited)
      BY <1>1, <1>2, <1>4, <1>5, <2>2 DEF OnePlace
    <3> QED BY <2>2, <3>1
  <2>3. CASE Lines(t)
    <3>1. ready = {} /\ ~(t \in sleeping) /\ ~(t \in InCharge) /\ ~(t \in Exited) /\ t \in Waiting
      BY <1>1, <1>2, <1>4, <1>5, <2>3 DEF OnePlace
    <3> QED BY <3>1
  <2>4. CASE t \in InCharge
    <3>1. ready = {} /\ ~(t \in sleeping) /\ ~(t \in Waiting) /\ ~(t \in Exited)
      BY <1>1, <1>2, <1>4, <1>5, <2>4 DEF OnePlace
    <3> QED BY <2>4, <3>1
  <2>5. CASE tcb[t].pc = "exited"
    <3>1. ready = {} /\ ~(t \in sleeping) /\ ~(t \in Waiting) /\ ~(t \in InCharge) /\ t \in Exited
      BY <1>1, <1>2, <1>4, <1>5, <2>5 DEF OnePlace
    <3> QED BY <3>1
  <2> QED BY <1>1, <2>1, <2>2, <2>3, <2>4, <2>5 DEF OnePlace
<1>7. Cardinality(places) = 1
  <2>1. PICK p : places = {p}
    BY <1>6
  <2> QED BY <2>1, FS_Singleton
<1> QED BY <1>3, <1>7 DEF ready

\* OnePlaceEach of the runs: while the waiting queue has room, no thread is
\* lost and none is in two places.
THEOREM NobodyLost ==
  ASSUME Roomy
  PROVE  Spec => []OnePlaceEach
BY PlacesAreOne, PlacesInvariance, TypesInvariance, PTL

\* GrantsFromHead of the runs: then a pass lets go on the whole waiting queue
\* or nobody, so counting head up by the number let go on is right.
THEOREM GrantsTakeHead ==
  ASSUME Roomy
  PROVE  Spec => []GrantsFromHead
<1>1. TInv /\ PInv => GrantsFromHead
  <2> SUFFICES ASSUME TInv, PInv, NEW k \in Granted
               PROVE  waiting_queue.head..k \subseteq Granted
    BY DEF GrantsFromHead
  <2>1. Granted = Visible
    BY AllOrNone
  <2>2. waiting_queue.head \in Nat /\ waiting_queue.size \in Nat
    BY Indices
  <2> QED BY <2>1, <2>2 DEF Visible
<1> QED BY <1>1, PlacesInvariance, TypesInvariance, PTL

\* When the scheduler finds nobody ready and nobody asleep, the last thread
\* has exited: a waiter would be waiting for a holder that is ready.
LEMMA LastPass ==
  ASSUME TInv, PInv, CountsHaveHolders, Schedule, control' = "returned"
  PROVE  Exited' = Thread
<1>1. PICK woken, let_go :
           /\ Parts(woken, let_go)
           /\ Choose(ready_queue \o woken \o let_go \o Requeued, sleeping \ Woken)
  BY PassDoes
<1> DEFINE queue == ready_queue \o woken \o let_go \o Requeued
<1>2. control = "scheduler" /\ Unmoved
  BY ScheduleMovesNone
<1>3. queue = << >> /\ sleeping \ Woken = {}
  BY <1>1, PassQueue, ChooseDoes
<1>4. \A t \in Thread : ~In(t, ready_queue) /\ t \notin Woken /\ ~LetGo(t) /\ t \notin InCharge
  <2>1. \A t : ~In(t, << >>)
    BY DEF In
  <2>2. \A t \in Thread : ~In(t, queue)
    BY <1>3, <2>1
  <2> QED BY <1>1, <1>2, <2>2, QueueHolds
<1>5. \A t \in Thread : Lines(t) \/ tcb[t].pc = "exited"
  BY <1>3, <1>4, InMeans DEF OnePlace
<1>6. Reading = {} /\ Writing = {}
  BY <1>5, InMeans DEF OnePlace, Reading, Writing
<1>7. write_count = 0 /\ read_count = 0
  <2>1. Cardinality(Reading) = 0
    BY <1>6, FS_EmptySet
  <2>2. read_count \in Nat /\ write_count \in {0, 1}
    BY Types
  <2> QED BY <1>6, <2>1, <2>2 DEF CountsHaveHolders
<1>8. \A t : Lines(t) => LetGo(t)
  BY <1>7, AllOrNone DEF Lines, LetGo
<1>9. \A t \in Thread : tcb'[t].pc = "exited"
  BY <1>2, <1>4, <1>5, <1>8 DEF Unmoved
<1> QED BY <1>9 DEF Exited

\* ReturnsWhenAllExited of the runs: then the scheduler returns only when
\* every thread has exited.
THEOREM ReturnsLast ==
  ASSUME Roomy
  PROVE  Spec => []ReturnsWhenAllExited
<1>1. Init => ReturnsWhenAllExited
  BY DEF Init, ReturnsWhenAllExited
<1>2. TInv /\ PInv /\ CountsHaveHolders /\ ReturnsWhenAllExited /\ [Next]_vars
        => ReturnsWhenAllExited'
  <2> SUFFICES ASSUME TInv, PInv, CountsHaveHolders, ReturnsWhenAllExited, [Next]_vars
               PROVE  ReturnsWhenAllExited'
    OBVIOUS
  <2>1. CASE UNCHANGED vars
    BY <2>1 DEF vars, ReturnsWhenAllExited, Exited
  <2>2. CASE Schedule
    BY <2>2, LastPass DEF ReturnsWhenAllExited
  <2>3. CASE IdleRun
    BY <2>3, IdleDoes DEF ReturnsWhenAllExited, Stays
  <2>4. ASSUME NEW t \in Thread, Step(t)
        PROVE  ReturnsWhenAllExited'
    <3>1. control = "thread"
      BY <2>4 DEF Step, Count, GoToSleep, AcquireRead, WaitRead, ResumeRead, ReleaseRead,
                  AcquireWrite, WaitWrite, ResumeWrite, ReleaseWrite, Runs
    <3>2. control' # "returned"
      BY <2>4, <3>1 DEF Step, Count, GoToSleep, AcquireRead, WaitRead, ResumeRead, ReleaseRead,
                  AcquireWrite, WaitWrite, ResumeWrite, ReleaseWrite, Yield, Enter
    <3> QED BY <3>2 DEF ReturnsWhenAllExited
  <2> QED BY <2>1, <2>2, <2>3, <2>4 DEF Next
<1> QED BY <1>1, <1>2, PlacesInvariance, TypesInvariance, CountsInvariance, PTL DEF Spec
=============================================================================
