------------------------ MODULE SchedulerCountProofs ------------------------
(***************************************************************************)
(* Proof that fibonacci and pm count right, up to any number.  It takes    *)
(* two inductions over the natural numbers, one for the definition of Fib  *)
(* by recursion and one along the run.  The library's induction theorems   *)
(* are about operators; the first induction rests on WFMin instead, which  *)
(* is about sets: strict inclusion is well founded on finite sets, so a    *)
(* nonempty set of numbers has a least one.                                *)
(***************************************************************************)
EXTENDS SchedulerProofs, WellFoundedInduction

\* A nonempty set of natural numbers has a least one.
LEMMA LeastNat ==
  ASSUME NEW T, T \subseteq Nat, T # {}
  PROVE  \E m \in T : \A k \in T : m <= k
<1> DEFINE Below == {0..n : n \in T}
<1>1. Below \subseteq FiniteSubsetsOf(Nat) /\ Below # {}
  <2>1. \A n \in T : IsFiniteSet(0..n) /\ 0..n \subseteq Nat
    BY FS_Interval
  <2> QED BY <2>1 DEF FiniteSubsetsOf
<1>2. IsWellFoundedOn(StrictSubsetOrdering(Nat), FiniteSubsetsOf(Nat))
  BY FS_StrictSubsetOrderingWellFounded
<1> HIDE DEF Below
<1>3. PICK S \in Below : \A R \in Below : <<R, S>> \notin StrictSubsetOrdering(Nat)
  BY <1>1, <1>2, WFMin
<1>4. PICK m \in T : S = 0..m
  BY <1>3 DEF Below
<1>5. ASSUME NEW k \in T, k < m
      PROVE  FALSE
  <2>1. 0..k \in Below /\ 0..k \subseteq S /\ m \in S /\ m \notin 0..k
    BY <1>4, <1>5 DEF Below
  <2>2. <<0..k, S>> \in StrictSubsetOrdering(Nat)
    BY <2>1, <1>4 DEF StrictSubsetOrdering
  <2> QED BY <1>3, <2>1, <2>2
<1> QED BY <1>5

\* Induction: a set with 0 in it, and n + 1 with n, has all numbers in it.
LEMMA Counting ==
  ASSUME NEW T, 0 \in T, \A n \in Nat : n \in T => n + 1 \in T
  PROVE  Nat \subseteq T
<1> SUFFICES ASSUME Nat \ T # {}
             PROVE  FALSE
  OBVIOUS
<1>1. PICK m \in Nat \ T : \A k \in Nat \ T : m <= k
  BY LeastNat
<1>2. m - 1 \in Nat /\ m - 1 \in T
  BY <1>1
<1> QED BY <1>1, <1>2

-----------------------------------------------------------------------------
(* The definition of Fib.                                                  *)

\* g is what Fib should be up to n.
Starts(g, n) ==
  /\ g \in [0..n -> Nat]
  /\ \A k \in 0..n : g[k] = IF k <= 2 THEN 1 ELSE g[k - 1] + g[k - 2]

\* There is a start of any length.
LEMMA StartsExist == \A n \in Nat : \E g : Starts(g, n)
<1> DEFINE T == {n \in Nat : \E g : Starts(g, n)}
<1>1. 0 \in T
  <2>1. Starts([k \in 0..0 |-> 1], 0)
    BY DEF Starts
  <2> QED BY <2>1
<1>2. ASSUME NEW n \in Nat, n \in T
      PROVE  n + 1 \in T
  <2>1. PICK g : Starts(g, n)
    BY <1>2
  <2> DEFINE h == [k \in 0..(n + 1) |->
                     IF k <= n THEN g[k] ELSE IF k <= 2 THEN 1 ELSE g[n] + g[n - 1]]
  <2>2. h \in [0..(n + 1) -> Nat]
    BY <2>1 DEF Starts
  <2>3. ASSUME NEW k \in 0..(n + 1)
        PROVE  h[k] = IF k <= 2 THEN 1 ELSE h[k - 1] + h[k - 2]
    <3>1. CASE k <= n
      BY <2>1, <3>1 DEF Starts
    <3>2. CASE k = n + 1
      BY <3>2
    <3> QED BY <3>1, <3>2
  <2>4. Starts(h, n + 1)
    BY <2>2, <2>3 DEF Starts
  <2> QED BY <2>4
<1> QED BY <1>1, <1>2, Counting

\* Two starts agree as far as both go.
LEMMA StartsAgree ==
  ASSUME NEW m \in Nat, NEW n \in Nat, NEW g, NEW h, Starts(g, m), Starts(h, n)
  PROVE  \A k \in 0..m : k <= n => g[k] = h[k]
<1> DEFINE D == {k \in 0..m : k <= n /\ g[k] # h[k]}
<1> SUFFICES ASSUME D # {}
             PROVE  FALSE
  OBVIOUS
<1>1. PICK k \in D : \A j \in D : k <= j
  <2>1. D \subseteq Nat
    OBVIOUS
  <2> HIDE DEF D
  <2> QED BY <2>1, LeastNat
<1>2. k > 2 => g[k - 1] = h[k - 1] /\ g[k - 2] = h[k - 2]
  BY <1>1
<1>3. g[k] = h[k]
  BY <1>1, <1>2 DEF Starts
<1> QED BY <1>1, <1>3

\* Fib is what its definition says.
LEMMA FibIs == \A k \in Nat : Fib[k] = IF k <= 2 THEN 1 ELSE Fib[k - 1] + Fib[k - 2]
<1> DEFINE start == [n \in Nat |-> CHOOSE g : Starts(g, n)]
           F == [k \in Nat |-> start[k][k]]
<1>1. \A n \in Nat : Starts(start[n], n)
  BY StartsExist
<1> HIDE DEF start
<1>2. ASSUME NEW k \in Nat
      PROVE  F[k] = IF k <= 2 THEN 1 ELSE F[k - 1] + F[k - 2]
  <2>1. CASE k <= 2
    BY <1>1, <2>1 DEF Starts
  <2>2. CASE k > 2
    <3>1. start[k][k] = start[k][k - 1] + start[k][k - 2]
      BY <1>1, <2>2 DEF Starts
    <3>2. start[k][k - 1] = start[k - 1][k - 1] /\ start[k][k - 2] = start[k - 2][k - 2]
      <4>1. k - 1 \in Nat /\ k - 2 \in Nat
        BY <2>2
      <4>2. Starts(start[k - 1], k - 1) /\ Starts(start[k - 2], k - 2) /\ Starts(start[k], k)
        BY <1>1, <4>1
      <4> QED BY <4>1, <4>2, StartsAgree
    <3> QED BY <2>2, <3>1, <3>2
  <2> QED BY <2>1, <2>2
<1>3. F = [k \in Nat |-> IF k <= 2 THEN 1 ELSE F[k - 1] + F[k - 2]]
  BY <1>2
<1> HIDE DEF F
<1>4. Fib = [k \in Nat |-> IF k <= 2 THEN 1 ELSE Fib[k - 1] + Fib[k - 2]]
  BY <1>3 DEF Fib
<1> QED BY <1>4

-----------------------------------------------------------------------------
(* The loops.                                                              *)

\* An enroll does not count; f_prev of a fibonacci is the number before f_cur.
Counted(routine, x) ==
  /\ routine = "enroll" => x.i = 0
  /\ routine = "fibonacci" /\ x.i > 0 => x.f_cur = Fib[x.i] /\ x.f_prev = Fib[x.i - 1]
  /\ routine = "pm" /\ x.i > 0 => x.f_cur = AlternatingSum(x.i)

AllCounted == \A t \in Thread : Counted(program[t].routine, tcb[t])

SameNumbers(x, y) == x.i = y.i /\ x.f_cur = y.f_cur /\ x.f_prev = y.f_prev

\* A thread whose numbers a step leaves alone has still counted right.
LEMMA StillCounted ==
  ASSUME NEW t \in Thread, Counted(program[t].routine, tcb[t]), program' = program,
         SameNumbers(tcb'[t], tcb[t])
  PROVE  Counted(program[t].routine, tcb[t])'
BY DEF Counted, SameNumbers

\* One turn of fibonacci.
LEMMA FibonacciTurn ==
  ASSUME NEW x \in Block, Counted("fibonacci", x), NEW a \in PC
  PROVE  Counted("fibonacci", [FibonacciValues(x, x.i + 1) EXCEPT !.i = x.i + 1, !.pc = a])
<1> DEFINE y == FibonacciValues(x, x.i + 1)
           z == [y EXCEPT !.i = x.i + 1, !.pc = a]
<1>1. x.i \in Nat /\ y \in Block
  <2>1. x.i \in Nat /\ x.i + 1 \in Nat
    BY DEF Block
  <2> QED BY <2>1, Computes
<1>2. z.i = x.i + 1 /\ z.f_cur = y.f_cur /\ z.f_prev = y.f_prev
  <2> HIDE DEF y
  <2> QED BY <1>1 DEF Block
<1>3. y.f_cur = Fib[x.i + 1] /\ y.f_prev = Fib[x.i]
  <2>1. CASE x.i + 1 <= 2
    <3>1. y.f_cur = 1 /\ y.f_prev = 1
      BY <2>1 DEF FibonacciValues, Block
    <3> QED BY <1>1, <2>1, <3>1, FibIs
  <2>2. CASE x.i + 1 > 2
    <3>1. y.f_cur = x.f_cur + x.f_prev /\ y.f_prev = x.f_cur
      BY <1>1, <2>2 DEF FibonacciValues, Block
    <3>2. Fib[x.i + 1] = Fib[(x.i + 1) - 1] + Fib[(x.i + 1) - 2]
      BY <1>1, <2>2, FibIs
    <3>3. (x.i + 1) - 1 = x.i /\ (x.i + 1) - 2 = x.i - 1
      BY <1>1
    <3> QED BY <1>1, <2>2, <3>1, <3>2, <3>3 DEF Counted
  <2> QED BY <1>1, <2>1, <2>2
<1>4. z.i - 1 = x.i
  BY <1>1, <1>2
<1> HIDE DEF y, z
<1> QED BY <1>2, <1>3, <1>4 DEF Counted, y, z

\* One turn of pm.
LEMMA PmTurn ==
  ASSUME NEW x \in Block, Counted("pm", x), NEW a \in PC
  PROVE  Counted("pm", [PmValues(x, x.i + 1) EXCEPT !.i = x.i + 1, !.pc = a])
<1> DEFINE y == PmValues(x, x.i + 1)
           z == [y EXCEPT !.i = x.i + 1, !.pc = a]
<1>1. x.i \in Nat /\ x.f_cur \in Int /\ y \in Block
  <2>1. x.i \in Nat /\ x.i + 1 \in Nat /\ x.f_cur \in Int
    BY DEF Block
  <2> QED BY <2>1, Computes
<1>2. z.i = x.i + 1 /\ z.f_cur = y.f_cur
  <2> HIDE DEF y
  <2> QED BY <1>1 DEF Block
<1>3. y.f_cur = AlternatingSum(x.i + 1)
  <2>1. CASE x.i = 0
    <3>1. y.f_cur = 1
      BY <2>1 DEF PmValues, Block
    <3> QED BY <2>1, <3>1 DEF AlternatingSum
  <2>2. CASE x.i > 0
    <3>1. y.f_cur = (IF (x.i + 1) % 2 = 1 THEN x.i + 1 ELSE -(x.i + 1)) + x.f_cur
      BY <1>1, <2>2 DEF PmValues, Block
    <3>2. x.f_cur = AlternatingSum(x.i)
      BY <2>2 DEF Counted
    <3> QED BY <1>1, <2>2, <3>1, <3>2 DEF AlternatingSum
  <2> QED BY <1>1, <2>1, <2>2
<1> HIDE DEF y, z
<1> QED BY <1>2, <1>3 DEF Counted, y, z
\* The turn of thread t's loop.
LEMMA CountCounts ==
  ASSUME TInv, AllCounted, NEW t \in Thread, Count(t)
  PROVE  AllCounted'
<1> DEFINE x == tcb[t]
           y == IF program[t].routine = "fibonacci" THEN FibonacciValues(x, x.i + 1)
                                                    ELSE PmValues(x, x.i + 1)
           a == IF x.i + 1 = program[t].n THEN "exited" ELSE "loop"
<1>1. /\ program[t].routine \in {"fibonacci", "pm"} /\ program' = program
      /\ tcb' = [tcb EXCEPT ![t] = [y EXCEPT !.i = x.i + 1, !.pc = a]]
  BY DEF Count, Runs
<1>2. tcb \in [Thread -> Block] /\ x \in Block /\ a \in PC
  BY Types DEF PC
<1>3. tcb'[t] = [y EXCEPT !.i = x.i + 1, !.pc = a] /\ \A u \in Thread : u # t => tcb'[u] = tcb[u]
  <2> HIDE DEF y, a
  <2> QED BY <1>1, <1>2
<1>4. Counted(program[t].routine, x)
  BY DEF AllCounted
<1>5. CASE program[t].routine = "fibonacci"
  <2>1. Counted("fibonacci", tcb'[t])
    <3>1. tcb'[t] = [FibonacciValues(x, x.i + 1) EXCEPT !.i = x.i + 1, !.pc = a]
      <4> HIDE DEF a
      <4> QED BY <1>3, <1>5
    <3>2. Counted("fibonacci", x)
      BY <1>4, <1>5
    <3> HIDE DEF a, x
    <3> QED BY <1>2, <3>1, <3>2, FibonacciTurn
  <2> QED BY <1>1, <1>3, <1>5, <2>1 DEF AllCounted
<1>6. CASE program[t].routine = "pm"
  <2>1. Counted("pm", tcb'[t])
    <3>1. tcb'[t] = [PmValues(x, x.i + 1) EXCEPT !.i = x.i + 1, !.pc = a]
      <4> HIDE DEF a
      <4> QED BY <1>3, <1>6
    <3>2. Counted("pm", x)
      BY <1>4, <1>6
    <3> HIDE DEF a, x
    <3> QED BY <1>2, <3>1, <3>2, PmTurn
  <2> QED BY <1>1, <1>3, <1>6, <2>1 DEF AllCounted
<1> QED BY <1>1, <1>5, <1>6

\* Every other step leaves the numbers alone.
LEMMA OthersKeepNumbers ==
  ASSUME TInv, Next, \A t \in Thread : ~Count(t), NEW u \in Thread
  PROVE  program' = program /\ SameNumbers(tcb'[u], tcb[u])
<1>1. tcb \in [Thread -> Block] /\ tcb[u] \in Block
  BY Types
<1>2. CASE Schedule
  <2>1. tcb'[u] = IF u \notin sleeping THEN tcb[u]
                  ELSE [tcb[u] EXCEPT !.sleeping_time = @ - time_slice, !.keepgo = @ \/ u \in Woken]
    BY <1>2 DEF Schedule
  <2>2. CASE u \in sleeping
    <3>1. PICK s, g : tcb'[u] = [tcb[u] EXCEPT !.sleeping_time = s, !.keepgo = g]
      BY ZenonT(40), <2>1, <2>2
    <3> QED BY <1>1, <1>2, <3>1 DEF SameNumbers, Block, Schedule
  <2> QED BY <1>2, <2>1, <2>2 DEF SameNumbers, Schedule
<1>3. CASE IdleRun
  BY <1>3 DEF SameNumbers, IdleRun
<1>4. ASSUME NEW t \in Thread, GoToSleep(t)
      PROVE  program' = program /\ SameNumbers(tcb'[u], tcb[u])
  <2>1. program' = program /\ \E s : tcb' = [tcb EXCEPT ![t].sleeping_time = s]
    BY <1>4 DEF GoToSleep
  <2> QED BY <1>1, <2>1 DEF SameNumbers, Block
<1>5. ASSUME NEW t \in Thread, AcquireRead(t) \/ WaitRead(t)
      PROVE  program' = program /\ SameNumbers(tcb'[u], tcb[u])
  <2> DEFINE woken == Awakened(program[t].b, tcb)
  <2>1. woken \in [Thread -> Block] /\ SameNumbers(woken[u], tcb[u])
    <3>1. \/ woken = tcb
          \/ program[t].b \in Thread /\ woken = [tcb EXCEPT ![program[t].b].keepgo = TRUE]
      BY Types DEF Awakened
    <3>2. Awake(program[t].b)
      BY <1>5 DEF AcquireRead, WaitRead
    <3>3. woken \in [Thread -> Block]
      BY <3>2, AwakeTypes
    <3> HIDE DEF woken
    <3> QED BY <1>1, <3>1, <3>3 DEF SameNumbers, Block
  <2>2. /\ program' = program
        /\ \/ tcb' = [woken EXCEPT ![t].pc = "reading"]
           \/ tcb' = [woken EXCEPT ![t].pc = "granted_read", ![t].waiting_for = 4]
    BY <1>5 DEF AcquireRead, WaitRead
  <2> HIDE DEF woken
  <2>3. woken[u] \in Block
    BY <2>1
  <2> QED BY <2>1, <2>2, <2>3 DEF SameNumbers, Block
<1>6. ASSUME NEW t \in Thread,
             \/ ResumeRead(t) \/ ReleaseRead(t) \/ AcquireWrite(t) \/ WaitWrite(t)
             \/ ResumeWrite(t) \/ ReleaseWrite(t)
      PROVE  program' = program /\ SameNumbers(tcb'[u], tcb[u])
  <2>1. /\ program' = program
        /\ \/ \E a : tcb' = [tcb EXCEPT ![t].pc = a]
           \/ tcb' = [tcb EXCEPT ![t].pc = "granted_write", ![t].waiting_for = 5]
    BY <1>6 DEF ResumeRead, ReleaseRead, AcquireWrite, WaitWrite, ResumeWrite, ReleaseWrite
  <2> QED BY <1>1, <2>1 DEF SameNumbers, Block
<1> QED BY <1>2, <1>3, <1>4, <1>5, <1>6 DEF Next, Step

\* Every step keeps the numbers right.
LEMMA NextCounted == TInv /\ AllCounted /\ [Next]_vars => AllCounted'
<1> SUFFICES ASSUME TInv, AllCounted, [Next]_vars
             PROVE  AllCounted'
  OBVIOUS
<1>1. CASE UNCHANGED vars
  BY <1>1 DEF vars, AllCounted, Counted
<1>2. ASSUME NEW t \in Thread, Count(t)
      PROVE  AllCounted'
  BY <1>2, CountCounts
<1>3. CASE Next /\ \A t \in Thread : ~Count(t)
  <2> SUFFICES ASSUME NEW u \in Thread
               PROVE  Counted(program[u].routine, tcb[u])'
    BY <1>3, OthersKeepNumbers DEF AllCounted
  <2> QED BY <1>3, OthersKeepNumbers, StillCounted DEF AllCounted
<1> QED BY <1>1, <1>2, <1>3

\* CountsRight of the runs: whatever preempts fibonacci and pm, and however
\* far they count, what they print is right.
THEOREM NumbersRight == Spec => []CountsRight
<1>1. Init => AllCounted
  BY DEF Init, AllCounted, Counted
<1>2. TInv /\ AllCounted => CountsRight
  <2> SUFFICES ASSUME TInv, AllCounted, NEW t \in Thread, tcb[t].i > 0
               PROVE  tcb[t].f_cur = IF program[t].routine = "fibonacci" THEN Fib[tcb[t].i]
                                     ELSE AlternatingSum(tcb[t].i)
    BY DEF CountsRight
  <2>1. program[t].routine \in {"fibonacci", "pm", "enroll"}
    BY Types, ProgramAssumption DEF Routine
  <2> QED BY <2>1 DEF AllCounted, Counted
<1> QED BY <1>1, <1>2, NextCounted, TypesInvariance, PTL DEF Spec
=============================================================================
