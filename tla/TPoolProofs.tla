---------------------------- MODULE TPoolProofs ----------------------------
(***************************************************************************)
(* Theorems about TPool, for every number of workers, queue size, matrix   *)
(* order and cut of the products.                                          *)
(***************************************************************************)
EXTENDS TPool, FiniteSetTheorems, TLAPS

-----------------------------------------------------------------------------
(* Arithmetic of the ring buffer.                                          *)

\* Quotient and remainder of x by m.
LEMMA DivMod ==
  ASSUME NEW m \in Nat \ {0}, NEW x \in Nat
  PROVE  /\ x = m * (x \div m) + (x % m)
         /\ x \div m \in Nat
         /\ x % m \in 0..(m - 1)
OBVIOUS

\* They are unique.
LEMMA ModUnique ==
  ASSUME NEW m \in Nat \ {0}, NEW q \in Nat, NEW r \in 0..(m - 1)
  PROVE  (m * q + r) % m = r
OBVIOUS

\* A remainder can be taken before an addition as well as after it.
LEMMA ModAdd ==
  ASSUME NEW m \in Nat \ {0}, NEW x \in Nat, NEW y \in Nat
  PROVE  ((x % m) + y) % m = (x + y) % m
<1> DEFINE q1 == x \div m
           r1 == x % m
           q2 == (r1 + y) \div m
           r2 == (r1 + y) % m
<1>1. x = m * q1 + r1 /\ q1 \in Nat /\ r1 \in 0..(m - 1)
  BY DivMod
<1>2. r1 + y = m * q2 + r2 /\ q2 \in Nat /\ r2 \in 0..(m - 1)
  <2>1. r1 + y \in Nat
    BY <1>1
  <2> QED BY <2>1, DivMod
<1> HIDE DEF q1, r1, q2, r2
<1>3. x + y = m * (q1 + q2) + r2
  BY <1>1, <1>2
<1>4. q1 + q2 \in Nat
  BY <1>1, <1>2
<1>5. (m * (q1 + q2) + r2) % m = r2
  BY <1>2, <1>4, ModUnique
<1>6. (x + y) % m = r2
  BY <1>3, <1>5
<1> QED BY <1>6 DEF r1, r2

\* NextSlot stays within the ring.
LEMMA NextSlotInRing ==
  ASSUME NEW s \in Slot
  PROVE  NextSlot(s) \in Slot
BY QueueAssumption DEF NextSlot, Slot

-----------------------------------------------------------------------------
(* The cut of a product into works.                                        *)

\* Quotient and remainder of a product's size by the number of its works.
LEMMA CutArithmetic ==
  ASSUME NEW m \in Matrix
  PROVE  /\ NumWorks[m] \in Nat \ {0}
         /\ N * N \in Nat
         /\ N * N = NumWorks[m] * ((N * N) \div NumWorks[m]) + ((N * N) % NumWorks[m])
         /\ (N * N) \div NumWorks[m] \in Nat
         /\ (N * N) % NumWorks[m] \in 0..(NumWorks[m] - 1)
<1> DEFINE k == NumWorks[m]
           total == N * N
<1>1. k \in Nat \ {0} /\ total \in Nat
  BY InputAssumption DEF Matrix
<1> HIDE DEF k, total
<1>2. /\ total = k * (total \div k) + (total % k)
      /\ total \div k \in Nat
      /\ total % k \in 0..(k - 1)
  BY <1>1, DivMod
<1> QED BY <1>1, <1>2 DEF k, total

\* tpool_request's end, computed from the work before, is the start of the
\* next chunk.
LEMMA ChunkStep ==
  ASSUME NEW m \in Matrix, NEW j \in Nat
  PROVE  WorkEnd(ChunkStart(m, j), j, NumWorks[m]) = ChunkStart(m, j + 1)
<1> DEFINE size == (N * N) \div NumWorks[m]
           extra == (N * N) % NumWorks[m]
<1>1. size \in Nat /\ extra \in Nat
  BY CutArithmetic
<1> HIDE DEF size, extra
<1>2. (j + 1) * size = j * size + size /\ j * size \in Nat
  BY <1>1
<1> QED BY <1>1, <1>2 DEF WorkEnd, ChunkStart, size, extra

\* The chunks of a product stay within it and the last one reaches its end.
LEMMA ChunkBounds ==
  ASSUME NEW m \in Matrix
  PROVE  /\ ChunkStart(m, NumWorks[m]) = N * N
         /\ \A j \in 0..NumWorks[m] : ChunkStart(m, j) \in 0..(N * N)
<1> DEFINE size == (N * N) \div NumWorks[m]
           extra == (N * N) % NumWorks[m]
           k == NumWorks[m]
           total == N * N
<1>1. /\ k \in Nat \ {0} /\ size \in Nat /\ extra \in 0..(k - 1) /\ total \in Nat
      /\ total = k * size + extra
  BY CutArithmetic, Zenon
<1>2. ChunkStart(m, k) = k * size + (IF k < extra THEN k ELSE extra)
  BY DEF ChunkStart
<1>3. \A j \in 0..k : ChunkStart(m, j) = j * size + (IF j < extra THEN j ELSE extra)
  BY DEF ChunkStart
<1> HIDE DEF size, extra, k, total
<1>4. \A j \in 0..k : j * size \in Nat /\ j * size <= k * size
  <2> TAKE j \in 0..k
  <2>1. k * size = j * size + (k - j) * size /\ (k - j) * size \in Nat
    BY <1>1
  <2> QED BY <1>1, <2>1
<1>5. \A j \in 0..k : ChunkStart(m, j) \in 0..total
  BY <1>1, <1>3, <1>4
<1>6. ChunkStart(m, k) = total
  BY <1>1, <1>2
<1> QED BY <1>5, <1>6 DEF k, total

-----------------------------------------------------------------------------
(* Type correctness.  TypeOK is not inductive: a worker takes the start of   *)
(* its loop from the slot it dequeues, so the slots of the queued works must *)
(* be known to hold works, main indexes NumWorks and the cells with i, and   *)
(* a work ends within the product because start follows ChunkStart.          *)

RingHoldsWorks ==
  /\ rear = QueuedSlot(queue_size)
  /\ \A k \in 0..(queue_size - 1) : work_queue[QueuedSlot(k)] \in Work

MainInRange ==
  /\ mpc = "enqueue" => i <= NumWorks[req] /\ start = ChunkStart(req, i)
  /\ mpc = "print" => i \in Cell

WorkWhileRunning ==
  \A w \in Worker : IF wpc[w] = "compute" THEN work[w] \in Work ELSE work[w] = NoWork

TypeInv == TypeOK /\ RingHoldsWorks /\ MainInRange /\ WorkWhileRunning

\* A queued work moves one place ahead when front does.
LEMMA QueuedSlotShift ==
  ASSUME NEW f \in Slot, NEW k \in Nat
  PROVE  (NextSlot(f) + k) % MAX_QUEUE_SIZE = (f + (k + 1)) % MAX_QUEUE_SIZE
<1>1. f \in Nat /\ f + 1 \in Nat
  BY QueueAssumption DEF Slot
<1>2. (NextSlot(f) + k) % MAX_QUEUE_SIZE = ((f + 1) + k) % MAX_QUEUE_SIZE
  BY <1>1, ModAdd, QueueAssumption DEF NextSlot
<1> QED BY <1>1, <1>2

\* The slot after the k-th queued one is the next queued one.
LEMMA QueuedSlotNext ==
  ASSUME NEW f \in Slot, NEW k \in Nat
  PROVE  NextSlot((f + k) % MAX_QUEUE_SIZE) = (f + (k + 1)) % MAX_QUEUE_SIZE
<1>1. f + k \in Nat
  BY QueueAssumption DEF Slot
<1>2. (((f + k) % MAX_QUEUE_SIZE) + 1) % MAX_QUEUE_SIZE = ((f + k) + 1) % MAX_QUEUE_SIZE
  BY <1>1, ModAdd, QueueAssumption
<1> QED BY <1>1, <1>2 DEF NextSlot, Slot

\* The first queued slot is front.
LEMMA QueuedSlotZero ==
  ASSUME NEW f \in Slot
  PROVE  (f + 0) % MAX_QUEUE_SIZE = f
<1>1. MAX_QUEUE_SIZE \in Nat \ {0} /\ f \in 0..(MAX_QUEUE_SIZE - 1)
  BY QueueAssumption DEF Slot
<1> QED BY <1>1

\* A queued slot is a slot.
LEMMA QueuedSlotInRing ==
  ASSUME NEW f \in Slot, NEW k \in Nat
  PROVE  (f + k) % MAX_QUEUE_SIZE \in Slot
BY QueueAssumption, DivMod DEF Slot

\* The initial state has the type.
LEMMA TypeInit == Init => TypeInv
<1> SUFFICES ASSUME Init PROVE TypeInv
  OBVIOUS
<1> USE QueueAssumption, InputAssumption DEF Init
<1>1. TypeOK
  <2>1. 0 \in Slot /\ 1 \in Matrix /\ 0 \in 0..(N * N)
    BY DEF Slot, Matrix
  <2>2. work_queue \in [Slot -> Work \cup {NoWork}]
    OBVIOUS
  <2>3. /\ wpc \in [Worker -> WorkerPC] /\ pos \in [Worker -> Nat]
        /\ work \in [Worker -> Work \cup {NoWork}]
    BY DEF WorkerPC
  <2> QED BY <2>1, <2>2, <2>3 DEF TypeOK, MainPC
<1>2. RingHoldsWorks
  BY DEF RingHoldsWorks, QueuedSlot
<1>3. MainInRange /\ WorkWhileRunning
  BY DEF MainInRange, WorkWhileRunning
<1> QED BY <1>1, <1>2, <1>3 DEF TypeInv

\* Every step keeps the type.
LEMMA TypeStep == TypeInv /\ [Next]_vars => TypeInv'
<1> SUFFICES ASSUME TypeInv, [Next]_vars PROVE TypeInv'
  OBVIOUS
<1> USE DEF TypeInv, poolVars, mainVars, workerVars
<1>1. CASE Request
  <2>1. TypeOK'
    BY <1>1, InputAssumption DEF Request, TypeOK, MainPC, Matrix
  <2>2. RingHoldsWorks' /\ WorkWhileRunning'
    BY <1>1 DEF Request, RingHoldsWorks, QueuedSlot, WorkWhileRunning
  <2>3. MainInRange'
    <3>1. NumWorks[req] \in Nat \ {0} /\ ChunkStart(req, 0) = 0
      BY CutArithmetic DEF ChunkStart, TypeOK
    <3> QED BY <1>1, <3>1 DEF Request, MainInRange
  <2> QED BY <2>1, <2>2, <2>3
<1>2. CASE Enqueue
  <2> DEFINE new == [c |-> req, i |-> i, start |-> start,
                     end |-> WorkEnd(start, i, NumWorks[req])]
  <2>1. /\ NumWorks[req] \in Nat \ {0} /\ req \in Matrix
        /\ i \in Nat /\ i + 1 \in 0..NumWorks[req] /\ start \in 0..(N * N)
    BY <1>2, InputAssumption DEF Enqueue, TypeOK, Matrix
  <2>2. /\ WorkEnd(start, i, NumWorks[req]) \in 0..(N * N)
        /\ WorkEnd(start, i, NumWorks[req]) = ChunkStart(req, i + 1)
    BY <1>2, <2>1, ChunkStep, ChunkBounds DEF Enqueue, MainInRange
  <2>3. new \in Work
    BY <2>1, <2>2 DEF Work
  <2>4. /\ work_queue' = [work_queue EXCEPT ![rear] = new]
        /\ rear' = NextSlot(rear) /\ front' = front
        /\ queue_size' = queue_size + 1
    BY <1>2 DEF Enqueue
  <2>5. TypeOK'
    <3>1. waiters' \subseteq Worker \cup {Main}
      BY <1>2 DEF Enqueue, Signalled, TypeOK
    <3>2. work_queue' \in [Slot -> Work \cup {NoWork}] /\ rear' \in Slot
      BY <2>3, <2>4, NextSlotInRing DEF TypeOK
    <3> HIDE DEF new
    <3> QED BY <1>2, <2>1, <2>2, <3>1, <3>2 DEF Enqueue, TypeOK
  <2>6. RingHoldsWorks'
    <3> HIDE DEF new
    <3>1. rear' = (front + (queue_size + 1)) % MAX_QUEUE_SIZE
      BY <2>4, QueuedSlotNext DEF RingHoldsWorks, QueuedSlot, TypeOK
    <3>2. ASSUME NEW k \in 0..queue_size
          PROVE  work_queue'[(front + k) % MAX_QUEUE_SIZE] \in Work
      <4>1. (front + k) % MAX_QUEUE_SIZE \in Slot
        BY QueuedSlotInRing DEF TypeOK
      <4>2. CASE (front + k) % MAX_QUEUE_SIZE = rear
        BY <2>3, <2>4, <4>1, <4>2 DEF TypeOK
      <4>3. CASE (front + k) % MAX_QUEUE_SIZE # rear
        <5>1. k \in 0..(queue_size - 1)
          BY <4>3 DEF RingHoldsWorks, QueuedSlot, TypeOK
        <5> QED BY <2>4, <4>1, <4>3, <5>1 DEF RingHoldsWorks, QueuedSlot, TypeOK
      <4> QED BY <4>2, <4>3
    <3> QED BY <2>4, <3>1, <3>2 DEF RingHoldsWorks, QueuedSlot, TypeOK
  <2>7. MainInRange' /\ WorkWhileRunning'
    BY <1>2, <2>1, <2>2 DEF Enqueue, MainInRange, WorkWhileRunning, TypeOK
  <2> QED BY <2>5, <2>6, <2>7
<1>3. CASE RequestReturn
  <2>1. TypeOK'
    BY <1>3, InputAssumption DEF RequestReturn, TypeOK, MainPC, Matrix
  <2>2. RingHoldsWorks' /\ WorkWhileRunning' /\ MainInRange'
    BY <1>3 DEF RequestReturn, RingHoldsWorks, QueuedSlot, WorkWhileRunning, MainInRange
  <2> QED BY <2>1, <2>2
<1>4. CASE SyncWait
  BY <1>4 DEF SyncWait, TypeOK, RingHoldsWorks, QueuedSlot, WorkWhileRunning, MainInRange
<1>5. CASE SyncReturn
  <2>1. TypeOK'
    BY <1>5, InputAssumption DEF SyncReturn, TypeOK, MainPC, Matrix
  <2>2. RingHoldsWorks' /\ WorkWhileRunning'
    BY <1>5 DEF SyncReturn, RingHoldsWorks, QueuedSlot, WorkWhileRunning
  <2>3. MainInRange'
    BY <1>5, InputAssumption DEF SyncReturn, MainInRange, Cell
  <2> QED BY <2>1, <2>2, <2>3
<1>6. CASE PrintCell
  <2>1. N * N \in Nat \ {0}
    BY InputAssumption
  <2>2. i' \in Nat /\ MainInRange'
    BY <1>6, <2>1 DEF PrintCell, MainInRange, TypeOK, Cell
  <2>3. TypeOK'
    BY SMTT(30), <1>6, <2>2, InputAssumption DEF PrintCell, TypeOK, MainPC, Matrix, MainInRange
  <2>4. RingHoldsWorks' /\ WorkWhileRunning'
    BY <1>6 DEF PrintCell, RingHoldsWorks, QueuedSlot, WorkWhileRunning
  <2> QED BY <2>2, <2>3, <2>4
<1>7. CASE FreeMatrices
  <2>1. TypeOK'
    BY <1>7, InputAssumption DEF FreeMatrices, TypeOK, MainPC, Matrix
  <2>2. RingHoldsWorks' /\ WorkWhileRunning' /\ MainInRange'
    BY <1>7 DEF FreeMatrices, RingHoldsWorks, QueuedSlot, WorkWhileRunning, MainInRange
  <2> QED BY <2>1, <2>2
<1>8. CASE Destroy
  <2>1. TypeOK'
    BY <1>8 DEF Destroy, TypeOK, MainPC
  <2>2. RingHoldsWorks' /\ WorkWhileRunning' /\ MainInRange'
    BY <1>8 DEF Destroy, RingHoldsWorks, QueuedSlot, WorkWhileRunning, MainInRange
  <2> QED BY <2>1, <2>2
<1>9. CASE Join
  <2>1. TypeOK'
    BY <1>9 DEF Join, TypeOK, MainPC
  <2>2. RingHoldsWorks' /\ WorkWhileRunning' /\ MainInRange'
    BY <1>9 DEF Join, RingHoldsWorks, QueuedSlot, WorkWhileRunning, MainInRange
  <2> QED BY <2>1, <2>2
<1>10. ASSUME NEW w \in Worker, WorkerWait(w) PROVE TypeInv'
  BY <1>10 DEF WorkerWait, TypeOK, RingHoldsWorks, QueuedSlot, WorkWhileRunning, MainInRange
<1>11. ASSUME NEW w \in Worker, WorkerExit(w) PROVE TypeInv'
  <2>1. TypeOK'
    BY <1>11 DEF WorkerExit, TypeOK, WorkerPC
  <2>2. RingHoldsWorks' /\ WorkWhileRunning' /\ MainInRange'
    BY <1>11 DEF WorkerExit, TypeOK, RingHoldsWorks, QueuedSlot, WorkWhileRunning, MainInRange
  <2> QED BY <2>1, <2>2
<1>12. ASSUME NEW w \in Worker, Dequeue(w) PROVE TypeInv'
  <2>1. work_queue[front] \in Work
    <3>1. QueuedSlot(0) = front
      BY QueuedSlotZero DEF QueuedSlot, TypeOK
    <3> QED BY <1>12, <3>1 DEF Dequeue, RingHoldsWorks, TypeOK
  <2>2. TypeOK'
    BY <1>12, <2>1, NextSlotInRing DEF Dequeue, TypeOK, WorkerPC, Work
  <2>3. RingHoldsWorks'
    <3>1. ASSUME NEW k \in Nat
          PROVE  QueuedSlot(k)' = QueuedSlot(k + 1)
      BY <1>12, QueuedSlotShift DEF Dequeue, QueuedSlot, TypeOK
    <3>2. rear' = (front' + queue_size') % MAX_QUEUE_SIZE
      <4>1. /\ queue_size' \in Nat /\ queue_size' + 1 = queue_size
            /\ rear' = rear /\ front' = NextSlot(front)
        BY <1>12 DEF Dequeue, TypeOK
      <4> QED BY <4>1, QueuedSlotShift DEF RingHoldsWorks, QueuedSlot, TypeOK
    <3>3. \A k \in 0..(queue_size' - 1) :
            work_queue'[(front' + k) % MAX_QUEUE_SIZE] \in Work
      <4> TAKE k \in 0..(queue_size' - 1)
      <4>1. k \in Nat /\ k + 1 \in 0..(queue_size - 1) /\ work_queue' = work_queue
        BY <1>12 DEF Dequeue, TypeOK
      <4> QED BY <3>1, <4>1 DEF RingHoldsWorks, QueuedSlot
    <3> QED BY <3>2, <3>3 DEF RingHoldsWorks, QueuedSlot
  <2>4. WorkWhileRunning' /\ MainInRange'
    BY <1>12, <2>1 DEF Dequeue, TypeOK, WorkWhileRunning, MainInRange
  <2> QED BY <2>2, <2>3, <2>4
<1>13. ASSUME NEW w \in Worker, Compute(w) PROVE TypeInv'
  <2>1. work[w] \in Work
    BY <1>13 DEF Compute, WorkWhileRunning
  <2>2. TypeOK'
    <3>1. /\ pos[w] \in Nat /\ work[w].c \in Matrix /\ work[w].end \in 0..(N * N)
          /\ pos[w] < work[w].end /\ N * N \in Nat
      BY <1>13, <2>1, InputAssumption DEF Compute, TypeOK, Work
    <3>2. <<work[w].c, pos[w]>> \in Matrix \X Cell
      BY <3>1 DEF Cell
    <3> QED BY <1>13, <3>1, <3>2 DEF Compute, TypeOK
  <2>3. RingHoldsWorks' /\ WorkWhileRunning' /\ MainInRange'
    BY <1>13 DEF Compute, RingHoldsWorks, QueuedSlot, WorkWhileRunning, MainInRange
  <2> QED BY <2>2, <2>3
<1>14. ASSUME NEW w \in Worker, Fault(w) PROVE TypeInv'
  BY <1>14 DEF Fault, TypeOK, RingHoldsWorks, QueuedSlot, WorkWhileRunning, MainInRange
<1>15. ASSUME NEW w \in Worker, Complete(w) PROVE TypeInv'
  <2>1. waiters' \subseteq Worker \cup {Main}
    BY <1>15 DEF Complete, Signalled, TypeOK
  <2>2. TypeOK'
    BY <1>15, <2>1 DEF Complete, TypeOK, WorkerPC
  <2>3. RingHoldsWorks' /\ WorkWhileRunning' /\ MainInRange'
    BY <1>15 DEF Complete, TypeOK, RingHoldsWorks, QueuedSlot, WorkWhileRunning, MainInRange
  <2> QED BY <2>2, <2>3
<1>16. CASE SpuriousWakeup
  BY <1>16 DEF SpuriousWakeup, TypeOK, RingHoldsWorks, QueuedSlot, WorkWhileRunning, MainInRange
<1>17. CASE UNCHANGED vars
  BY <1>17 DEF vars, TypeOK, RingHoldsWorks, QueuedSlot, WorkWhileRunning, MainInRange
<1> QED
  BY <1>1, <1>2, <1>3, <1>4, <1>5, <1>6, <1>7, <1>8, <1>9, <1>10, <1>11, <1>12, <1>13,
     <1>14, <1>15, <1>16, <1>17 DEF Next, MainNext, WorkerNext

\* In every reachable state every variable has its type, and the queue holds
\* works wherever a worker will look for one.
THEOREM TypeCorrect == Spec => []TypeOK
<1>1. Spec => []TypeInv
  BY TypeInit, TypeStep, PTL DEF Spec
<1>2. TypeInv => TypeOK
  BY DEF TypeInv
<1> QED BY <1>1, <1>2, PTL

-----------------------------------------------------------------------------
(* Wakeups.  The count of NoLostWakeup is kept because a signal sent by      *)
(* tpool_request can only wake a worker: main, the only other thread to wait *)
(* on cond, waits after its last request.                                    *)

WaitDiscipline ==
  /\ Main \in waiters => mpc = "sync"
  /\ terminate => mpc \in {"join", "done"}
  /\ \A w \in Worker : wpc[w] = "exited" => terminate /\ queue_size = 0
  /\ \A w \in Worker \cap waiters : wpc[w] = "idle"

IdleAwake == {w \in Worker \ waiters : wpc[w] = "idle"}

WakeInv == WaitDiscipline /\ NoLostWakeup

\* The awake idle workers can be counted.
LEMMA IdleAwakeFinite == IsFiniteSet(IdleAwake) /\ Cardinality(IdleAwake) \in Nat
BY FS_Subset, FS_CardinalityType, WorkerAssumption DEF IdleAwake

\* The wakeup count holds initially: no thread waits.
LEMMA WakeInit == Init => WakeInv
BY WorkerAssumption DEF Init, WakeInv, WaitDiscipline, NoLostWakeup

\* Waking threads and leaving the rest alone keeps the count.
LEMMA FewerWaiters ==
  ASSUME NoLostWakeup, waiters' \subseteq waiters, queue_size \in Nat,
         \A w \in Worker : wpc[w] = "idle" => wpc'[w] = "idle",
         queue_size' = queue_size,
         IsFiniteSet(IdleAwake'), Cardinality(IdleAwake)' \in Nat
  PROVE  NoLostWakeup'
<1> SUFFICES ASSUME Worker \cap waiters' # {}
             PROVE  Cardinality(IdleAwake') >= queue_size
  BY DEF NoLostWakeup, IdleAwake
<1>1. Cardinality(IdleAwake) >= queue_size
  BY DEF NoLostWakeup, IdleAwake
<1>2. IdleAwake \subseteq IdleAwake'
  BY DEF IdleAwake
<1>3. Cardinality(IdleAwake) <= Cardinality(IdleAwake')
  BY <1>2, FS_Subset
<1> QED BY <1>1, <1>3, IdleAwakeFinite

\* Every step keeps the wakeup count.
LEMMA WakeStep == TypeInv /\ TypeInv' /\ WakeInv /\ [Next]_vars => WakeInv'
<1> SUFFICES ASSUME TypeInv, TypeInv', WakeInv, [Next]_vars PROVE WakeInv'
  OBVIOUS
<1> USE DEF WakeInv, poolVars, mainVars, workerVars
<1>a. queue_size \in Nat /\ wpc \in [Worker -> WorkerPC] /\ waiters \subseteq Worker \cup {Main}
  BY DEF TypeInv, TypeOK
<1>b. IsFiniteSet(IdleAwake') /\ Cardinality(IdleAwake)' \in Nat
  BY FS_Subset, FS_CardinalityType, WorkerAssumption DEF IdleAwake
\* A step that touches neither the queue, the workers' counters nor waiters.
<1>c. ASSUME UNCHANGED <<queue_size, waiters, wpc>>
      PROVE  NoLostWakeup'
  BY <1>c DEF NoLostWakeup
<1>1. CASE Request
  BY <1>1, <1>c DEF Request, WaitDiscipline
<1>2. CASE Enqueue
  <2>1. WaitDiscipline'
    BY <1>2, <1>a DEF Enqueue, WaitDiscipline, Signalled
  <2>2. NoLostWakeup'
    <3>1. CASE waiters = {}
      BY <1>2, <3>1 DEF Enqueue, Signalled, NoLostWakeup
    <3>2. CASE waiters # {}
      <4>1. PICK t \in waiters : waiters' = waiters \ {t}
        BY <1>2, <3>2 DEF Enqueue, Signalled
      <4>2. t \in Worker /\ wpc[t] = "idle"
        BY <1>2, <1>a DEF Enqueue, WaitDiscipline
      <4>3. IdleAwake' = IdleAwake \cup {t} /\ t \notin IdleAwake
        BY <1>2, <4>1, <4>2 DEF Enqueue, IdleAwake
      <4>4. Cardinality(IdleAwake') = Cardinality(IdleAwake) + 1
        BY <4>3, IdleAwakeFinite, FS_AddElement
      <4>5. Cardinality(IdleAwake) >= queue_size
        BY <4>2 DEF NoLostWakeup, IdleAwake
      <4>6. Cardinality(IdleAwake') >= queue_size'
        BY <1>2, <1>a, <4>4, <4>5, IdleAwakeFinite DEF Enqueue
      <4> QED BY <4>6 DEF NoLostWakeup, IdleAwake
    <3> QED BY <3>1, <3>2
  <2> QED BY <2>1, <2>2
<1>3. CASE RequestReturn
  BY <1>3, <1>c DEF RequestReturn, WaitDiscipline
<1>4. CASE SyncWait
  <2>1. WaitDiscipline'
    BY <1>4, WorkerAssumption DEF SyncWait, WaitDiscipline
  <2>2. Worker \cap waiters' = Worker \cap waiters /\ IdleAwake' = IdleAwake
    BY <1>4, WorkerAssumption DEF SyncWait, IdleAwake
  <2> QED BY <1>4, <2>1, <2>2 DEF SyncWait, NoLostWakeup, IdleAwake
<1>5. CASE SyncReturn
  BY <1>5, <1>c DEF SyncReturn, WaitDiscipline
<1>6. CASE PrintCell
  BY <1>6, <1>c DEF PrintCell, WaitDiscipline
<1>7. CASE FreeMatrices
  BY <1>7, <1>c DEF FreeMatrices, WaitDiscipline
<1>8. CASE Destroy
  BY <1>8 DEF Destroy, WaitDiscipline, NoLostWakeup
<1>9. CASE Join
  BY <1>9, <1>c DEF Join, WaitDiscipline
<1>10. ASSUME NEW w \in Worker, WorkerWait(w) PROVE WakeInv'
  <2>1. WaitDiscipline'
    BY <1>10, WorkerAssumption DEF WorkerWait, WaitDiscipline
  <2>2. NoLostWakeup'
    BY <1>10, <1>b DEF WorkerWait, NoLostWakeup, IdleAwake
  <2> QED BY <2>1, <2>2
<1>11. ASSUME NEW w \in Worker, WorkerExit(w) PROVE WakeInv'
  <2>1. WaitDiscipline'
    BY <1>11, <1>a DEF WorkerExit, WaitDiscipline
  <2>2. NoLostWakeup'
    BY <1>11, <1>b DEF WorkerExit, NoLostWakeup, IdleAwake
  <2> QED BY <2>1, <2>2
<1>12. ASSUME NEW w \in Worker, Dequeue(w) PROVE WakeInv'
  <2>1. WaitDiscipline'
    BY <1>12, <1>a DEF Dequeue, WaitDiscipline
  <2>2. w \in IdleAwake /\ IdleAwake' = IdleAwake \ {w}
    BY <1>12, <1>a DEF Dequeue, IdleAwake
  <2>3. Cardinality(IdleAwake') = Cardinality(IdleAwake) - 1
    BY <2>2, IdleAwakeFinite, FS_RemoveElement
  <2>4. NoLostWakeup'
    BY <1>12, <1>a, <2>3, IdleAwakeFinite DEF Dequeue, NoLostWakeup, IdleAwake
  <2> QED BY <2>1, <2>4
<1>13. ASSUME NEW w \in Worker, Compute(w) PROVE WakeInv'
  BY <1>13, <1>c DEF Compute, WaitDiscipline
<1>14. ASSUME NEW w \in Worker, Fault(w) PROVE WakeInv'
  BY <1>14, <1>c DEF Fault, WaitDiscipline
<1>15. ASSUME NEW w \in Worker, Complete(w) PROVE WakeInv'
  <2>1. waiters' \subseteq waiters
    BY <1>15 DEF Complete, Signalled
  <2>2. WaitDiscipline'
    BY <1>15, <1>a, <2>1 DEF Complete, WaitDiscipline
  <2>3. NoLostWakeup'
    BY <1>15, <1>a, <1>b, <2>1, FewerWaiters DEF Complete
  <2> QED BY <2>2, <2>3
<1>16. CASE SpuriousWakeup
  <2>1. waiters' \subseteq waiters
    BY <1>16 DEF SpuriousWakeup
  <2>2. WaitDiscipline'
    BY <1>16, <2>1 DEF SpuriousWakeup, WaitDiscipline
  <2>3. NoLostWakeup'
    BY <1>16, <1>a, <1>b, <2>1, FewerWaiters DEF SpuriousWakeup
  <2> QED BY <2>2, <2>3
<1>17. CASE UNCHANGED vars
  BY <1>17, <1>c DEF vars, WaitDiscipline
<1> QED
  BY <1>1, <1>2, <1>3, <1>4, <1>5, <1>6, <1>7, <1>8, <1>9, <1>10, <1>11, <1>12, <1>13,
     <1>14, <1>15, <1>16, <1>17 DEF Next, MainNext, WorkerNext

\* While a worker sleeps on cond there are as many awake and on their way to
\* the queue as there are works in it: the one signal per work of
\* tpool_request is enough, whoever takes the work in the end.
THEOREM WakeupsSuffice == Spec => []NoLostWakeup
<1>1. Spec => [](TypeInv /\ WakeInv)
  BY TypeInit, TypeStep, WakeInit, WakeStep, PTL DEF Spec
<1>2. WakeInv => NoLostWakeup
  BY DEF WakeInv
<1> QED BY <1>1, <1>2, PTL

\* A queued work always has a worker that is awake and has not exited.
THEOREM NothingStranded == Spec => []NoStrandedWork
<1>1. Spec => [](TypeInv /\ WakeInv)
  BY TypeInit, TypeStep, WakeInit, WakeStep, PTL DEF Spec
<1>2. TypeInv /\ WakeInv => NoStrandedWork
  <2> SUFFICES ASSUME TypeInv, WakeInv, queue_size > 0
               PROVE  \E w \in Worker \ waiters : wpc[w] # "exited"
    BY DEF NoStrandedWork
  <2>1. CASE Worker \cap waiters = {}
    BY <2>1, WorkerAssumption DEF WakeInv, WaitDiscipline, TypeInv, TypeOK
  <2>2. CASE Worker \cap waiters # {}
    <3>1. Cardinality(IdleAwake) > 0
      BY <2>2, IdleAwakeFinite DEF WakeInv, NoLostWakeup, IdleAwake, TypeInv, TypeOK
    <3>2. IdleAwake # {}
      BY <3>1, FS_EmptySet
    <3> QED BY <3>2 DEF IdleAwake
  <2> QED BY <2>1, <2>2
<1> QED BY <1>1, <1>2, PTL

-----------------------------------------------------------------------------
(* Counting works.  What main has announced but not yet sent, what is queued *)
(* or running, and what is completed add up to total_works.                  *)

Unannounced == IF mpc = "enqueue" THEN NumWorks[req] - i ELSE 0

Conservation ==
  completed + Cardinality(Running) + queue_size + Unannounced = total_works

\* The running workers can be counted.
LEMMA RunningFinite == IsFiniteSet(Running) /\ Cardinality(Running) \in Nat
BY FS_Subset, FS_CardinalityType, WorkerAssumption DEF Running

\* The works add up initially: there are none.
LEMMA CountInit == Init => Conservation
<1> SUFFICES ASSUME Init PROVE Conservation
  OBVIOUS
<1>1. Running = {}
  BY DEF Init, Running
<1> QED BY <1>1, FS_EmptySet DEF Init, Conservation, Unannounced

\* Every step keeps the sum of the works.
LEMMA CountStep == TypeInv /\ TypeInv' /\ Conservation /\ [Next]_vars => Conservation'
<1> SUFFICES ASSUME TypeInv, TypeInv', Conservation, [Next]_vars PROVE Conservation'
  OBVIOUS
<1> USE DEF poolVars, mainVars, workerVars
<1>a. /\ queue_size \in Nat /\ completed \in Nat /\ total_works \in Nat
      /\ wpc \in [Worker -> WorkerPC] /\ i \in Nat
      /\ mpc = "enqueue" => i \in 0..NumWorks[req]
      /\ NumWorks[req] \in Nat
  BY CutArithmetic DEF TypeInv, TypeOK, MainInRange
<1>b. ASSUME UNCHANGED <<wpc, queue_size, completed, total_works>>, Unannounced' = Unannounced
      PROVE  Conservation'
  BY <1>b DEF Conservation, Running
<1>1. CASE Request
  <2>1. Unannounced = 0 /\ Unannounced' = NumWorks[req]
    BY <1>1, <1>a DEF Request, Unannounced
  <2> QED BY <1>1, <1>a, <2>1, RunningFinite DEF Request, Conservation, Running
<1>2. CASE Enqueue
  <2>1. Unannounced = NumWorks[req] - i /\ Unannounced' = NumWorks[req] - (i + 1)
    BY <1>2 DEF Enqueue, Unannounced
  <2> QED BY <1>2, <1>a, <2>1, RunningFinite DEF Enqueue, Conservation, Running
<1>3. CASE RequestReturn
  <2>1. Unannounced = 0 /\ Unannounced' = 0
    BY <1>3, <1>a DEF RequestReturn, Unannounced
  <2> QED BY <1>3, <1>b, <2>1 DEF RequestReturn
<1>4. CASE SyncWait \/ SyncReturn \/ PrintCell \/ FreeMatrices \/ Destroy \/ Join
  <2>1. Unannounced = 0 /\ Unannounced' = 0
    BY <1>4 DEF SyncWait, SyncReturn, PrintCell, FreeMatrices, Destroy, Join, Unannounced
  <2> QED BY <1>4, <1>b, <2>1
       DEF SyncWait, SyncReturn, PrintCell, FreeMatrices, Destroy, Join
<1>5. ASSUME NEW w \in Worker, WorkerWait(w) \/ Compute(w) \/ Fault(w) PROVE Conservation'
  BY <1>5, <1>b DEF WorkerWait, Compute, Fault, Unannounced
<1>6. ASSUME NEW w \in Worker, WorkerExit(w) PROVE Conservation'
  <2>1. Running' = Running /\ Unannounced' = Unannounced
    BY <1>6, <1>a DEF WorkerExit, Running, Unannounced
  <2> QED BY <1>6, <2>1 DEF WorkerExit, Conservation
<1>7. ASSUME NEW w \in Worker, Dequeue(w) PROVE Conservation'
  <2>1. Running' = Running \cup {w} /\ w \notin Running /\ Unannounced' = Unannounced
    BY <1>7, <1>a DEF Dequeue, Running, Unannounced
  <2>2. Cardinality(Running') = Cardinality(Running) + 1
    BY <2>1, RunningFinite, FS_AddElement
  <2>3. Unannounced \in Nat
    BY <1>a DEF Unannounced
  <2> QED BY <1>7, <1>a, <2>1, <2>2, <2>3, RunningFinite DEF Dequeue, Conservation
<1>8. ASSUME NEW w \in Worker, Complete(w) PROVE Conservation'
  <2>1. Running' = Running \ {w} /\ w \in Running /\ Unannounced' = Unannounced
    BY <1>8, <1>a DEF Complete, Running, Unannounced
  <2>2. Cardinality(Running') = Cardinality(Running) - 1
    BY <2>1, RunningFinite, FS_RemoveElement
  <2>3. Unannounced \in Nat
    BY <1>a DEF Unannounced
  <2> QED BY <1>8, <1>a, <2>1, <2>2, <2>3, RunningFinite DEF Complete, Conservation
<1>9. CASE SpuriousWakeup
  BY <1>9, <1>b DEF SpuriousWakeup, Unannounced
<1>10. CASE UNCHANGED vars
  BY <1>10, <1>b DEF vars, Unannounced
<1> QED
  BY <1>1, <1>2, <1>3, <1>4, <1>5, <1>6, <1>7, <1>8, <1>9, <1>10
     DEF Next, MainNext, WorkerNext

\* The worker that finds completed >= total_works has finished the last work
\* there is: nothing is queued, running or about to be sent.
THEOREM LastWorkIsLast == Spec => []LastMeansIdle
<1>1. Spec => [](TypeInv /\ Conservation)
  BY TypeInit, TypeStep, CountInit, CountStep, PTL DEF Spec
<1>2. TypeInv /\ Conservation => LastMeansIdle
  <2> SUFFICES ASSUME TypeInv, Conservation, completed >= total_works
               PROVE  /\ queue_size = 0 /\ Running = {}
                      /\ mpc = "enqueue" => i = NumWorks[req]
    BY DEF LastMeansIdle
  <2>1. /\ queue_size \in Nat /\ completed \in Nat /\ total_works \in Nat /\ i \in Nat
        /\ mpc = "enqueue" => i \in 0..NumWorks[req]
        /\ NumWorks[req] \in Nat
    BY CutArithmetic DEF TypeInv, TypeOK, MainInRange
  <2>2. Unannounced \in Nat
    BY <2>1 DEF Unannounced
  <2>3. queue_size = 0 /\ Cardinality(Running) = 0 /\ Unannounced = 0
    BY <2>1, <2>2, RunningFinite DEF Conservation
  <2>4. Running = {}
    BY <2>3, RunningFinite, FS_EmptySet
  <2> QED BY <2>1, <2>3, <2>4 DEF Unannounced
<1> QED BY <1>1, <1>2, PTL

-----------------------------------------------------------------------------
(* Nothing is dropped.  While the queue fits its slots, every cell of every  *)
(* product has been calculated, is part of a work still to be sent, is in a  *)
(* queued work, or lies ahead of a worker that runs its work.                *)

Unsent(m, k) ==
  /\ mpc \in {"request", "enqueue"}
  /\ m > req \/ (m = req /\ (mpc = "enqueue" => k >= start))

InQueue(m, k) ==
  \E j \in 0..(queue_size - 1) :
    LET x == work_queue[QueuedSlot(j)] IN x.c = m /\ x.start <= k /\ k < x.end

InRunning(m, k) ==
  \E w \in Running : work[w].c = m /\ pos[w] <= k /\ k < work[w].end

Coverage ==
  /\ \A m \in Matrix, k \in Cell :
       <<m, k>> \in calculated \/ Unsent(m, k) \/ InQueue(m, k) \/ InRunning(m, k)
  /\ mpc = "done" => \A w \in Worker : wpc[w] = "exited"

\* Two queued slots are different unless the queue is overfull.
LEMMA QueuedSlotsDiffer ==
  ASSUME NEW f \in Slot, NEW j \in Slot, NEW k \in Slot, j # k
  PROVE  (f + j) % MAX_QUEUE_SIZE # (f + k) % MAX_QUEUE_SIZE
<1>1. \A x \in 0..(2 * MAX_QUEUE_SIZE - 1) :
        x % MAX_QUEUE_SIZE = IF x < MAX_QUEUE_SIZE THEN x ELSE x - MAX_QUEUE_SIZE
  BY QueueAssumption
<1> QED BY <1>1, QueueAssumption DEF Slot

\* Initially every cell is still to be sent.
LEMMA CoverInit == Init => Coverage
BY InputAssumption DEF Init, Coverage, Unsent, Matrix, Cell

\* Every step that does not overfill the queue keeps every cell accounted for.
LEMMA CoverStep ==
  TypeInv /\ TypeInv' /\ Coverage /\ QueueFits' /\ [Next]_vars => Coverage'
<1> SUFFICES ASSUME TypeInv, TypeInv', Coverage, QueueFits', [Next]_vars PROVE Coverage'
  OBVIOUS
<1> USE DEF poolVars, mainVars, workerVars
<1>a. /\ queue_size \in Nat /\ front \in Slot /\ rear \in Slot
      /\ wpc \in [Worker -> WorkerPC] /\ req \in Matrix /\ start \in Nat
      /\ work_queue \in [Slot -> Work \cup {NoWork}]
      /\ work \in [Worker -> Work \cup {NoWork}] /\ pos \in [Worker -> Nat]
  BY InputAssumption DEF TypeInv, TypeOK
<1>b. ASSUME NEW m, NEW k, UNCHANGED <<work_queue, front, queue_size>>
      PROVE  InQueue(m, k)' = InQueue(m, k)
  BY <1>b DEF InQueue, QueuedSlot
<1>c. ASSUME NEW m, NEW k, UNCHANGED <<wpc, work, pos>>
      PROVE  InRunning(m, k)' = InRunning(m, k)
  BY <1>c DEF InRunning, Running
<1>d. \A m \in Matrix, k \in Cell : m \in Int /\ k \in Nat /\ k < N * N
  BY InputAssumption DEF Matrix, Cell
<1>1. CASE Request
  BY <1>1, <1>a, <1>b, <1>c, <1>d DEF Request, Coverage, Unsent
<1>2. CASE Enqueue
  <2> DEFINE end == WorkEnd(start, i, NumWorks[req])
             new == [c |-> req, i |-> i, start |-> start, end |-> end]
  <2>1. /\ work_queue' = [work_queue EXCEPT ![rear] = new]
        /\ rear = QueuedSlot(queue_size) /\ front' = front
        /\ queue_size' = queue_size + 1 /\ start' = end
    BY <1>2 DEF Enqueue, TypeInv, RingHoldsWorks
  <2>2. end \in Nat
    BY <2>1, InputAssumption DEF TypeInv, TypeOK
  <2>3. ASSUME NEW m \in Matrix, NEW k \in Cell, InQueue(m, k)
        PROVE  InQueue(m, k)'
    <3>1. PICK j \in 0..(queue_size - 1) :
            LET x == work_queue[QueuedSlot(j)] IN x.c = m /\ x.start <= k /\ k < x.end
      BY <2>3 DEF InQueue
    <3>2. j \in Slot /\ queue_size \in Slot
      BY <1>a, <2>1, QueueAssumption DEF QueueFits, Slot
    <3>3. QueuedSlot(j) # rear /\ QueuedSlot(j) \in Slot
      <4>1. j # queue_size /\ j \in Nat
        BY <1>a
      <4>2. (front + j) % MAX_QUEUE_SIZE # (front + queue_size) % MAX_QUEUE_SIZE
        BY <1>a, <3>2, <4>1, QueuedSlotsDiffer
      <4>3. (front + j) % MAX_QUEUE_SIZE \in Slot
        BY <1>a, <4>1, QueuedSlotInRing
      <4> QED BY <2>1, <4>2, <4>3 DEF QueuedSlot
    <3>4. work_queue'[QueuedSlot(j)] = work_queue[QueuedSlot(j)]
      BY <1>a, <2>1, <3>3
    <3>5. QueuedSlot(j)' = QueuedSlot(j) /\ j \in 0..(queue_size' - 1)
      BY <1>a, <2>1 DEF QueuedSlot
    <3> QED BY <3>1, <3>4, <3>5 DEF InQueue
  <2>4. ASSUME NEW m \in Matrix, NEW k \in Cell, Unsent(m, k)
        PROVE  Unsent(m, k)' \/ InQueue(m, k)'
    <3>1. CASE m > req \/ k >= end
      BY <1>2, <2>1, <2>4, <3>1 DEF Enqueue, Unsent
    <3>2. CASE m = req /\ start <= k /\ k < end
      <4>1. work_queue'[rear] = new
        BY <1>a, <2>1
      <4>2. (front' + queue_size) % MAX_QUEUE_SIZE = rear /\ queue_size \in 0..(queue_size' - 1)
        BY <1>a, <2>1 DEF QueuedSlot
      <4>3. new.c = m /\ new.start <= k /\ k < new.end
        BY <3>2
      <4> HIDE DEF new
      <4> QED BY <4>1, <4>2, <4>3 DEF InQueue, QueuedSlot
    <3>3. m > req \/ (m = req /\ k >= start)
      BY <1>2, <2>4 DEF Enqueue, Unsent
    <3>4. k \in Nat
      BY <1>d
    <3> QED BY <1>a, <2>2, <3>1, <3>2, <3>3, <3>4
  <2> QED BY <1>2, <1>c, <2>3, <2>4 DEF Enqueue, Coverage
<1>3. CASE RequestReturn
  <2>1. start = N * N
    BY <1>3, ChunkBounds DEF RequestReturn, TypeInv, TypeOK, MainInRange
  <2>2. ASSUME NEW m \in Matrix, NEW k \in Cell, Unsent(m, k)
        PROVE  Unsent(m, k)'
    <3>1. m \in 1..T /\ req \in 1..T /\ T \in Nat
      BY <1>a, InputAssumption DEF Matrix
    <3>2. m > req
      <4>1. k \in Nat /\ k < N * N /\ N * N \in Nat
        BY <1>d, InputAssumption
      <4>2. m > req \/ k >= N * N
        BY <1>3, <2>1, <2>2 DEF RequestReturn, Unsent
      <4> QED BY <4>1, <4>2
    <3>3. req' = req + 1 /\ mpc' = "request"
      BY <1>3, <3>1, <3>2 DEF RequestReturn
    <3> QED BY <3>1, <3>2, <3>3 DEF Unsent
  <2> QED BY <1>3, <1>b, <1>c, <2>2 DEF RequestReturn, Coverage
<1>4. CASE SyncWait \/ SyncReturn \/ PrintCell \/ FreeMatrices \/ Destroy \/ Join
  BY <1>4, <1>b, <1>c
     DEF SyncWait, SyncReturn, PrintCell, FreeMatrices, Destroy, Join, Coverage, Unsent
<1>5. ASSUME NEW w \in Worker, WorkerWait(w) \/ Fault(w) PROVE Coverage'
  BY <1>5, <1>b, <1>c DEF WorkerWait, Fault, Coverage, Unsent
<1>6. ASSUME NEW w \in Worker, WorkerExit(w) PROVE Coverage'
  <2>1. \A m \in Matrix, k \in Cell : InRunning(m, k)' = InRunning(m, k)
    BY <1>6, <1>a DEF WorkerExit, InRunning, Running
  <2> QED BY <1>6, <1>a, <1>b, <2>1 DEF WorkerExit, Coverage, Unsent
<1>7. ASSUME NEW w \in Worker, Dequeue(w) PROVE Coverage'
  <2>1. /\ Running' = Running \cup {w} /\ w \notin Running
        /\ work'[w] = work_queue[front] /\ pos'[w] = work_queue[front].start
        /\ \A v \in Running : work'[v] = work[v] /\ pos'[v] = pos[v]
    BY <1>7, <1>a DEF Dequeue, Running
  <2>2. ASSUME NEW m \in Matrix, NEW k \in Cell, InRunning(m, k)
        PROVE  InRunning(m, k)'
    BY <2>1, <2>2 DEF InRunning
  <2>3. ASSUME NEW m \in Matrix, NEW k \in Cell, InQueue(m, k)
        PROVE  InQueue(m, k)' \/ InRunning(m, k)'
    <3>1. PICK j \in 0..(queue_size - 1) :
            LET x == work_queue[QueuedSlot(j)] IN x.c = m /\ x.start <= k /\ k < x.end
      BY <2>3 DEF InQueue
    <3>2. CASE j = 0
      <4>1. QueuedSlot(j) = front
        BY <1>a, <3>2, QueuedSlotZero DEF QueuedSlot
      <4>2. work'[w].c = m /\ pos'[w] <= k /\ k < work'[w].end
        BY <2>1, <3>1, <4>1
      <4> QED BY <2>1, <4>2 DEF InRunning
    <3>3. CASE j # 0
      <4>1. j - 1 \in Nat /\ (j - 1) + 1 = j /\ j - 1 \in 0..(queue_size' - 1)
        BY <1>7, <1>a, <3>3 DEF Dequeue
      <4>2. QueuedSlot(j - 1)' = QueuedSlot(j)
        BY <1>7, <1>a, <4>1, QueuedSlotShift DEF Dequeue, QueuedSlot
      <4> QED BY <1>7, <3>1, <4>1, <4>2 DEF Dequeue, InQueue, QueuedSlot
    <3> QED BY <3>2, <3>3
  <2> QED BY <1>7, <1>a, <2>2, <2>3 DEF Dequeue, Coverage, Unsent
<1>8. ASSUME NEW w \in Worker, Compute(w) PROVE Coverage'
  <2>1. ASSUME NEW m \in Matrix, NEW k \in Cell, InRunning(m, k)
        PROVE  InRunning(m, k)' \/ <<m, k>> \in calculated'
    <3>1. PICK v \in Running : work[v].c = m /\ pos[v] <= k /\ k < work[v].end
      BY <2>1 DEF InRunning
    <3>2. CASE v = w /\ pos[w] = k
      BY <1>8, <3>1, <3>2 DEF Compute
    <3>3. CASE v # w \/ pos[w] # k
      BY <1>8, <1>a, <1>d, <3>1, <3>3 DEF Compute, InRunning, Running
    <3> QED BY <3>2, <3>3
  <2> QED BY <1>8, <1>b, <2>1 DEF Compute, Coverage, Unsent
<1>9. ASSUME NEW w \in Worker, Complete(w) PROVE Coverage'
  <2>1. work[w] \in Work /\ Running' = Running \ {w}
    BY <1>9, <1>a DEF Complete, TypeInv, WorkWhileRunning, Running
  <2>2. ASSUME NEW m \in Matrix, NEW k \in Cell, InRunning(m, k)
        PROVE  InRunning(m, k)'
    <3>1. PICK v \in Running : work[v].c = m /\ pos[v] <= k /\ k < work[v].end
      BY <2>2 DEF InRunning
    <3>2. v # w
      <4>1. pos[w] >= work[w].end /\ pos[w] \in Nat /\ work[w].end \in 0..(N * N)
        BY <1>9, <1>a, <2>1 DEF Complete, Work
      <4> QED BY <1>d, <3>1, <4>1, InputAssumption
    <3>3. work'[v] = work[v] /\ pos'[v] = pos[v]
      BY <1>9, <1>a, <3>2 DEF Complete, Running
    <3> QED BY <2>1, <3>1, <3>2, <3>3 DEF InRunning
  <2> QED BY <1>9, <1>a, <1>b, <2>2 DEF Complete, Coverage, Unsent
<1>10. CASE SpuriousWakeup
  BY <1>10, <1>b, <1>c DEF SpuriousWakeup, Coverage, Unsent
<1>11. CASE UNCHANGED vars
  BY <1>11, <1>b, <1>c DEF vars, Coverage, Unsent
<1> QED
  BY <1>1, <1>2, <1>3, <1>4, <1>5, <1>6, <1>7, <1>8, <1>9, <1>10, <1>11
     DEF Next, MainNext, WorkerNext

\* If the caller never has more works outstanding than the queue has slots,
\* main does not get past tpool_destroy before every cell of every product
\* has been calculated.
THEOREM NothingDropped == FittingSpec => []AllCalculated
<1>1. FittingSpec => Spec /\ []QueueFits
  <2>1. Init => QueueFits
    BY QueueAssumption DEF Init, QueueFits
  <2>2. QueueFits /\ [Next /\ QueueFits']_vars => QueueFits'
    BY DEF QueueFits, vars, poolVars
  <2>3. [Next /\ QueueFits']_vars => [Next]_vars
    OBVIOUS
  <2> QED BY <2>1, <2>2, <2>3, PTL DEF FittingSpec, Spec
<1>2. Spec /\ []QueueFits => [](TypeInv /\ WakeInv /\ Coverage)
  BY TypeInit, TypeStep, WakeInit, WakeStep, CoverInit, CoverStep, PTL DEF Spec
<1>3. TypeInv /\ WakeInv /\ Coverage => AllCalculated
  <2> SUFFICES ASSUME TypeInv, WakeInv, Coverage, mpc = "done"
               PROVE  calculated = Matrix \X Cell
    BY DEF AllCalculated
  <2>1. \A w \in Worker : wpc[w] = "exited"
    BY DEF Coverage
  <2>2. queue_size = 0 /\ Running = {}
    BY <2>1, WorkerAssumption DEF WakeInv, WaitDiscipline, Running
  <2>3. \A m \in Matrix, k \in Cell : <<m, k>> \in calculated
    <3> TAKE m \in Matrix, k \in Cell
    <3>1. ~InQueue(m, k)
      BY <2>2 DEF InQueue
    <3>2. ~InRunning(m, k) /\ ~Unsent(m, k)
      BY <2>2 DEF InRunning, Unsent
    <3> QED BY <3>1, <3>2 DEF Coverage
  <2> QED BY <2>3 DEF TypeInv, TypeOK
<1> QED BY <1>1, <1>2, <1>3, PTL
=============================================================================
