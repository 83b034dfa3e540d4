-------------------------- MODULE TPoolJobProofs --------------------------
(***************************************************************************)
(* That TPool implements JobPool and that no two workers write the same    *)
(* cell, while the queue fits its slots: every work in the queue or with a *)
(* worker is one that was submitted, and each is in one place.             *)
(***************************************************************************)
EXTENDS TPoolProofs, SequenceTheorems

\* The k-th queued work, counting from 0.
Queued(k) == work_queue[QueuedSlot(k)]

EachOnce ==
  /\ \A k \in 0..(queue_size - 1) : Queued(k) \in Submitted
  /\ \A w \in Running : work[w] \in Submitted /\ work[w].start <= pos[w]
  /\ \A j, k \in 0..(queue_size - 1) : Queued(j) = Queued(k) => j = k
  /\ \A w \in Running, k \in 0..(queue_size - 1) : work[w] # Queued(k)
  /\ \A v, w \in Running : work[v] = work[w] => v = w

-----------------------------------------------------------------------------
(* Chunks.                                                                 *)

\* Two chunks of a product are different works.
LEMMA ChunksDiffer ==
  ASSUME NEW m, NEW j, NEW l, NEW k, Chunk(m, j) = Chunk(l, k)
  PROVE  m = l /\ j = k
<1>1. Chunk(m, j).c = m /\ Chunk(m, j).i = j /\ Chunk(l, k).c = l /\ Chunk(l, k).i = k
  BY DEF Chunk
<1> QED BY <1>1

\* A later chunk starts where an earlier one has ended.
LEMMA ChunksFollow ==
  ASSUME NEW m \in Matrix, NEW j \in Nat, NEW k \in Nat, j < k
  PROVE  ChunkStart(m, j + 1) <= ChunkStart(m, k)
<1> DEFINE size == (N * N) \div NumWorks[m]
           extra == (N * N) % NumWorks[m]
<1>1. size \in Nat /\ extra \in Nat
  BY CutArithmetic
<1> HIDE DEF size, extra
<1>2. k * size = (j + 1) * size + (k - (j + 1)) * size /\ (k - (j + 1)) * size \in Nat
      /\ (j + 1) * size \in Nat
  BY <1>1
<1>3. ChunkStart(m, j + 1) = (j + 1) * size + (IF j + 1 < extra THEN j + 1 ELSE extra)
      /\ ChunkStart(m, k) = k * size + (IF k < extra THEN k ELSE extra)
  BY DEF ChunkStart, size, extra
<1>4. (IF j + 1 < extra THEN j + 1 ELSE extra) <= (IF k < extra THEN k ELSE extra)
  BY <1>1
<1>5. ASSUME NEW a \in Nat, NEW b \in Nat, NEW d \in Nat, NEW e \in Nat, NEW f \in Nat,
             a = b + d, e <= f
      PROVE  b + e <= a + f
  BY <1>5
<1>6. /\ (IF j + 1 < extra THEN j + 1 ELSE extra) \in Nat
      /\ (IF k < extra THEN k ELSE extra) \in Nat /\ k * size \in Nat
  BY <1>1, <1>2
<1> QED BY <1>2, <1>3, <1>4, <1>5, <1>6

\* What has been submitted.
LEMMA InSubmitted ==
  ASSUME NEW x
  PROVE  x \in Submitted <=> \E m \in Matrix : \E j \in 0..(Sent(m) - 1) : x = Chunk(m, j)
BY DEF Submitted

\* At most the works of a product have been sent.
LEMMA SentIsNat ==
  ASSUME TypeInv
  PROVE  \A m \in Matrix : Sent(m) \in Nat /\ Sent(m) <= NumWorks[m]
<1>1. \A m \in Matrix : NumWorks[m] \in Nat
  BY CutArithmetic
<1>2. i \in Nat /\ req \in Matrix /\ (mpc = "enqueue" => i <= NumWorks[req])
  BY DEF TypeInv, TypeOK, MainInRange
<1> QED BY <1>1, <1>2 DEF Sent

\* A submitted work is a chunk of a product.
LEMMA SubmittedAreJobs ==
  ASSUME TypeInv, NEW x \in Submitted
  PROVE  \E m \in Matrix : \E j \in Nat : x = Chunk(m, j) /\ j < NumWorks[m]
<1>1. PICK m \in Matrix : \E j \in 0..(Sent(m) - 1) : x = Chunk(m, j)
  BY InSubmitted
<1>2. PICK j \in 0..(Sent(m) - 1) : x = Chunk(m, j)
  BY <1>1
<1>3. NumWorks[m] \in Nat /\ Sent(m) \in Nat /\ Sent(m) <= NumWorks[m]
  BY SentIsNat, CutArithmetic
<1>4. j \in Nat /\ j < NumWorks[m]
  BY <1>2, <1>3
<1> QED BY <1>2, <1>4

\* Two works of a product share no cell.
LEMMA Disjoint ==
  ASSUME TypeInv, NEW x \in Submitted, NEW y \in Submitted, x # y, x.c = y.c
  PROVE  /\ x.start \in Nat /\ x.end \in Nat /\ y.start \in Nat /\ y.end \in Nat
         /\ x.end <= y.start \/ y.end <= x.start
<1>1. PICK m \in Matrix, j \in Nat : x = Chunk(m, j) /\ j < NumWorks[m]
  BY SubmittedAreJobs
<1>2. PICK l \in Matrix, k \in Nat : y = Chunk(l, k) /\ k < NumWorks[l]
  BY SubmittedAreJobs
<1>3. /\ x.c = m /\ x.start = ChunkStart(m, j) /\ x.end = ChunkStart(m, j + 1)
      /\ y.c = l /\ y.start = ChunkStart(l, k) /\ y.end = ChunkStart(l, k + 1)
  BY <1>1, <1>2 DEF Chunk
<1>4. m = l /\ j # k
  BY <1>1, <1>2, <1>3
<1>5. NumWorks[m] \in Nat /\ N * N \in Nat
  BY CutArithmetic
<1>6. /\ j \in 0..NumWorks[m] /\ j + 1 \in 0..NumWorks[m]
      /\ k \in 0..NumWorks[m] /\ k + 1 \in 0..NumWorks[m]
  BY <1>1, <1>2, <1>4, <1>5
<1>7. /\ ChunkStart(m, j) \in Nat /\ ChunkStart(m, j + 1) \in Nat
      /\ ChunkStart(m, k) \in Nat /\ ChunkStart(m, k + 1) \in Nat
  BY <1>5, <1>6, ChunkBounds
<1>8. CASE j < k
  BY <1>3, <1>4, <1>7, <1>8, ChunksFollow
<1>9. CASE k < j
  BY <1>3, <1>4, <1>7, <1>9, ChunksFollow
<1> QED BY <1>4, <1>8, <1>9

-----------------------------------------------------------------------------
(* The queue, as a step finds and leaves it.                               *)

\* What Enqueue does to the queue and to what has been submitted.
LEMMA EnqueueDoes ==
  ASSUME TypeInv, QueueFits', Enqueue
  PROVE  /\ queue_size \in Nat /\ queue_size' = queue_size + 1
         /\ \A k \in 0..(queue_size - 1) : Queued(k)' = Queued(k)
         /\ \A k \in Nat : k = queue_size => Queued(k)' = Chunk(req, i)
         /\ Submitted' = Submitted \cup {Chunk(req, i)}
         /\ Chunk(req, i) \notin Submitted
         /\ req \in Matrix /\ i \in 0..(NumWorks[req] - 1)
<1> DEFINE new == [c |-> req, i |-> i, start |-> start, end |-> WorkEnd(start, i, NumWorks[req])]
<1>1. /\ work_queue' = [work_queue EXCEPT ![rear] = new]
      /\ front' = front /\ queue_size' = queue_size + 1 /\ req' = req
      /\ i' = i + 1 /\ mpc = "enqueue" /\ mpc' = "enqueue" /\ i < NumWorks[req]
  BY DEF Enqueue
<1>2. /\ front \in Slot /\ rear \in Slot /\ queue_size \in Nat /\ req \in Matrix /\ i \in Nat
      /\ work_queue \in [Slot -> Work \cup {NoWork}]
      /\ rear = QueuedSlot(queue_size) /\ start = ChunkStart(req, i)
  BY <1>1 DEF TypeInv, TypeOK, RingHoldsWorks, MainInRange
<1>3. NumWorks[req] \in Nat
  BY <1>2, CutArithmetic
<1>4. new = Chunk(req, i)
  BY <1>2, ChunkStep DEF Chunk
<1> HIDE DEF new
<1>5. ASSUME NEW k \in 0..(queue_size - 1)
      PROVE  Queued(k)' = Queued(k)
  <2>1. k \in Slot /\ queue_size \in Slot /\ k # queue_size /\ k \in Nat
    BY <1>1, <1>2, QueueAssumption DEF QueueFits, Slot
  <2>2. (front + k) % MAX_QUEUE_SIZE # (front + queue_size) % MAX_QUEUE_SIZE
    BY <1>2, <2>1, QueuedSlotsDiffer
  <2>3. (front + k) % MAX_QUEUE_SIZE \in Slot
    BY <1>2, <2>1, QueuedSlotInRing
  <2> QED BY <1>1, <1>2, <2>2, <2>3 DEF Queued, QueuedSlot
<1>6. ASSUME NEW k \in Nat, k = queue_size
      PROVE  Queued(k)' = Chunk(req, i)
  <2>1. work_queue'[rear] = new
    BY <1>1, <1>2
  <2>2. (front' + k) % MAX_QUEUE_SIZE = rear
    BY <1>1, <1>2, <1>6 DEF QueuedSlot
  <2> QED BY <1>4, <2>1, <2>2 DEF Queued, QueuedSlot
<1>7. \A m \in Matrix : Sent(m)' = IF m = req THEN i + 1 ELSE Sent(m)
  <2>1. \A m \in Matrix : m \in Int
    BY InputAssumption DEF Matrix
  <2> QED BY <1>1, <1>2, <2>1 DEF Sent
<1>8. Sent(req) = i
  BY <1>1, <1>2, InputAssumption DEF Sent, Matrix
<1>9. \A m \in Matrix : Sent(m) \in Nat
  BY SentIsNat
<1>10. Submitted' = Submitted \cup {Chunk(req, i)}
  <2>1. ASSUME NEW x \in Submitted' PROVE x \in Submitted \cup {Chunk(req, i)}
    <3>1. PICK m \in Matrix : \E j \in 0..(Sent(m)' - 1) : x = Chunk(m, j)
      BY <2>1 DEF Submitted, Chunk, ChunkStart
    <3>2. PICK j \in 0..(Sent(m)' - 1) : x = Chunk(m, j)
      BY <3>1
    <3>3. j \in 0..(Sent(m) - 1) \/ (m = req /\ j = i)
      BY <1>2, <1>7, <1>8, <1>9, <3>2
    <3> QED BY <3>2, <3>3, InSubmitted
  <2>2. ASSUME NEW x \in Submitted PROVE x \in Submitted'
    <3>1. PICK m \in Matrix : \E j \in 0..(Sent(m) - 1) : x = Chunk(m, j)
      BY <2>2, InSubmitted
    <3>2. PICK j \in 0..(Sent(m) - 1) : x = Chunk(m, j)
      BY <3>1
    <3>3. j \in 0..(Sent(m)' - 1)
      BY <1>2, <1>7, <1>8, <1>9, <3>2
    <3> QED BY <3>2, <3>3 DEF Submitted, Chunk, ChunkStart
  <2>3. Chunk(req, i) \in Submitted'
    <3>1. \A m \in Matrix : \A j \in 0..(Sent(m)' - 1) : Chunk(m, j) \in Submitted'
      BY DEF Submitted, Chunk, ChunkStart
    <3>2. \A m \in Matrix : m = req => i \in 0..(Sent(m)' - 1)
      BY <1>2, <1>7
    <3> QED BY <1>2, <3>1, <3>2
  <2> QED BY <2>1, <2>2, <2>3
<1>11. Chunk(req, i) \notin Submitted
  <2> SUFFICES ASSUME Chunk(req, i) \in Submitted PROVE FALSE
    OBVIOUS
  <2>1. PICK m \in Matrix : \E j \in 0..(Sent(m) - 1) : Chunk(req, i) = Chunk(m, j)
    BY InSubmitted
  <2>2. PICK j \in 0..(Sent(m) - 1) : Chunk(req, i) = Chunk(m, j)
    BY <2>1
  <2>3. m = req /\ j = i
    BY <2>2, ChunksDiffer
  <2> QED BY <1>2, <1>8, <2>2, <2>3
<1> QED BY <1>1, <1>2, <1>3, <1>5, <1>6, <1>10, <1>11

\* What Dequeue does to the queue and to its worker.
LEMMA DequeueDoes ==
  ASSUME TypeInv, NEW w \in Worker, Dequeue(w)
  PROVE  /\ queue_size \in Nat \ {0} /\ queue_size' = queue_size - 1
         /\ \A k \in 0..(queue_size - 2) : Queued(k)' = Queued(k + 1)
         /\ w \notin Running /\ Running' = Running \cup {w}
         /\ work' = [work EXCEPT ![w] = Queued(0)]
         /\ pos' = [pos EXCEPT ![w] = Queued(0).start]
<1>1. /\ front \in Slot /\ queue_size \in Nat /\ wpc \in [Worker -> WorkerPC]
  BY DEF TypeInv, TypeOK
<1>2. work_queue[front] = Queued(0)
  BY <1>1, QueuedSlotZero DEF Queued, QueuedSlot
<1>3. ASSUME NEW k \in 0..(queue_size - 2)
      PROVE  Queued(k)' = Queued(k + 1)
  <2>1. (NextSlot(front) + k) % MAX_QUEUE_SIZE = (front + (k + 1)) % MAX_QUEUE_SIZE
    BY <1>1, QueuedSlotShift
  <2> QED BY <2>1 DEF Dequeue, Queued, QueuedSlot
<1> QED BY <1>1, <1>2, <1>3 DEF Dequeue, Running

\* Only Enqueue submits.
LEMMA SubmitsNothing ==
  ASSUME TypeInv,
         Request \/ RequestReturn \/ UNCHANGED <<mpc, req, i>>
           \/ (mpc # "request" /\ mpc # "enqueue" /\ mpc' # "request" /\ mpc' # "enqueue")
  PROVE  Submitted' = Submitted
<1>1. req \in 1..T /\ T \in Nat /\ \A m \in Matrix : m \in 1..T
  BY InputAssumption DEF TypeInv, TypeOK, Matrix
<1>2. \A m \in Matrix : NumWorks[m] \in Nat
  BY CutArithmetic
<1>3. \A m \in Matrix : 0..(Sent(m)' - 1) = 0..(Sent(m) - 1)
  <2>1. CASE Request
    BY <1>1, <1>2, <2>1 DEF Request, Sent
  <2>2. CASE RequestReturn
    BY <1>1, <1>2, <2>2 DEF RequestReturn, Sent
  <2>3. CASE UNCHANGED <<mpc, req, i>>
    BY <2>3 DEF Sent
  <2>4. CASE mpc # "request" /\ mpc # "enqueue" /\ mpc' # "request" /\ mpc' # "enqueue"
    BY <2>4 DEF Sent
  <2> QED BY <2>1, <2>2, <2>3, <2>4
<1>4. \A x : x \in Submitted' <=> \E m \in Matrix : \E j \in 0..(Sent(m)' - 1) : x = Chunk(m, j)
  BY DEF Submitted, Chunk, ChunkStart
<1>5. \A x : x \in Submitted <=> \E m \in Matrix : \E j \in 0..(Sent(m) - 1) : x = Chunk(m, j)
  BY InSubmitted
<1> QED BY <1>3, <1>4, <1>5

-----------------------------------------------------------------------------
(* EachOnce is an invariant.                                               *)

\* Initially nothing is queued.
LEMMA OnceInit == Init => EachOnce
BY DEF Init, EachOnce, Running

\* Every step that does not overfill the queue keeps each work in one place.
LEMMA OnceStep ==
  TypeInv /\ TypeInv' /\ EachOnce /\ QueueFits' /\ [Next]_vars => EachOnce'
<1> SUFFICES ASSUME TypeInv, TypeInv', EachOnce, QueueFits', [Next]_vars PROVE EachOnce'
  OBVIOUS
<1> USE DEF poolVars, mainVars, workerVars
<1>a. /\ queue_size \in Nat /\ wpc \in [Worker -> WorkerPC]
      /\ work \in [Worker -> Work \cup {NoWork}] /\ pos \in [Worker -> Nat]
  BY DEF TypeInv, TypeOK
<1>b. ASSUME UNCHANGED <<work_queue, front, queue_size>>
      PROVE  \A k : Queued(k)' = Queued(k)
  BY <1>b DEF Queued, QueuedSlot
<1>c. ASSUME UNCHANGED <<wpc, work, pos>>, UNCHANGED <<work_queue, front, queue_size>>,
             Submitted' = Submitted
      PROVE  EachOnce'
  <2>1. Running' = Running
    BY <1>c DEF Running
  <2> QED BY <1>b, <1>c, <2>1 DEF EachOnce
<1>1. CASE Request \/ RequestReturn
  BY <1>1, <1>c, SubmitsNothing DEF Request, RequestReturn
<1>2. CASE Enqueue
  <2>1. /\ queue_size' = queue_size + 1
        /\ \A k \in 0..(queue_size - 1) : Queued(k)' = Queued(k)
        /\ \A k \in Nat : k = queue_size => Queued(k)' = Chunk(req, i)
        /\ Submitted' = Submitted \cup {Chunk(req, i)}
        /\ Chunk(req, i) \notin Submitted
    BY <1>2, EnqueueDoes
  <2>2. Running' = Running /\ work' = work /\ pos' = pos
    BY <1>2 DEF Enqueue, Running
  <2>3. \A k \in 0..(queue_size' - 1) : k \in 0..(queue_size - 1) \/ (k \in Nat /\ k = queue_size)
    BY <1>a, <2>1
  <2> HIDE DEF Queued, Chunk
  <2> QED BY <2>1, <2>2, <2>3 DEF EachOnce
<1>3. CASE SyncWait \/ SyncReturn \/ PrintCell \/ FreeMatrices \/ Destroy \/ Join
  <2>1. Submitted' = Submitted
    BY <1>3, SubmitsNothing
       DEF SyncWait, SyncReturn, PrintCell, FreeMatrices, Destroy, Join
  <2> QED BY <1>3, <1>c, <2>1
       DEF SyncWait, SyncReturn, PrintCell, FreeMatrices, Destroy, Join
<1>4. ASSUME NEW w \in Worker, WorkerWait(w) \/ Fault(w) PROVE EachOnce'
  BY <1>4, <1>c, SubmitsNothing DEF WorkerWait, Fault
<1>5. ASSUME NEW w \in Worker, WorkerExit(w) PROVE EachOnce'
  <2>1. Running' = Running
    BY <1>5, <1>a DEF WorkerExit, Running
  <2>2. Submitted' = Submitted
    BY <1>5, SubmitsNothing DEF WorkerExit
  <2> QED BY <1>5, <1>b, <2>1, <2>2 DEF WorkerExit, EachOnce
<1>6. ASSUME NEW w \in Worker, Dequeue(w) PROVE EachOnce'
  <2>1. /\ queue_size \in Nat \ {0} /\ queue_size' = queue_size - 1
        /\ \A k \in 0..(queue_size - 2) : Queued(k)' = Queued(k + 1)
        /\ w \notin Running /\ Running' = Running \cup {w}
        /\ work' = [work EXCEPT ![w] = Queued(0)]
        /\ pos' = [pos EXCEPT ![w] = Queued(0).start]
    BY <1>6, DequeueDoes
  <2>2. Submitted' = Submitted
    BY <1>6, SubmitsNothing DEF Dequeue
  <2>3. /\ work'[w] = Queued(0) /\ pos'[w] = Queued(0).start
        /\ \A v \in Running : work'[v] = work[v] /\ pos'[v] = pos[v]
    BY <1>a, <2>1 DEF Running
  <2>4. /\ 0 \in 0..(queue_size - 1)
        /\ \A k \in 0..(queue_size' - 1) :
             k + 1 \in 0..(queue_size - 1) /\ k + 1 # 0 /\ Queued(k)' = Queued(k + 1)
        /\ \A j, k \in 0..(queue_size' - 1) : j + 1 = k + 1 => j = k
    BY <2>1
  <2>5. Queued(0).start <= Queued(0).start
    <3>1. PICK m \in Matrix, j \in Nat : Queued(0) = Chunk(m, j) /\ j < NumWorks[m]
      BY <2>4, SubmittedAreJobs DEF EachOnce
    <3>2. Queued(0).start \in Nat
      <4>1. NumWorks[m] \in Nat /\ N * N \in Nat
        BY CutArithmetic
      <4>2. ChunkStart(m, j) \in 0..(N * N)
        BY <3>1, <4>1, ChunkBounds
      <4>3. Queued(0).start = ChunkStart(m, j)
        BY <3>1 DEF Chunk
      <4> QED BY <4>1, <4>2, <4>3
    <3> QED BY <3>2
  <2>6. \A k \in 0..(queue_size' - 1) : Queued(k)' \in Submitted'
    BY <2>2, <2>4 DEF EachOnce
  <2>7. \A v \in Running' : work'[v] \in Submitted' /\ work'[v].start <= pos'[v]
    BY <2>1, <2>2, <2>3, <2>4, <2>5 DEF EachOnce
  <2>8. \A j, k \in 0..(queue_size' - 1) : Queued(j)' = Queued(k)' => j = k
    BY <2>4 DEF EachOnce
  <2>9. \A v \in Running', k \in 0..(queue_size' - 1) : work'[v] # Queued(k)'
    BY <2>1, <2>3, <2>4 DEF EachOnce
  <2>10. \A u, v \in Running' : work'[u] = work'[v] => u = v
    BY <2>1, <2>3, <2>4 DEF EachOnce
  <2> QED BY <2>6, <2>7, <2>8, <2>9, <2>10 DEF EachOnce
<1>7. ASSUME NEW w \in Worker, Compute(w) PROVE EachOnce'
  <2>1. Submitted' = Submitted /\ Running' = Running /\ w \in Running
    BY <1>7, SubmitsNothing DEF Compute, Running
  <2>2. ASSUME NEW v \in Running PROVE work'[v].start <= pos'[v]
    <3>1. work[v].start \in Nat /\ work[v].start <= pos[v] /\ pos[v] \in Nat /\ work'[v] = work[v]
      BY <1>7, <1>a DEF Compute, EachOnce, TypeInv, WorkWhileRunning, Running, Work
    <3> QED BY <1>7, <1>a, <3>1 DEF Compute, Running
  <2>3. work' = work /\ queue_size' = queue_size /\ \A k : Queued(k)' = Queued(k)
    BY <1>7, <1>b DEF Compute
  <2> QED BY <2>1, <2>2, <2>3 DEF EachOnce
<1>8. ASSUME NEW w \in Worker, Complete(w) PROVE EachOnce'
  <2>1. Submitted' = Submitted /\ Running' = Running \ {w}
    BY <1>8, <1>a, SubmitsNothing DEF Complete, Running
  <2>2. \A v \in Running \ {w} : work'[v] = work[v] /\ pos'[v] = pos[v]
    BY <1>8, <1>a DEF Complete, Running
  <2>3. queue_size' = queue_size /\ \A k : Queued(k)' = Queued(k)
    BY <1>8, <1>b DEF Complete
  <2> QED BY <2>1, <2>2, <2>3 DEF EachOnce
<1>9. CASE SpuriousWakeup
  BY <1>9, <1>c, SubmitsNothing DEF SpuriousWakeup
<1>10. CASE UNCHANGED vars
  BY <1>10, <1>c, SubmitsNothing DEF vars
<1> QED
  BY <1>1, <1>2, <1>3, <1>4, <1>5, <1>6, <1>7, <1>8, <1>9, <1>10
     DEF Next, MainNext, WorkerNext

\* A caller that never overfills the queue keeps it from overfilling.
LEMMA FittingFits == FittingSpec => Spec /\ []QueueFits
<1>1. Init => QueueFits
  BY QueueAssumption DEF Init, QueueFits
<1>2. QueueFits /\ [Next /\ QueueFits']_vars => QueueFits'
  BY DEF QueueFits, vars, poolVars
<1>3. [Next /\ QueueFits']_vars => [Next]_vars
  OBVIOUS
<1> QED BY <1>1, <1>2, <1>3, PTL DEF FittingSpec, Spec

\* While the queue fits its slots, no two workers are about to write the
\* same cell of the same product.
THEOREM NoTwoWriters == FittingSpec => []NoWriteRace
<1>1. Spec /\ []QueueFits => [](TypeInv /\ EachOnce)
  BY TypeInit, TypeStep, OnceInit, OnceStep, PTL DEF Spec
<1>2. TypeInv /\ EachOnce => NoWriteRace
  <2> SUFFICES ASSUME TypeInv, EachOnce, NEW v \in Running, NEW w \in Running,
                      v # w, work[v].c = work[w].c,
                      pos[v] < work[v].end, pos[w] < work[w].end
               PROVE  pos[v] # pos[w]
    BY DEF NoWriteRace
  <2>1. /\ work[v] \in Submitted /\ work[w] \in Submitted /\ work[v] # work[w]
        /\ work[v].start <= pos[v] /\ work[w].start <= pos[w]
    BY DEF EachOnce
  <2>2. pos[v] \in Nat /\ pos[w] \in Nat
    BY DEF TypeInv, TypeOK, Running
  <2>3. /\ work[v].start \in Nat /\ work[v].end \in Nat
        /\ work[w].start \in Nat /\ work[w].end \in Nat
        /\ work[v].end <= work[w].start \/ work[w].end <= work[v].start
    BY <2>1, Disjoint
  <2> QED BY <2>1, <2>2, <2>3
<1> QED BY <1>1, <1>2, FittingFits, PTL

-----------------------------------------------------------------------------
(* The pool implements JobPool.                                            *)

\* The queued works, oldest first.
Pending == [k \in 1..queue_size |-> work_queue[QueuedSlot(k - 1)]]

AllJobs == UNION {{Chunk(m, j) : j \in 0..(NumWorks[m] - 1)} : m \in Matrix}

\* A function on 1..n is a sequence.
LEMMA FunctionIsSeq ==
  ASSUME NEW S, NEW n \in Nat, NEW f \in [1..n -> S]
  PROVE  f \in Seq(S) /\ Len(f) = n
<1>1. f \in Seq(S)
  BY SeqDef, Zenon
<1> QED BY <1>1, LenProperties

\* The queued works are a sequence of works.
LEMMA PendingIsSeq ==
  ASSUME TypeInv
  PROVE  /\ Pending \in Seq(Work) /\ Len(Pending) = queue_size
         /\ \A k \in 1..queue_size : Pending[k] = Queued(k - 1)
<1>1. queue_size \in Nat
  BY DEF TypeInv, TypeOK
<1>2. \A k \in 1..queue_size : k - 1 \in 0..(queue_size - 1)
  BY <1>1
<1>3. Pending \in [1..queue_size -> Work]
  BY <1>2 DEF Pending, TypeInv, RingHoldsWorks
<1> QED BY <1>1, <1>3, FunctionIsSeq DEF Pending, Queued

\* The same of the queue a step leaves.
LEMMA PendingNext ==
  ASSUME TypeInv'
  PROVE  /\ Pending' \in Seq(Work) /\ Len(Pending') = queue_size'
         /\ \A k \in 1..queue_size' : Pending'[k] = Queued(k - 1)'
<1>1. queue_size' \in Nat
  BY DEF TypeInv, TypeOK
<1>2. \A k \in 1..queue_size' : k - 1 \in 0..(queue_size' - 1)
  <2>1. \A n \in Nat : \A k \in 1..n : k - 1 \in 0..(n - 1)
    OBVIOUS
  <2> QED BY <1>1, <2>1
<1>3. Pending' \in [1..queue_size' -> Work]
  BY <1>2 DEF Pending, TypeInv, RingHoldsWorks
<1> QED BY <1>1, <1>3, FunctionIsSeq DEF Pending, Queued

\* An Enqueue step submits a job.
LEMMA EnqueueSubmits ==
  ASSUME TypeInv, TypeInv', QueueFits', Enqueue
  PROVE  \E j \in AllJobs : Jobs!Submit(j)
<1>1. /\ queue_size \in Nat /\ queue_size' = queue_size + 1
      /\ \A k \in 0..(queue_size - 1) : Queued(k)' = Queued(k)
      /\ \A k \in Nat : k = queue_size => Queued(k)' = Chunk(req, i)
      /\ Submitted' = Submitted \cup {Chunk(req, i)}
      /\ Chunk(req, i) \notin Submitted
      /\ req \in Matrix /\ i \in 0..(NumWorks[req] - 1)
  BY EnqueueDoes
<1>2. Chunk(req, i) \in AllJobs
  BY <1>1 DEF AllJobs
<1>3. Pending' = Append(Pending, Chunk(req, i))
  <2> DEFINE x == Chunk(req, i)
  <2>1. /\ Pending \in Seq(Work) /\ Len(Pending) = queue_size
        /\ \A k \in 1..queue_size : Pending[k] = Queued(k - 1)
    BY PendingIsSeq
  <2>2. /\ Pending' \in Seq(Work) /\ Len(Pending') = queue_size + 1
        /\ \A k \in 1..(queue_size + 1) : Pending'[k] = Queued(k - 1)'
    BY <1>1, PendingNext
  <2>3. Pending'[queue_size + 1] = x
    <3>1. (queue_size + 1) - 1 = queue_size
      BY <1>1
    <3>2. ASSUME NEW k \in 1..(queue_size + 1), k = queue_size + 1
          PROVE  Queued(k - 1)' = x
      <4>1. k - 1 \in Nat /\ k - 1 = queue_size
        BY <1>1, <3>2
      <4> HIDE DEF x
      <4>2. \A j \in Nat : j = queue_size => Queued(j)' = x
        BY <1>1 DEF x
      <4> QED BY <4>1, <4>2
    <3> QED BY <1>1, <2>2, <3>2
  <2>4. \A k \in 1..queue_size : Pending'[k] = Pending[k]
    <3>1. \A k \in 1..queue_size : k - 1 \in 0..(queue_size - 1) /\ k \in 1..(queue_size + 1)
      BY <1>1
    <3> QED BY <1>1, <2>1, <2>2, <3>1
  <2>5. x \in Work
    <3>1. queue_size + 1 \in 1..Len(Pending')
      BY <1>1, <2>2
    <3> QED BY <2>2, <2>3, <3>1, ElementOfSeq
  <2> HIDE DEF x
  <2>6. /\ Append(Pending, x) \in Seq(Work) /\ Len(Append(Pending, x)) = queue_size + 1
        /\ \A k \in 1..queue_size : Append(Pending, x)[k] = Pending[k]
        /\ Append(Pending, x)[queue_size + 1] = x
    BY <1>1, <2>1, <2>5
  <2>7. \A k \in 1..Len(Pending') : Pending'[k] = Append(Pending, x)[k]
    <3>1. \A k \in 1..(queue_size + 1) : k \in 1..queue_size \/ k = queue_size + 1
      BY <1>1
    <3> QED BY <2>2, <2>3, <2>4, <2>6, <3>1
  <2>8. Pending' = Append(Pending, x)
    BY <2>2, <2>6, <2>7, SeqEqual
  <2> QED BY <2>8 DEF x
<1> QED BY <1>2, <1>3, <1>1 DEF Enqueue, Jobs!Submit, Pending, workerVars

\* A Dequeue step takes the oldest pending job.
LEMMA DequeueTakes ==
  ASSUME TypeInv, TypeInv', NEW w \in Worker, Dequeue(w)
  PROVE  Jobs!Take(w)
<1>1. /\ queue_size \in Nat \ {0} /\ queue_size' = queue_size - 1
      /\ \A k \in 0..(queue_size - 2) : Queued(k)' = Queued(k + 1)
      /\ w \notin Running
      /\ work' = [work EXCEPT ![w] = Queued(0)]
  BY DequeueDoes
<1>2. work[w] = NoWork
  BY <1>1 DEF Running, TypeInv, WorkWhileRunning
<1>3. /\ Pending \in Seq(Work) /\ Len(Pending) = queue_size
      /\ \A k \in 1..queue_size : Pending[k] = Queued(k - 1)
  BY PendingIsSeq
<1>4. Pending # << >> /\ Head(Pending) = Queued(0)
  <2>1. 1 \in 1..queue_size /\ 1 - 1 = 0
    BY <1>1
  <2>2. Pending[1] = Queued(0)
    BY <1>3, <2>1
  <2> QED BY <1>1, <1>3, <2>2
<1>5. Pending' = Tail(Pending)
  <2>1. /\ Pending' \in Seq(Work) /\ Len(Pending') = queue_size - 1
        /\ \A k \in 1..(queue_size - 1) : Pending'[k] = Queued(k - 1)'
    BY <1>1, PendingNext
  <2>2. /\ Tail(Pending) \in Seq(Work) /\ Len(Tail(Pending)) = queue_size - 1
        /\ \A k \in 1..(queue_size - 1) : Tail(Pending)[k] = Pending[k + 1]
    BY <1>1, <1>3, <1>4, HeadTailProperties
  <2>3. \A k \in 1..(queue_size - 1) : Pending'[k] = Tail(Pending)[k]
    <3> TAKE k \in 1..(queue_size - 1)
    <3>1. k - 1 \in 0..(queue_size - 2) /\ (k - 1) + 1 = k /\ k + 1 \in 1..queue_size
          /\ (k + 1) - 1 = k
      BY <1>1
    <3>2. Queued(k - 1)' = Queued(k)
      BY <1>1, <3>1
    <3>3. Pending[k + 1] = Queued(k)
      BY <1>3, <3>1
    <3> QED BY <2>1, <2>2, <3>2, <3>3
  <2> QED BY <2>1, <2>2, <2>3, SeqEqual
<1>6. Submitted' = Submitted
  BY SubmitsNothing DEF Dequeue, mainVars
<1> QED BY <1>1, <1>2, <1>4, <1>5, <1>6 DEF Jobs!Take, Pending

\* Each step of TPool is a step of JobPool or none.
LEMMA JobStep ==
  TypeInv /\ TypeInv' /\ QueueFits' /\ [Next]_vars => [Jobs!Next]_(Jobs!vars)
<1> SUFFICES ASSUME TypeInv, TypeInv', QueueFits', [Next]_vars
             PROVE  [Jobs!Next]_(Jobs!vars)
  OBVIOUS
<1> USE DEF poolVars, mainVars, workerVars
<1>a. ASSUME UNCHANGED <<work_queue, front, queue_size>>
      PROVE  Pending' = Pending
  BY <1>a DEF Pending, QueuedSlot
<1>b. ASSUME UNCHANGED <<work_queue, front, queue_size, work>>, Submitted' = Submitted
      PROVE  UNCHANGED Jobs!vars
  BY <1>a, <1>b DEF Jobs!vars, Pending
<1>1. CASE Request \/ RequestReturn
  BY <1>1, <1>b, SubmitsNothing DEF Request, RequestReturn
<1>2. CASE Enqueue
  BY <1>2, EnqueueSubmits DEF Jobs!Next, AllJobs
<1>3. CASE SyncWait \/ SyncReturn \/ PrintCell \/ FreeMatrices \/ Destroy \/ Join
  <2>1. Submitted' = Submitted
    BY <1>3, SubmitsNothing
       DEF SyncWait, SyncReturn, PrintCell, FreeMatrices, Destroy, Join
  <2> QED BY <1>3, <1>b, <2>1
       DEF SyncWait, SyncReturn, PrintCell, FreeMatrices, Destroy, Join
<1>4. ASSUME NEW w \in Worker, WorkerWait(w) \/ Fault(w) \/ WorkerExit(w) \/ Compute(w)
      PROVE  UNCHANGED Jobs!vars
  BY <1>4, <1>b, SubmitsNothing DEF WorkerWait, Fault, WorkerExit, Compute
<1>5. ASSUME NEW w \in Worker, Dequeue(w) PROVE Jobs!Next
  BY <1>5, DequeueTakes DEF Jobs!Next
<1>6. ASSUME NEW w \in Worker, Complete(w) PROVE Jobs!Next
  <2>1. work[w] # NoWork
    BY <1>6, NoWorkAssumption DEF Complete, TypeInv, WorkWhileRunning
  <2>2. Submitted' = Submitted /\ Pending' = Pending
    BY <1>6, <1>a, SubmitsNothing DEF Complete
  <2> QED BY <1>6, <2>1, <2>2 DEF Complete, Jobs!Next, Jobs!Finish, Pending
<1>7. CASE SpuriousWakeup
  BY <1>7, <1>b, SubmitsNothing DEF SpuriousWakeup
<1>8. CASE UNCHANGED vars
  BY <1>8, <1>b, SubmitsNothing DEF vars
<1> QED
  BY <1>1, <1>2, <1>3, <1>4, <1>5, <1>6, <1>7, <1>8
     DEF Next, MainNext, WorkerNext

\* While the queue fits its slots, the ring buffer and its workers do what
\* JobPool promises: each chunk is submitted once, and the chunks are handed
\* out once each in the order of their submission.
THEOREM Implements == FittingSpec => ImplementsJobPool
<1>1. Init => Jobs!Init
  <2> SUFFICES ASSUME Init PROVE Jobs!Init
    OBVIOUS
  <2>1. \A m \in Matrix : Sent(m) = 0
    BY InputAssumption DEF Init, Sent, Matrix
  <2>2. Submitted = {}
    <3>1. \A x : x \notin Submitted
      BY <2>1, InSubmitted
    <3> QED BY <3>1
  <2>3. Pending = << >>
    <3>1. TypeInv /\ queue_size = 0
      BY TypeInit DEF Init
    <3> QED BY <3>1, PendingIsSeq, EmptySeq
  <2> QED BY <2>2, <2>3 DEF Init, Jobs!Init, Pending
<1>2. Spec /\ []QueueFits => []TypeInv
  BY TypeInit, TypeStep, PTL DEF Spec
<1> QED BY <1>1, <1>2, FittingFits, JobStep, PTL
        DEF ImplementsJobPool, Jobs!Spec, Spec
=============================================================================
