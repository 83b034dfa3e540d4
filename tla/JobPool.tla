------------------------------ MODULE JobPool ------------------------------
(***************************************************************************)
(* What the thread pool of sp2024-hw4 promises its caller, with neither    *)
(* ring buffer nor condition variable: a job is submitted once, the jobs   *)
(* are handed out in the order they were submitted, each to exactly one    *)
(* worker, and a worker finishes the job it took before it takes another.  *)
(***************************************************************************)
EXTENDS Sequences

CONSTANTS
  Job,      \* everything that can be submitted
  Worker,   \* the threads that run jobs
  Idle      \* no job: what running[w] holds while w runs none

VARIABLES
  submitted,  \* every job handed to the pool so far
  pending,    \* those no worker has taken, oldest first
  running     \* running[w]: the job w is executing, or Idle

vars == <<submitted, pending, running>>

Init ==
  /\ submitted = {}
  /\ pending = << >>
  /\ running = [w \in Worker |-> Idle]

Submit(j) ==
  /\ j \notin submitted
  /\ submitted' = submitted \cup {j}
  /\ pending' = Append(pending, j)
  /\ UNCHANGED running

Take(w) ==
  /\ running[w] = Idle
  /\ pending # << >>
  /\ running' = [running EXCEPT ![w] = Head(pending)]
  /\ pending' = Tail(pending)
  /\ UNCHANGED submitted

Finish(w) ==
  /\ running[w] # Idle
  /\ running' = [running EXCEPT ![w] = Idle]
  /\ UNCHANGED <<submitted, pending>>

Next ==
  \/ \E j \in Job : Submit(j)
  \/ \E w \in Worker : Take(w) \/ Finish(w)

Spec == Init /\ [][Next]_vars
=============================================================================
