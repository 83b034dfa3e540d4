----------------------------- MODULE Dispatcher -----------------------------
(***************************************************************************)
(* What the scheduler of sp2024-hw3 promises its threads, with neither     *)
(* clocks, locks, signals nor circular arrays: one thread has the          *)
(* processor; those that are ready get it in the order in which they       *)
(* became ready; a blocked thread is let go on behind all that are ready;  *)
(* a thread that has exited never runs again; and scheduler() returns only *)
(* when all have exited.                                                   *)
(***************************************************************************)
EXTENDS Integers, Sequences, FiniteSets, Functions

CONSTANTS
  Thread,   \* 1..n
  Nobody    \* no thread

VARIABLES
  running,   \* who has the processor, or Nobody
  ready,     \* those waiting for it, the first first
  blocked,   \* those waiting for anything else
  exited,
  returned   \* scheduler() has returned

vars == <<running, ready, blocked, exited, returned>>

Init ==
  /\ running = Nobody
  /\ ready = [k \in 1..Cardinality(Thread) |-> k]
  /\ blocked = {} /\ exited = {}
  /\ returned = FALSE

\* The thread that runs makes a friend ready ...
Wake(b) ==
  /\ running # Nobody /\ b \in blocked
  /\ ready' = Append(ready, b) /\ blocked' = blocked \ {b}
  /\ UNCHANGED <<running, exited, returned>>

\* ... or blocks, after waking a friend or not ...
Block(w) ==
  /\ running # Nobody
  /\ running' = Nobody
  /\ ready' = ready \o w /\ blocked' = (blocked \ Range(w)) \cup {running}
  /\ UNCHANGED <<exited, returned>>

\* ... or exits.
Exit ==
  /\ running # Nobody
  /\ running' = Nobody /\ exited' = exited \cup {running}
  /\ UNCHANGED <<ready, blocked, returned>>

\* The next turn: behind all that are ready come some that were blocked and
\* then the thread that ran, if it did not give up the processor itself.
Turn(some) ==
  LET queue == ready \o some \o IF running = Nobody THEN << >> ELSE <<running>> IN
  /\ queue # << >>
  /\ running' = queue[1] /\ ready' = SubSeq(queue, 2, Len(queue))
  /\ blocked' = blocked \ Range(some)
  /\ UNCHANGED <<exited, returned>>

Return ==
  /\ running = Nobody /\ exited = Thread
  /\ returned' = TRUE
  /\ UNCHANGED <<running, ready, blocked, exited>>

\* Up to n of the blocked, in any order.
Some(n) == UNION {Injection(1..m, blocked) : m \in 0..n}

Next ==
  /\ ~returned
  /\ \/ \E b \in blocked : Wake(b)
     \/ \E w \in Some(1) : Block(w)
     \/ Exit
     \/ \E some \in Some(Cardinality(blocked)) : Turn(some)
     \/ Return

Spec == Init /\ [][Next]_vars
=============================================================================
