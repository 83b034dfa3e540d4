---------------------------- MODULE MCScheduler ----------------------------
(***************************************************************************)
(* Command lines for TLC: threads and their programs.                      *)
(***************************************************************************)
EXTENDS Scheduler

Fibonacci(n) == [routine |-> "fibonacci", n |-> n]
Pm(n) == [routine |-> "pm", n |-> n]
Enroll(dp, ds, s, b) ==
  [routine |-> "enroll", dp |-> dp, ds |-> ds, s |-> s, b |-> b]

TwoThreads == 1..2
ThreeThreads == 1..3
FourThreads == 1..4

\* Three enrolls that sleep or not and wake any of the three.
Enrolls == [ThreeThreads -> {Enroll(1, 1, s, b) : s \in {0, 5}, b \in ThreeThreads}]

\* Three enrolls that come for the read lock while the first one writes.
Wrapping == {<<Enroll(1, 1, 0, 1), Enroll(1, 1, 8, 1), Enroll(1, 1, 6, 1), Enroll(1, 1, 4, 1)>>}

\* Any mix of counting threads and enrolls.
Mixtures == [ThreeThreads -> {Fibonacci(4), Pm(3), Enroll(3, 2, 3, 2), Enroll(2, 3, 1, 1)}]

CommandLines == Enrolls \cup Mixtures

\* Two enrolls that want different classes.
Rivals == {<<Enroll(3, 2, 0, 2), Enroll(2, 3, 0, 1)>>}
=============================================================================
