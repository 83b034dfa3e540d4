------------------------------- MODULE Family -------------------------------
(***************************************************************************)
(* What the friends of sp2024-hw2 promise, with neither processes nor      *)
(* pipes nor answers: a command to meet somebody is carried out by one     *)
(* friend of the name it gives, who was met before, and at most once; and  *)
(* every friend carries commands out in the order they were given.  A      *)
(* command may also be carried out by nobody, although such a friend       *)
(* exists.                                                                 *)
(***************************************************************************)
EXTENDS Integers, Sequences, Functions

CONSTANTS
  Not_Tako,   \* the name of the first friend
  Inputs      \* the lists of commands, [parent, child]

VARIABLES
  commands,
  met         \* met[f]: the commands friend f has carried out, in that order

vars == <<commands, met>>

\* A friend is known by the command that made him, Not_Tako as 0.
Friends == {0} \cup UNION {Range(met[f]) : f \in DOMAIN met}

NameOf(f) == IF f = 0 THEN Not_Tako ELSE commands[f].child

Init ==
  /\ commands \in Inputs
  /\ met = [f \in 0..Len(commands) |-> << >>]

\* f carries command i out, which was given after all that he has heard of.
Meet(f, i) ==
  /\ NameOf(f) = commands[i].parent
  /\ f < i /\ \A k \in DOMAIN met[f] : met[f][k] < i
  /\ i \notin Friends
  /\ met' = [met EXCEPT ![f] = Append(@, i)]
  /\ UNCHANGED commands

Next == \E f \in Friends, i \in DOMAIN commands : Meet(f, i)

Spec == Init /\ [][Next]_vars
=============================================================================
