------------------------------ MODULE MCTPool ------------------------------
(***************************************************************************)
(* Values of TPool's constants for TLC: two products of 2 x 2 matrices.    *)
(***************************************************************************)
EXTENDS TPool

\* One even cut, one cut with a longer first work.
TwoProducts == <<2, 3>>

\* More works than cells: the last one is empty.
SmallWorks == <<5>>

\* One work each.
WholeProducts == <<1, 1>>
=============================================================================
