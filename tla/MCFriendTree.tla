---------------------------- MODULE MCFriendTree ----------------------------
(* Names and command files for TLC. *)
EXTENDS FriendTree

Letters == {"t", "a", "b", "c"}

\* Names of one byte and of two, in which others' names are found as pieces.
T == <<"t">>
A == <<"a">>
B == <<"b", "a">>
C == <<"c", "b">>
Names == {T, A, B, C}

Meets(parents, children) == [parent : parents, child : children]

First == [parent |-> T, child |-> A]

\* Not_Tako's first friend and three commands for whoever.
Families ==
  {<<First, x, y, z>> : x, y, z \in Meets({T, A, B, C}, {A, B, C})}

\* Three commands to meet B or C, who can then be in two branches, and one to
\* meet B through one of the friends there may be.
Generations ==
  {<<First, x, y, w, z>> :
     x, y \in Meets({T, A}, {B, C}), w \in Meets({T, A, C}, {B, C}), z \in Meets({A, B, C}, {B})}

\* A passes on what both of his friends answer.
Brothers ==
  {<<First, [parent |-> A, child |-> B], [parent |-> A, child |-> C], x, y>> :
     x, y \in Meets({B, C}, {A, B, C})}

Commands == Families \cup Generations \cup Brothers

\* C is not there yet when somebody is to be met through him, A always is; or
\* A's family is asked for C in vain before C, his brother, is there and after.
Strangers ==
  {<<First, [parent |-> A, child |-> B], x, [parent |-> A, child |-> C]>> :
     x \in Meets({C}, {A, B, C})}
  \cup
  {<<First, [parent |-> A, child |-> B], x, [parent |-> T, child |-> C], x>> :
     x \in Meets({C}, {A, B})}
=============================================================================
