--------------------------- MODULE MCTrainServer ---------------------------
(* Values of the constants of TrainServer for TLC. *)
EXTENDS TrainServer

CONSTANTS a, b, c1, c2, c3, t1, t2

\* c1 and c2 at one server, c3 at the other, or c1 and c3 at one each.
ClientsOf == [c \in Client |-> IF c = c3 THEN b ELSE a]
=============================================================================
