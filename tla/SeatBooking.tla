---------------------------- MODULE SeatBooking ----------------------------
(***************************************************************************)
(* What a booking service promises of every seat of every train: it is     *)
(* free, reserved by one client, or sold.  A sold seat stays sold.  Only   *)
(* the client that reserved a seat gives it back or buys it, and a client  *)
(* that leaves gives back all he has reserved.  An office that crashes     *)
(* leaves the reservations of its clients behind, with nobody to hold      *)
(* them.                                                                   *)
(***************************************************************************)
CONSTANTS Client, Train, Seat,
          Office,     \* the places where clients book
          OfficeOf,   \* OfficeOf[c]: where client c does
          Nobody,     \* no client: holds the seats that are not reserved
          Left        \* no client either: holds what a crash left reserved

VARIABLES holder, sold, open

bookingVars == <<holder, sold, open>>

Init ==
  /\ holder = [t \in Train |-> [k \in Seat |-> Nobody]]
  /\ sold \subseteq Train \X Seat
  /\ open = Office

Reserve(c, t, k) ==
  /\ OfficeOf[c] \in open
  /\ holder[t][k] = Nobody /\ <<t, k>> \notin sold
  /\ holder' = [holder EXCEPT ![t][k] = c]
  /\ UNCHANGED <<sold, open>>

Release(c, t, k) ==
  /\ holder[t][k] = c
  /\ holder' = [holder EXCEPT ![t][k] = Nobody]
  /\ UNCHANGED <<sold, open>>

Buy(c, t, k) ==
  /\ holder[t][k] = c
  /\ holder' = [holder EXCEPT ![t][k] = Nobody]
  /\ sold' = sold \cup {<<t, k>>}
  /\ UNCHANGED open

\* The reservations of the clients of gone go to heir.
Inherit(heir, gone) ==
  holder' = [t \in Train |-> [k \in Seat |->
               IF holder[t][k] \in gone THEN heir ELSE holder[t][k]]]

Leave(c) ==
  /\ Inherit(Nobody, {c})
  /\ UNCHANGED <<sold, open>>

Crash(o) ==
  /\ o \in open /\ open' = open \ {o}
  /\ Inherit(Left, {c \in Client : OfficeOf[c] = o})
  /\ UNCHANGED sold

Reopen(o) ==
  /\ o \notin open /\ open' = open \cup {o}
  /\ UNCHANGED <<holder, sold>>

Next ==
  \/ \E c \in Client, t \in Train, k \in Seat :
       Reserve(c, t, k) \/ Release(c, t, k) \/ Buy(c, t, k)
  \/ \E c \in Client : Leave(c)
  \/ \E o \in Office : Crash(o) \/ Reopen(o)

Spec == Init /\ [][Next]_bookingVars
=============================================================================
