---------------------------- MODULE TrainServer ----------------------------
(***************************************************************************)
(* The servers of sp2024-hw1: server.c, built with READ_SERVER or with     *)
(* WRITE_SERVER.  A server process keeps a request and a record for every  *)
(* client and goes round a select() loop, in which it accepts a            *)
(* connection, closes old ones and handles one line of each client that    *)
(* sent one.  The seats of the trains are in files, which all server       *)
(* processes share: write servers book in them, read servers show them.    *)
(*                                                                         *)
(* A server handles a line to its end before it looks at the next, but     *)
(* holds the lock of a file only around each single read or write.  So a   *)
(* handler is one step for each locked access, and steps of other servers, *)
(* or a kill, come in between.                                             *)
(*                                                                         *)
(* A line is a shift, a seat, "pay", "seat", "exit", -1, another word, or  *)
(* a piece of a line without its end.  Numbers that index outside a record *)
(* are left out: those past the last seat and those below -1.              *)
(***************************************************************************)
EXTENDS Integers, FiniteSets

CONSTANTS
  Server,     \* server processes
  Reader,     \* those built as read servers
  Client,     \* the connections: a slot of some server's requestP
  ServerOf,   \* ServerOf[c]: whose slot c is
  Train,      \* the shifts, 902001 and on
  SEAT_NUM,
  None,       \* no client, no shift
  Left        \* stands for a client that is gone and left seats locked

ASSUME SlotAssumption ==
  Reader \subseteq Server /\ ServerOf \in [Client -> Server] /\ IsFiniteSet(Client)
ASSUME SeatAssumption == SEAT_NUM \in Nat \ {0}
ASSUME NoneAssumption ==
  None \notin Client \cup Train /\ Left \notin Client \cup {None}

Seat == 1..SEAT_NUM

VARIABLES
  train_file,  \* train_file[t][k]: 0 available, 1 booked, 2 locked
  process,     \* process[s]: "running", or why it is not
  conn_fd,     \* conn_fd[s]: the connection main accepted last
  request,     \* request[c]: status, and the shift in buf if there is one
  record,      \* record[c]: shift_id, train_fd, num_of_chosen_seats, seat_stat
  handler,     \* handler[s]: which access comes next in which client's handler
  kept,        \* kept[s]: the trains whose file process s keeps read-locked
  shown        \* shown[c]: the seats client c was last shown as booked

vars == <<train_file, process, conn_fd, request, record, handler, kept, shown>>

Status == {"INVALID", "SHIFT", "SEAT", "BOOKED"}

-----------------------------------------------------------------------------
(* Requests, records and handlers.                                         *)

\* init_request and init_record; free_request and free_record end in them.
FreeRequest == [status |-> "INVALID", buf |-> None]
FreeRecord ==
  [shift_id |-> None, train_fd |-> None, num_of_chosen_seats |-> 0,
   seat_stat |-> [k \in Seat |-> "UNKNOWN"]]

\* A client that has been shown nothing.
NoShow == [train |-> None, booked |-> {}]

\* The server is in select().
Select == [at |-> "select", c |-> None, arg |-> None]

\* A server in select() finds a line of a client whose status is st.
Handles(c, st) ==
  /\ process[ServerOf[c]] = "running"
  /\ handler[ServerOf[c]] = Select
  /\ request[c].status = st

\* Server s has come to step at of the handler of client c.
At(s, at, c) == handler[s].at = at /\ handler[s].c = c

Goto(c, at, arg) ==
  handler' = [handler EXCEPT ![ServerOf[c]] = [at |-> at, c |-> c, arg |-> arg]]

Return(c) == handler' = [handler EXCEPT ![ServerOf[c]] = Select]

\* handle_read has put a line without a shift into buf.
Line(c) == [request EXCEPT ![c].buf = None]

\* The connection is closed and its slot freed.
Close(c) ==
  /\ request' = [request EXCEPT ![c] = FreeRequest]
  /\ record' = [record EXCEPT ![c] = FreeRecord]
  /\ shown' = [shown EXCEPT ![c] = NoShow]

\* The process of server s ends, its connections and its locks with it.
Die(s, why) ==
  /\ process' = [process EXCEPT ![s] = why]
  /\ conn_fd' = [conn_fd EXCEPT ![s] = None]
  /\ request' = [c \in Client |-> IF ServerOf[c] = s THEN FreeRequest ELSE request[c]]
  /\ record' = [c \in Client |-> IF ServerOf[c] = s THEN FreeRecord ELSE record[c]]
  /\ handler' = [handler EXCEPT ![s] = Select]
  /\ kept' = [kept EXCEPT ![s] = {}]
  /\ shown' = [c \in Client |-> IF ServerOf[c] = s THEN NoShow ELSE shown[c]]

\* unlock_file: what the process keeps of that file goes, too.
Unlock(s, t) == kept' = [kept EXCEPT ![s] = @ \ {t}]

\* No other process is in the way of a lock_file(F_WRLCK).
MayWrite(s, t) == \A r \in Server \ {s} : t \notin kept[r]

\* occupied(): the train has no available seat.
Occupied(t) == \A k \in Seat : train_file[t][k] # 0

Chosen(c) == {k \in Seat : record[c].seat_stat[k] = "CHOSEN"}

-----------------------------------------------------------------------------
Init ==
  /\ train_file \in [Train -> [Seat -> {0, 1}]]
  /\ process = [s \in Server |-> "running"]
  /\ conn_fd = [s \in Server |-> None]
  /\ request = [c \in Client |-> FreeRequest]
  /\ record = [c \in Client |-> FreeRecord]
  /\ handler = [s \in Server |-> Select]
  /\ kept = [s \in Server |-> {}]
  /\ shown = [c \in Client |-> NoShow]

(* Connections and processes come and go.                                  *)

Accept(c) ==
  /\ Handles(c, "INVALID")
  /\ request' = [request EXCEPT ![c].status = "SHIFT"]
  /\ conn_fd' = [conn_fd EXCEPT ![ServerOf[c]] = c]
  /\ UNCHANGED <<train_file, process, record, handler, kept, shown>>

\* The connection is 100 seconds old.
Expire(c) ==
  /\ \E st \in Status \ {"INVALID"} : Handles(c, st)
  /\ Close(c)
  /\ UNCHANGED <<train_file, process, conn_fd, handler, kept>>

\* The client says "exit" or hangs up.
Exit(c) ==
  /\ \E st \in Status \ {"INVALID"} : Handles(c, st)
  /\ Close(c)
  /\ UNCHANGED <<train_file, process, conn_fd, handler, kept>>

\* A piece of a line without its end: what is copied to buf has no length.
IncompleteLine(c) ==
  /\ \E st \in Status \ {"INVALID"} : Handles(c, st)
  /\ Die(ServerOf[c], "overrun")
  /\ UNCHANGED train_file

\* Somebody kills the process, or starts it again.
Kill(s) ==
  /\ process[s] = "running"
  /\ Die(s, "killed")
  /\ UNCHANGED train_file

Start(s) ==
  /\ process[s] # "running"
  /\ process' = [process EXCEPT ![s] = "running"]
  /\ UNCHANGED <<train_file, conn_fd, request, record, handler, kept, shown>>

(* Status SHIFT: the client names shift t.  The train is looked up by the  *)
(* line of conn_fd, the connection accepted last, not by the client's own. *)

LookedUp(c, t) == IF conn_fd[ServerOf[c]] = c THEN t ELSE request[conn_fd[ServerOf[c]]].buf

\* That line is no shift: the index into trains is far out of bounds.
ShiftCrash(c, t) ==
  /\ Handles(c, "SHIFT")
  /\ LookedUp(c, t) = None
  /\ Die(ServerOf[c], "crashed")
  /\ UNCHANGED train_file

\* The read server sends all of the file; the client stays in SHIFT.
ReadTrain(c, t) ==
  LET looked_up == LookedUp(c, t) IN
  /\ Handles(c, "SHIFT") /\ looked_up # None
  /\ request' = [request EXCEPT ![c].buf = t]
  /\ shown' = [shown EXCEPT ![c] =
       [train |-> looked_up, booked |-> {k \in Seat : train_file[looked_up][k] = 1}]]
  /\ Unlock(ServerOf[c], looked_up)
  /\ UNCHANGED <<train_file, process, conn_fd, record, handler>>

ShiftFull(c, t) ==
  /\ Handles(c, "SHIFT")
  /\ LookedUp(c, t) # None /\ Occupied(LookedUp(c, t))
  /\ request' = [request EXCEPT ![c].buf = t]
  /\ Unlock(ServerOf[c], LookedUp(c, t))
  /\ UNCHANGED <<train_file, process, conn_fd, record, handler, shown>>

ShiftFree(c, t) ==
  /\ Handles(c, "SHIFT")
  /\ LookedUp(c, t) # None /\ ~Occupied(LookedUp(c, t))
  /\ request' = [request EXCEPT ![c].buf = t]
  /\ Goto(c, "occupied_again", LookedUp(c, t))
  /\ Unlock(ServerOf[c], LookedUp(c, t))
  /\ UNCHANGED <<train_file, process, conn_fd, record, shown>>

\* occupied() is called a second time ...
ShiftSelected(c) ==
  LET s == ServerOf[c] IN
  /\ At(s, "occupied_again", c) /\ ~Occupied(handler[s].arg)
  /\ request' = [request EXCEPT ![c].status = "SEAT"]
  /\ record' = [record EXCEPT ![c].shift_id = request[c].buf,
                              ![c].train_fd = handler[s].arg]
  /\ Return(c)
  /\ Unlock(s, handler[s].arg)
  /\ UNCHANGED <<train_file, process, conn_fd, shown>>

\* ... and if the train has filled up since, the client gets no answer.
ShiftUnanswered(c) ==
  LET s == ServerOf[c] IN
  /\ At(s, "occupied_again", c) /\ Occupied(handler[s].arg)
  /\ Return(c)
  /\ Unlock(s, handler[s].arg)
  /\ UNCHANGED <<train_file, process, conn_fd, request, record, shown>>

InvalidShift(c) ==
  /\ Handles(c, "SHIFT")
  /\ Close(c)
  /\ UNCHANGED <<train_file, process, conn_fd, handler, kept>>

(* Status SEAT: "pay".                                                     *)

PayNothing(c) ==
  /\ Handles(c, "SEAT")
  /\ record[c].num_of_chosen_seats = 0
  /\ request' = Line(c)
  /\ UNCHANGED <<train_file, process, conn_fd, record, handler, kept, shown>>

Pay(c) ==
  /\ Handles(c, "SEAT")
  /\ record[c].num_of_chosen_seats # 0
  /\ request' = Line(c)
  /\ Goto(c, "pay", None)
  /\ UNCHANGED <<train_file, process, conn_fd, record, kept, shown>>

PaySeatMutant(c) ==
  /\ At(ServerOf[c], "pay", c) /\ MayWrite(ServerOf[c], record[c].train_fd)
  /\ \E k \in Chosen(c) :
       /\ \A j \in Chosen(c) : k <= j
       /\ record' = [record EXCEPT ![c].seat_stat[k] = "PAID"]
       /\ train_file' = [train_file EXCEPT ![record[c].train_fd][k] = 1]
  /\ request' = [request EXCEPT ![c].status = "BOOKED"]
  /\ Unlock(ServerOf[c], record[c].train_fd)
  /\ UNCHANGED <<process, conn_fd, handler, shown>>

\* The chosen seats are paid one by one, in order.
PaySeat(c) ==
  /\ At(ServerOf[c], "pay", c) /\ MayWrite(ServerOf[c], record[c].train_fd)
  /\ \E k \in Chosen(c) :
       /\ \A j \in Chosen(c) : k <= j
       /\ record' = [record EXCEPT ![c].seat_stat[k] = "PAID",
                                   ![c].num_of_chosen_seats = @ - 1]
       /\ train_file' = [train_file EXCEPT ![record[c].train_fd][k] = 1]
  /\ request' = [request EXCEPT ![c].status = "BOOKED"]
  /\ Unlock(ServerOf[c], record[c].train_fd)
  /\ UNCHANGED <<process, conn_fd, handler, shown>>

PayReturn(c) ==
  /\ At(ServerOf[c], "pay", c)
  /\ Chosen(c) = {}
  /\ Return(c)
  /\ UNCHANGED <<train_file, process, conn_fd, request, record, kept, shown>>

(* Status SEAT: the number of seat k.                                      *)

CancelMutant(c, k) ==
  /\ Handles(c, "SEAT")
  /\ k \in Chosen(c)
  /\ request' = Line(c)
  /\ record' = [record EXCEPT ![c].num_of_chosen_seats = @ - 1]
  /\ Goto(c, "cancel", k)
  /\ UNCHANGED <<train_file, process, conn_fd, kept, shown>>

\* It is one of the client's own: it goes out of the record ...
Cancel(c, k) ==
  /\ Handles(c, "SEAT")
  /\ k \in Chosen(c)
  /\ request' = Line(c)
  /\ record' = [record EXCEPT ![c].seat_stat[k] = "UNKNOWN",
                              ![c].num_of_chosen_seats = @ - 1]
  /\ Goto(c, "cancel", k)
  /\ UNCHANGED <<train_file, process, conn_fd, kept, shown>>

\* ... and then out of the file.
FreeSeat(c) ==
  LET s == ServerOf[c] IN
  /\ At(s, "cancel", c) /\ MayWrite(s, record[c].train_fd)
  /\ train_file' = [train_file EXCEPT ![record[c].train_fd][handler[s].arg] = 0]
  /\ Return(c)
  /\ Unlock(s, record[c].train_fd)
  /\ UNCHANGED <<process, conn_fd, request, record, shown>>

ChooseMutant(c, k) ==
  /\ Handles(c, "SEAT")
  /\ k \notin Chosen(c)
  /\ request' = Line(c)
  /\ record' = [record EXCEPT ![c].seat_stat[k] = "CHOSEN",
                              ![c].num_of_chosen_seats = @ + 1]
  /\ Goto(c, "lock_seat", k)
  /\ Unlock(ServerOf[c], record[c].train_fd)
  /\ UNCHANGED <<train_file, process, conn_fd, shown>>

\* checkCurr reads the seat: available, so the record already has it ...
Choose(c, k) ==
  /\ Handles(c, "SEAT")
  /\ k \notin Chosen(c)
  /\ train_file[record[c].train_fd][k] = 0
  /\ request' = Line(c)
  /\ record' = [record EXCEPT ![c].seat_stat[k] = "CHOSEN",
                              ![c].num_of_chosen_seats = @ + 1]
  /\ Goto(c, "lock_seat", k)
  /\ Unlock(ServerOf[c], record[c].train_fd)
  /\ UNCHANGED <<train_file, process, conn_fd, shown>>

LockSeatMutant(c) ==
  /\ At(ServerOf[c], "lock_seat", c)
  /\ Return(c)
  /\ UNCHANGED <<train_file, process, conn_fd, request, record, kept, shown>>

\* ... and the file gets it, whatever it holds by now.
LockSeat(c) ==
  LET s == ServerOf[c] IN
  /\ At(s, "lock_seat", c) /\ MayWrite(s, record[c].train_fd)
  /\ train_file' = [train_file EXCEPT ![record[c].train_fd][handler[s].arg] = 2]
  /\ Return(c)
  /\ Unlock(s, record[c].train_fd)
  /\ UNCHANGED <<process, conn_fd, request, record, shown>>

\* checkCurr reads the seat: not available.
Taken(c, k) ==
  /\ Handles(c, "SEAT")
  /\ k \notin Chosen(c)
  /\ train_file[record[c].train_fd][k] # 0
  /\ request' = Line(c)
  /\ Goto(c, "booked?", k)
  /\ Unlock(ServerOf[c], record[c].train_fd)
  /\ UNCHANGED <<train_file, process, conn_fd, record, shown>>

\* The second reading tells whether it is booked ...
SayBooked(c) ==
  LET s == ServerOf[c] IN
  /\ At(s, "booked?", c) /\ train_file[record[c].train_fd][handler[s].arg] = 1
  /\ Return(c)
  /\ Unlock(s, record[c].train_fd)
  /\ UNCHANGED <<train_file, process, conn_fd, request, record, shown>>

NotBookedMutant(c) ==
  LET s == ServerOf[c] IN
  /\ At(s, "booked?", c) /\ train_file[record[c].train_fd][handler[s].arg] # 1
  /\ UNCHANGED vars

NotBooked(c) ==
  LET s == ServerOf[c] IN
  /\ At(s, "booked?", c) /\ train_file[record[c].train_fd][handler[s].arg] # 1
  /\ Goto(c, "locked?", handler[s].arg)
  /\ Unlock(s, record[c].train_fd)
  /\ UNCHANGED <<train_file, process, conn_fd, request, record, shown>>

\* ... the third whether it is locked ...
SayLocked(c) ==
  LET s == ServerOf[c] IN
  /\ At(s, "locked?", c) /\ train_file[record[c].train_fd][handler[s].arg] = 2
  /\ Return(c)
  /\ Unlock(s, record[c].train_fd)
  /\ UNCHANGED <<train_file, process, conn_fd, request, record, shown>>

\* ... and if it is neither, the client is disconnected as if the read failed.
Neither(c) ==
  LET s == ServerOf[c] IN
  /\ At(s, "locked?", c) /\ train_file[record[c].train_fd][handler[s].arg] # 2
  /\ Close(c)
  /\ Return(c)
  /\ Unlock(s, record[c].train_fd)
  /\ UNCHANGED <<train_file, process, conn_fd>>

InvalidSeat(c) ==
  /\ Handles(c, "SEAT")
  /\ Close(c)
  /\ UNCHANGED <<train_file, process, conn_fd, handler, kept>>

\* A word is seat 0, and what lies before seat_stat is num_of_chosen_seats:
\* 1 reads as CHOSEN, and cancelling seat 0 fails to seek and exits.
InvalidSeatExit(c) ==
  /\ Handles(c, "SEAT")
  /\ record[c].num_of_chosen_seats = 1
  /\ Die(ServerOf[c], "exited")
  /\ UNCHANGED train_file

\* Seat -1: checkCurr fails to seek, three times, and the lock it has taken
\* to read stays with the process.
NegativeSeat(c) ==
  /\ Handles(c, "SEAT")
  /\ Close(c)
  /\ kept' = [kept EXCEPT ![ServerOf[c]] = @ \cup {record[c].train_fd}]
  /\ UNCHANGED <<train_file, process, conn_fd, handler>>

(* Status BOOKED.                                                          *)

ChooseMore(c) ==
  /\ Handles(c, "BOOKED")
  /\ request' = [request EXCEPT ![c] = [status |-> "SEAT", buf |-> None]]
  /\ UNCHANGED <<train_file, process, conn_fd, record, handler, kept, shown>>

InvalidBooked(c) ==
  /\ Handles(c, "BOOKED")
  /\ Close(c)
  /\ UNCHANGED <<train_file, process, conn_fd, handler, kept>>

(* Servers that wait for each other's locks.                               *)

\* The train whose file the handler of s is to write next.
Writes(s) ==
  LET c == handler[s].c IN
  IF \/ handler[s].at \in {"lock_seat", "cancel"}
     \/ handler[s].at = "pay" /\ Chosen(c) # {}
  THEN record[c].train_fd ELSE None

WaitsFor(s, r) == s # r /\ Writes(s) \in kept[r]

\* fcntl finds that s would wait for itself, and s exits.
Deadlock(s) ==
  /\ \E S \in SUBSET Server :
       s \in S /\ \A r \in S : \E q \in S : WaitsFor(r, q)
  /\ Die(s, "exited")
  /\ UNCHANGED train_file

-----------------------------------------------------------------------------
Shift(c, t) == ShiftFull(c, t) \/ ShiftFree(c, t)

SeatNumber(c, k) == Cancel(c, k) \/ Choose(c, k) \/ Taken(c, k)

\* The lines only a write server knows.
WriteLine(c) ==
  \/ \E t \in Train : Shift(c, t)
  \/ PayNothing(c) \/ Pay(c)
  \/ \E k \in Seat : SeatNumber(c, k)
  \/ InvalidSeat(c) \/ InvalidSeatExit(c) \/ NegativeSeat(c)
  \/ ChooseMore(c) \/ InvalidBooked(c)

\* A new connection, or a line, taken up in the loop of main.
Receive(c) ==
  \/ Accept(c) \/ Expire(c) \/ Exit(c) \/ IncompleteLine(c) \/ InvalidShift(c)
  \/ \E t \in Train : ShiftCrash(c, t)
  \/ ServerOf[c] \in Reader /\ \E t \in Train : ReadTrain(c, t)
  \/ ServerOf[c] \notin Reader /\ WriteLine(c)

\* The next step of a handler.
Continue(c) ==
  \/ ShiftSelected(c) \/ ShiftUnanswered(c)
  \/ PaySeat(c) \/ PayReturn(c)
  \/ FreeSeat(c) \/ LockSeat(c)
  \/ SayBooked(c) \/ NotBooked(c) \/ SayLocked(c) \/ Neither(c)

Next ==
  \/ \E c \in Client : Receive(c) \/ Continue(c)
  \/ \E s \in Server : Kill(s) \/ Start(s) \/ Deadlock(s)

Spec == Init /\ [][Next]_vars

\* A server process keeps running once it handles a line.
FairSpec == Spec /\ \A s \in Server : WF_vars(\E c \in Client : ServerOf[c] = s /\ Continue(c))

\* The client goes, but not the server it is connected to.
Leaves(c) ==
  /\ request[c].status # "INVALID" /\ request'[c].status = "INVALID"
  /\ process'[ServerOf[c]] = "running"

\* No client leaves, or is told to, with a seat chosen and not paid.
Tidy == \A c \in Client : Leaves(c) => Chosen(c) = {}

-----------------------------------------------------------------------------
(* Properties.  Where a property is for one write server, two may violate  *)
(* it: see the README.                                                     *)

\* Every variable has its type.
TypeOK ==
  /\ train_file \in [Train -> [Seat -> 0..2]]
  /\ process \in [Server -> {"running", "killed", "crashed", "exited", "overrun"}]
  /\ conn_fd \in [Server -> Client \cup {None}]
  /\ request \in [Client -> [status : Status, buf : Train \cup {None}]]
  /\ record \in [Client -> [shift_id : Train \cup {None}, train_fd : Train \cup {None},
                            num_of_chosen_seats : Nat,
                            seat_stat : [Seat -> {"UNKNOWN", "CHOSEN", "PAID"}]]]
  /\ handler \in [Server ->
       [at : {"select", "occupied_again", "pay", "cancel", "lock_seat", "booked?", "locked?"},
        c : Client \cup {None}, arg : Train \cup Seat \cup {None}]]
  /\ kept \in [Server -> SUBSET Train]
  /\ shown \in [Client -> [train : Train \cup {None}, booked : SUBSET Seat]]

Paid(c) == {k \in Seat : record[c].seat_stat[k] = "PAID"}

\* One write server: no two clients have the same seat of the same train in their
\* records, chosen or paid, whoever left, was killed or crashed before.
SeatHeldByOne ==
  \A c, d \in Client :
    c # d /\ record[c].train_fd = record[d].train_fd =>
      (Chosen(c) \cup Paid(c)) \cap (Chosen(d) \cup Paid(d)) = {}

\* One write server: the file does not contradict a record: a paid seat is
\* booked in it, and a seat a client has chosen has not been sold to anybody.
FileBacksRecords ==
  \A c \in Client :
    /\ \A k \in Paid(c) : train_file[record[c].train_fd][k] = 1
    /\ \A k \in Chosen(c) : train_file[record[c].train_fd][k] # 1

\* num_of_chosen_seats counts the chosen seats, through paying, cancelling
\* and being disconnected, and a client that has booked has none left and at
\* least one paid.
CountsChosen ==
  \A c \in Client :
    /\ record[c].num_of_chosen_seats = Cardinality(Chosen(c))
    /\ request[c].status = "BOOKED" =>
         Paid(c) # {} /\ (Chosen(c) # {} => At(ServerOf[c], "pay", c))

\* One write server: a seat once booked is never locked or available again.
BookedStaysBooked ==
  [][\A t \in Train : \A k \in Seat : train_file[t][k] = 1 => train_file'[t][k] = 1]_vars

\* One write server: what a read server has shown as booked still is, so
\* a client that was told so need not ask again.
ShownStaysBooked ==
  \A c \in Client : \A k \in shown[c].booked : train_file[shown[c].train][k] = 1

\* One write server: the servers implement SeatBooking in every step but one in
\* which a client leaves with seats chosen.  A seat changes hands only as its own
\* holder wants, and what a server that died had locked stays locked.  A client
\* that leaves takes its chosen seats out of its record only, and then they are
\* locked for good, where SeatBooking would have them free.
Cancels(c, k) == At(ServerOf[c], "cancel", c) /\ handler[ServerOf[c]].arg = k

Holder(t, k) ==
  IF train_file[t][k] # 2 THEN None
  ELSE LET holders == {c \in Client : record[c].train_fd = t /\ (k \in Chosen(c) \/ Cancels(c, k))}
       IN IF holders = {} THEN Left ELSE CHOOSE c \in holders : TRUE

Booking == INSTANCE SeatBooking WITH
  Office <- Server, OfficeOf <- ServerOf, Nobody <- None,
  open <- {s \in Server : process[s] = "running"},
  holder <- [t \in Train |-> [k \in Seat |-> Holder(t, k)]],
  sold <- {x \in Train \X Seat : train_file[x[1]][x[2]] = 1}

ImplementsSeatBooking == Booking!Init /\ [][Tidy => Booking!Next]_(Booking!bookingVars)

\* A server that handles a line gets back to select() unless it is killed or
\* comes to wait for a lock that another one keeps: its further readings and
\* the paying of seats come to an end, whatever other servers write meanwhile.
HandlersReturn ==
  \A s \in Server :
    handler[s] # Select ~> handler[s] = Select \/ \E r \in Server : WaitsFor(s, r)

\* One server: no line that is complete ends it, by a crash or by an exit,
\* whatever a client says and in whatever order clients come.
NoLineEndsServer == \A s \in Server : process[s] \notin {"crashed", "exited"}
=============================================================================
