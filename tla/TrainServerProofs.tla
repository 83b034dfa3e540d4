------------------------- MODULE TrainServerProofs -------------------------
(***************************************************************************)
(* Theorems about TrainServer, for any servers, clients, trains and seats. *)
(***************************************************************************)
EXTENDS TrainServer, FiniteSetTheorems, TLAPS

-----------------------------------------------------------------------------
(* What holds of any number of write servers.                              *)

\* A client has a train as long as it may choose seats, and a record only
\* then; its server has accepted somebody.
ClientOK(c) ==
  /\ request[c].status # "INVALID" => conn_fd[ServerOf[c]] \in Client
  /\ request[c].status \in {"INVALID", "SHIFT"} => record[c] = FreeRecord
  /\ request[c].status \in {"SEAT", "BOOKED"} => record[c].train_fd \in Train

\* A handler is about a client of its server, in a status that leads there.
HandlerOK(s) ==
  \/ handler[s] = Select
  \/ LET c == handler[s].c IN
     /\ c \in Client /\ ServerOf[c] = s
     /\ \/ /\ handler[s].at = "occupied_again" /\ handler[s].arg \in Train
           /\ request[c].status = "SHIFT" /\ request[c].buf \in Train
        \/ handler[s].at = "pay" /\ request[c].status \in {"SEAT", "BOOKED"}
        \/ /\ handler[s].at \in {"cancel", "lock_seat", "booked?", "locked?"}
           /\ handler[s].arg \in Seat /\ request[c].status = "SEAT"

Counts(c) ==
  /\ record[c].num_of_chosen_seats = Cardinality(Chosen(c))
  /\ request[c].status = "BOOKED" =>
       Paid(c) # {} /\ (Chosen(c) # {} => At(ServerOf[c], "pay", c))

Inv ==
  /\ TypeOK
  /\ \A c \in Client : ClientOK(c)
  /\ \A s \in Server : HandlerOK(s)
  /\ CountsChosen

\* Sets of seats are finite.
LEMMA ChosenFinite ==
  ASSUME NEW c
  PROVE  IsFiniteSet(Chosen(c)) /\ Cardinality(Chosen(c)) \in Nat
<1>1. IsFiniteSet(Seat)
  BY SeatAssumption, FS_Interval DEF Seat
<1>2. Chosen(c) \subseteq Seat
  BY DEF Chosen
<1> QED BY <1>1, <1>2, FS_Subset, FS_CardinalityType

\* A free record has no seats.
LEMMA FreeHasNone ==
  ASSUME NEW c, record[c] = FreeRecord
  PROVE  Chosen(c) = {} /\ Paid(c) = {} /\ record[c].num_of_chosen_seats = 0
BY DEF Chosen, Paid, FreeRecord

\* What a slot is freed to has the types of the variables.
LEMMA FreeTypes ==
  /\ FreeRequest \in [status : Status, buf : Train \cup {None}]
  /\ FreeRecord \in [shift_id : Train \cup {None}, train_fd : Train \cup {None},
                     num_of_chosen_seats : Nat,
                     seat_stat : [Seat -> {"UNKNOWN", "CHOSEN", "PAID"}]]
  /\ NoShow \in [train : Train \cup {None}, booked : SUBSET Seat]
  /\ Select \in [at : {"select", "occupied_again", "pay", "cancel", "lock_seat", "booked?", "locked?"},
                 c : Client \cup {None}, arg : Train \cup Seat \cup {None}]
BY DEF FreeRequest, FreeRecord, NoShow, Select, Status

\* Initially no slot is in use.
LEMMA InitInv == Init => Inv
<1> SUFFICES ASSUME Init PROVE Inv
  OBVIOUS
<1>1. TypeOK
  <2>1. /\ request \in [Client -> [status : Status, buf : Train \cup {None}]]
        /\ record \in [Client -> [shift_id : Train \cup {None}, train_fd : Train \cup {None},
                            num_of_chosen_seats : Nat,
                            seat_stat : [Seat -> {"UNKNOWN", "CHOSEN", "PAID"}]]]
        /\ shown \in [Client -> [train : Train \cup {None}, booked : SUBSET Seat]]
    BY FreeTypes DEF Init
  <2>2. handler \in [Server ->
       [at : {"select", "occupied_again", "pay", "cancel", "lock_seat", "booked?", "locked?"},
        c : Client \cup {None}, arg : Train \cup Seat \cup {None}]]
    BY FreeTypes DEF Init
  <2>3. train_file \in [Train -> [Seat -> 0..2]]
    BY DEF Init
  <2> QED BY <2>1, <2>2, <2>3 DEF Init, TypeOK
<1>2. \A c \in Client : ClientOK(c)
  BY SlotAssumption DEF Init, ClientOK, FreeRequest
<1>3. \A s \in Server : HandlerOK(s)
  BY DEF Init, HandlerOK
<1>4. CountsChosen
  <2> SUFFICES ASSUME NEW c \in Client
               PROVE  Counts(c)
    BY DEF CountsChosen, Counts
  <2>1. record[c] = FreeRecord /\ request[c] = FreeRequest
    BY DEF Init
  <2> QED BY <2>1, FreeHasNone, FS_EmptySet DEF Counts, FreeRequest
<1> QED BY <1>1, <1>2, <1>3, <1>4 DEF Inv

ReqType == [status : Status, buf : Train \cup {None}]
RecType == [shift_id : Train \cup {None}, train_fd : Train \cup {None},
            num_of_chosen_seats : Nat, seat_stat : [Seat -> {"UNKNOWN", "CHOSEN", "PAID"}]]
HandlerType ==
  [at : {"select", "occupied_again", "pay", "cancel", "lock_seat", "booked?", "locked?"},
   c : Client \cup {None}, arg : Train \cup Seat \cup {None}]

\* A step of c's handler leaves request q, record r and handler h.
Becomes(c, q, r, h) ==
  /\ handler[ServerOf[c]] = Select \/ handler[ServerOf[c]].c = c
  /\ request' = [request EXCEPT ![c] = q]
  /\ record' = [record EXCEPT ![c] = r]
  /\ handler' = [handler EXCEPT ![ServerOf[c]] = h]

\* Such a request, record and handler satisfy the invariant.
Fits(c, q, r, h) ==
  /\ q \in ReqType /\ r \in RecType /\ h \in HandlerType
  /\ q.status # "INVALID" => conn_fd'[ServerOf[c]] \in Client
  /\ q.status \in {"INVALID", "SHIFT"} => r = FreeRecord
  /\ q.status \in {"SEAT", "BOOKED"} => r.train_fd \in Train
  /\ \/ h = Select
     \/ /\ h.c = c
        /\ \/ h.at = "occupied_again" /\ h.arg \in Train /\ q.status = "SHIFT" /\ q.buf \in Train
           \/ h.at = "pay" /\ q.status \in {"SEAT", "BOOKED"}
           \/ /\ h.at \in {"cancel", "lock_seat", "booked?", "locked?"}
              /\ h.arg \in Seat /\ q.status = "SEAT"
  /\ r.num_of_chosen_seats = Cardinality({k \in Seat : r.seat_stat[k] = "CHOSEN"})
  /\ q.status = "BOOKED" =>
       /\ {k \in Seat : r.seat_stat[k] = "PAID"} # {}
       /\ {k \in Seat : r.seat_stat[k] = "CHOSEN"} # {} => h.at = "pay" /\ h.c = c

\* What a step may do to the variables all clients share.
SharedOK ==
  /\ train_file' \in [Train -> [Seat -> 0..2]]
  /\ process' \in [Server -> {"running", "killed", "crashed", "exited", "overrun"}]
  /\ conn_fd' \in [Server -> Client \cup {None}]
  /\ kept' \in [Server -> SUBSET Train]
  /\ shown' \in [Client -> [train : Train \cup {None}, booked : SUBSET Seat]]

\* A step of the handler of one client that leaves what Fits keeps the invariant.
LEMMA ClientStep ==
  ASSUME Inv, NEW c \in Client, NEW q, NEW r, NEW h,
         Becomes(c, q, r, h), Fits(c, q, r, h), SharedOK,
         \A s \in Server : conn_fd[s] \in Client => conn_fd'[s] \in Client
  PROVE  Inv'
<1>1. /\ request' = [request EXCEPT ![c] = q]
      /\ record' = [record EXCEPT ![c] = r]
      /\ handler' = [handler EXCEPT ![ServerOf[c]] = h]
  BY DEF Becomes
<1>2. TypeOK'
  <2>1. q \in ReqType /\ r \in RecType /\ h \in HandlerType
    BY DEF Fits
  <2>2. /\ request \in [Client -> ReqType] /\ record \in [Client -> RecType]
        /\ handler \in [Server -> HandlerType]
    BY DEF Inv, TypeOK, ReqType, RecType, HandlerType
  <2>3. /\ request' \in [Client -> ReqType] /\ record' \in [Client -> RecType]
        /\ handler' \in [Server -> HandlerType]
    BY <1>1, <2>1, <2>2
  <2> QED BY <2>3 DEF SharedOK, TypeOK, ReqType, RecType, HandlerType
<1>a. request'[c] = q /\ record'[c] = r /\ handler'[ServerOf[c]] = h /\ ServerOf[c] \in Server
  BY <1>1, SlotAssumption DEF Inv, TypeOK
<1>b. \A d \in Client : d # c => request'[d] = request[d] /\ record'[d] = record[d]
  BY <1>1 DEF Inv, TypeOK
<1>c. \A s \in Server : s # ServerOf[c] => handler'[s] = handler[s]
  BY <1>1 DEF Inv, TypeOK
<1>3. \A d \in Client : ClientOK(d)'
  <2> SUFFICES ASSUME NEW d \in Client
               PROVE  ClientOK(d)'
    OBVIOUS
  <2>1. CASE d = c
    BY <2>1, <1>a DEF ClientOK, Fits
  <2>2. CASE d # c
    BY <2>2, <1>b, SlotAssumption DEF Inv, ClientOK
  <2> QED BY <2>1, <2>2
<1>4. \A s \in Server : HandlerOK(s)'
  <2> SUFFICES ASSUME NEW s \in Server
               PROVE  HandlerOK(s)'
    OBVIOUS
  <2>1. CASE s = ServerOf[c]
    BY <2>1, <1>a DEF HandlerOK, Fits
  <2>2. CASE s # ServerOf[c]
    <3>1. HandlerOK(s)
      BY DEF Inv
    <3> QED BY <3>1, <2>2, <1>b, <1>c DEF HandlerOK
  <2> QED BY <2>1, <2>2
<1>5. CountsChosen'
  <2> SUFFICES ASSUME NEW d \in Client
               PROVE  Counts(d)'
    BY DEF CountsChosen, Counts
  <2>1. CASE d = c
    BY <2>1, <1>a DEF Counts, Chosen, Paid, At, Fits
  <2>2. CASE d # c
    <3>1. Counts(d)
      BY DEF Inv, CountsChosen, Counts
    <3>2. Chosen(d)' = Chosen(d) /\ Paid(d)' = Paid(d)
      BY <2>2, <1>b DEF Chosen, Paid
    <3>3. At(ServerOf[d], "pay", d) => At(ServerOf[d], "pay", d)'
      BY <2>2, <1>a, <1>c, SlotAssumption DEF At, Select, Becomes
    <3> QED BY <2>2, <1>b, <3>1, <3>2, <3>3 DEF Counts
  <2> QED BY <2>1, <2>2
<1> QED BY <1>2, <1>3, <1>4, <1>5 DEF Inv

\* A server that dies leaves free records and an idle handler.
LEMMA DieStep ==
  ASSUME Inv, NEW s \in Server, NEW why \in {"killed", "crashed", "exited", "overrun"},
         Die(s, why), train_file' = train_file
  PROVE  Inv'
<1>1. TypeOK'
  BY FreeTypes DEF Inv, TypeOK, Die
<1>2. \A d \in Client : ClientOK(d)'
  BY SlotAssumption DEF Inv, TypeOK, Die, ClientOK, FreeRequest
<1>3. \A r \in Server : HandlerOK(r)'
  <2> SUFFICES ASSUME NEW r \in Server
               PROVE  HandlerOK(r)'
    OBVIOUS
  <2>1. CASE r = s
    BY <2>1 DEF Inv, TypeOK, Die, HandlerOK
  <2>2. CASE r # s
    <3>1. handler'[r] = handler[r] /\ \A d \in Client : ServerOf[d] = r => request'[d] = request[d]
      BY <2>2 DEF Inv, TypeOK, Die
    <3>2. HandlerOK(r)
      BY DEF Inv
    <3> QED BY <3>1, <3>2 DEF HandlerOK
  <2> QED BY <2>1, <2>2
<1>4. CountsChosen'
  <2> SUFFICES ASSUME NEW d \in Client
               PROVE  Counts(d)'
    BY DEF CountsChosen, Counts
  <2>1. CASE ServerOf[d] = s
    <3>1. record'[d] = FreeRecord /\ request'[d] = FreeRequest
      BY <2>1 DEF Die
    <3>2. Chosen(d)' = {} /\ record'[d].num_of_chosen_seats = 0
      BY <3>1 DEF Chosen, FreeRecord
    <3> QED BY <3>1, <3>2, FS_EmptySet DEF Counts, FreeRequest
  <2>2. CASE ServerOf[d] # s
    <3>1. /\ record'[d] = record[d] /\ request'[d] = request[d]
          /\ handler'[ServerOf[d]] = handler[ServerOf[d]]
      BY <2>2, SlotAssumption DEF Die, Inv, TypeOK
    <3>2. Counts(d)
      BY DEF Inv, CountsChosen, Counts
    <3> QED BY <3>1, <3>2 DEF Counts, Chosen, Paid, At
  <2> QED BY <2>1, <2>2
<1> QED BY <1>1, <1>2, <1>3, <1>4 DEF Inv

-----------------------------------------------------------------------------
(* The actions, one by one.                                                *)

\* What the invariant says of one client.
LEMMA Now ==
  ASSUME Inv, NEW c \in Client
  PROVE  /\ ServerOf[c] \in Server
         /\ request[c] \in ReqType /\ record[c] \in RecType
         /\ handler[ServerOf[c]] \in HandlerType
         /\ request = [request EXCEPT ![c] = request[c]]
         /\ record = [record EXCEPT ![c] = record[c]]
         /\ handler = [handler EXCEPT ![ServerOf[c]] = handler[ServerOf[c]]]
         /\ request[c].status # "INVALID" => conn_fd[ServerOf[c]] \in Client
         /\ request[c].status \in {"INVALID", "SHIFT"} => record[c] = FreeRecord
         /\ request[c].status \in {"SEAT", "BOOKED"} => record[c].train_fd \in Train
         /\ HandlerOK(ServerOf[c])
         /\ Counts(c)
<1>1. ServerOf[c] \in Server
  BY SlotAssumption
<1>2. /\ request \in [Client -> ReqType] /\ record \in [Client -> RecType]
      /\ handler \in [Server -> HandlerType]
  BY DEF Inv, TypeOK, ReqType, RecType, HandlerType
<1>3. ClientOK(c) /\ HandlerOK(ServerOf[c]) /\ Counts(c)
  BY <1>1 DEF Inv, CountsChosen, Counts
<1> QED BY <1>1, <1>2, <1>3 DEF ClientOK

\* The types of the variables a handler changes.
LEMMA NowTypes ==
  ASSUME Inv
  PROVE  /\ request \in [Client -> ReqType] /\ record \in [Client -> RecType]
         /\ handler \in [Server -> HandlerType]
BY DEF Inv, TypeOK, ReqType, RecType, HandlerType

\* The shared variables keep their types when they stay.
LEMMA NowShared ==
  ASSUME Inv
  PROVE  /\ train_file \in [Train -> [Seat -> 0..2]]
         /\ process \in [Server -> {"running", "killed", "crashed", "exited", "overrun"}]
         /\ conn_fd \in [Server -> Client \cup {None}]
         /\ kept \in [Server -> SUBSET Train]
         /\ shown \in [Client -> [train : Train \cup {None}, booked : SUBSET Seat]]
BY DEF Inv, TypeOK

\* Unlocking a file takes a train out of what is kept.
LEMMA Unlocking ==
  ASSUME Inv, NEW s, NEW t, Unlock(s, t)
  PROVE  kept' \in [Server -> SUBSET Train]
BY NowShared DEF Unlock

\* Writing a seat keeps the type of the files.
LEMMA Writing ==
  ASSUME Inv, NEW t, NEW k \in Seat, NEW v \in {0, 1, 2}
  PROVE  [train_file EXCEPT ![t][k] = v] \in [Train -> [Seat -> 0..2]]
<1>1. CASE t \in Train
  <2>1. [train_file[t] EXCEPT ![k] = v] \in [Seat -> 0..2]
    BY <1>1, NowShared
  <2> QED BY <2>1, NowShared
<1>2. CASE t \notin Train
  BY <1>2, NowShared
<1> QED BY <1>1, <1>2

\* Closing a connection, from select() or at the end of a handler.
LEMMA Closing ==
  ASSUME Inv, NEW c \in Client, Close(c),
         \/ handler[ServerOf[c]] = Select /\ handler' = handler
         \/ handler[ServerOf[c]].c = c /\ Return(c),
         UNCHANGED <<train_file, process, conn_fd>>,
         kept' \in [Server -> SUBSET Train]
  PROVE  Inv'
<1>1. Becomes(c, FreeRequest, FreeRecord, Select)
  BY Now DEF Becomes, Close, Return
<1>2. Fits(c, FreeRequest, FreeRecord, Select)
  <2>1. FreeRequest \in ReqType /\ FreeRecord \in RecType /\ Select \in HandlerType
    BY FreeTypes DEF ReqType, RecType, HandlerType
  <2>2. {k \in Seat : FreeRecord.seat_stat[k] = "CHOSEN"} = {}
    BY DEF FreeRecord
  <2>3. FreeRecord.num_of_chosen_seats = 0 /\ FreeRequest.status = "INVALID"
    BY DEF FreeRecord, FreeRequest
  <2> QED BY <2>1, <2>2, <2>3, FS_EmptySet DEF Fits
<1>3. SharedOK
  BY NowShared, FreeTypes DEF SharedOK, Close
<1> QED BY <1>1, <1>2, <1>3, ClientStep

\* A step that leaves c's record and status as they are.
LEMMA Going ==
  ASSUME Inv, NEW c \in Client, NEW q \in ReqType, NEW h \in HandlerType,
         Becomes(c, q, record[c], h), q.status = request[c].status,
         \/ h = Select
         \/ /\ h.c = c
            /\ \/ /\ h.at = "occupied_again" /\ h.arg \in Train
                  /\ q.status = "SHIFT" /\ q.buf \in Train
               \/ h.at = "pay" /\ q.status \in {"SEAT", "BOOKED"}
               \/ /\ h.at \in {"cancel", "lock_seat", "booked?", "locked?"}
                  /\ h.arg \in Seat /\ q.status = "SEAT",
         request[c].status = "BOOKED" /\ Chosen(c) # {} => h.at = "pay" /\ h.c = c,
         UNCHANGED conn_fd, SharedOK
  PROVE  Inv'
<1>1. Fits(c, q, record[c], h)
  BY Now DEF Fits, Counts, Chosen, Paid
<1> QED BY <1>1, ClientStep

\* Accept keeps the invariant.
LEMMA AcceptStep == ASSUME Inv, NEW c \in Client, Accept(c) PROVE Inv'
<1> DEFINE q == [request[c] EXCEPT !.status = "SHIFT"]
<1>1. Becomes(c, q, record[c], Select)
  BY Now DEF Accept, Becomes, Handles
<1>2. Fits(c, q, record[c], Select)
  <2>1. q \in ReqType /\ q.status = "SHIFT"
    BY Now DEF ReqType, Status
  <2>2. record[c] = FreeRecord /\ Select \in HandlerType
    BY Now, FreeTypes DEF Accept, Handles, HandlerType
  <2>3. conn_fd'[ServerOf[c]] = c
    BY Now, NowShared DEF Accept
  <2> QED BY <2>1, <2>2, <2>3, Now DEF Fits, Counts, Chosen
<1>3. SharedOK
  BY NowShared, Now DEF SharedOK, Accept
<1>4. \A s \in Server : conn_fd[s] \in Client => conn_fd'[s] \in Client
  BY NowShared DEF Accept
<1> QED BY <1>1, <1>2, <1>3, <1>4, ClientStep

\* A line that leaves its client in SHIFT.
LEMMA ShiftLineStep ==
  ASSUME Inv, NEW c \in Client, NEW t \in Train,
         ReadTrain(c, t) \/ ShiftFull(c, t) \/ ShiftFree(c, t)
  PROVE  Inv'
<1> DEFINE q == [request[c] EXCEPT !.buf = t]
           looked_up == LookedUp(c, t)
           h == [at |-> "occupied_again", c |-> c, arg |-> looked_up]
<1>0. Handles(c, "SHIFT") /\ request' = [request EXCEPT ![c].buf = t] /\ record' = record
  BY DEF ReadTrain, ShiftFull, ShiftFree
<1>1. q \in ReqType /\ q.status = "SHIFT" /\ q.buf = t
  BY Now, <1>0 DEF ReqType, Handles
<1>2. looked_up \in Train \cup {None}
  <2>1. conn_fd[ServerOf[c]] \in Client
    BY <1>0, Now DEF Handles
  <2>2. request[conn_fd[ServerOf[c]]] \in ReqType
    BY <2>1, Now
  <2> QED BY <2>2 DEF LookedUp, ReqType
<1>3. SharedOK /\ UNCHANGED conn_fd
  <2>1. kept' \in [Server -> SUBSET Train]
    BY NowShared, Unlocking DEF ReadTrain, ShiftFull, ShiftFree
  <2>2. UNCHANGED <<train_file, process, conn_fd>>
    BY DEF ReadTrain, ShiftFull, ShiftFree
  <2>3. shown' \in [Client -> [train : Train \cup {None}, booked : SUBSET Seat]]
    <3> DEFINE v == [train |-> looked_up, booked |-> {k \in Seat : train_file[looked_up][k] = 1}]
    <3>1. v \in [train : Train \cup {None}, booked : SUBSET Seat]
      BY <1>2
    <3>2. shown' = shown \/ shown' = [shown EXCEPT ![c] = v]
      BY DEF ReadTrain, ShiftFull, ShiftFree
    <3> HIDE DEF v
    <3> QED BY <3>1, <3>2, NowShared
  <2> QED BY <2>1, <2>2, <2>3, NowShared DEF SharedOK
<1>4. Select \in HandlerType
  BY FreeTypes DEF HandlerType
<1>5. CASE ReadTrain(c, t) \/ ShiftFull(c, t)
  <2>1. Becomes(c, q, record[c], Select)
    BY <1>0, <1>5, Now DEF Becomes, Handles, ReadTrain, ShiftFull
  <2> HIDE DEF q
  <2> QED BY <2>1, <1>0, <1>1, <1>3, <1>4, Going DEF Handles
<1>6. CASE ShiftFree(c, t)
  <2>1. Becomes(c, q, record[c], h)
    BY <1>0, <1>6, Now DEF Becomes, Handles, ShiftFree, Goto
  <2>2. h \in HandlerType /\ h.at = "occupied_again" /\ h.c = c /\ h.arg \in Train
    BY <1>2, <1>6 DEF HandlerType, ShiftFree
  <2> HIDE DEF q, h
  <2> QED BY <2>1, <2>2, <1>0, <1>1, <1>3, Going DEF Handles
<1> QED BY <1>5, <1>6

\* Steps that only go on to another access, or back to select().
LEMMA GoOnStep ==
  ASSUME Inv, NEW c \in Client,
         \/ ShiftUnanswered(c) \/ PayNothing(c) \/ Pay(c) \/ PayReturn(c)
         \/ FreeSeat(c) \/ LockSeat(c)
         \/ SayBooked(c) \/ NotBooked(c) \/ SayLocked(c)
         \/ \E k \in Seat : Taken(c, k)
  PROVE  Inv'
<1> DEFINE s == ServerOf[c]
<1>0. Select \in HandlerType /\ s \in Server
  BY FreeTypes, Now DEF HandlerType
<1>1. SharedOK /\ UNCHANGED conn_fd
  <2>1. kept' \in [Server -> SUBSET Train]
    BY NowShared, Unlocking
       DEF ShiftUnanswered, PayNothing, Pay, PayReturn, FreeSeat, LockSeat, SayBooked,
           NotBooked, SayLocked, Taken
  <2>2. UNCHANGED <<process, conn_fd, shown>>
    BY DEF ShiftUnanswered, PayNothing, Pay, PayReturn, FreeSeat, LockSeat, SayBooked,
           NotBooked, SayLocked, Taken
  <2>3. train_file' \in [Train -> [Seat -> 0..2]]
    <3>1. FreeSeat(c) \/ LockSeat(c) => handler[s].arg \in Seat
      <4>1. HandlerOK(s)
        BY Now
      <4> QED BY <4>1 DEF HandlerOK, FreeSeat, LockSeat, At, Select
    <3>2. CASE FreeSeat(c) \/ LockSeat(c)
      BY SMTT(30), <3>1, <3>2, Writing DEF FreeSeat, LockSeat
    <3>3. CASE ~(FreeSeat(c) \/ LockSeat(c))
      BY <3>3, NowShared
         DEF ShiftUnanswered, PayNothing, Pay, PayReturn, SayBooked, NotBooked, SayLocked, Taken
    <3> QED BY <3>2, <3>3
  <2> QED BY <2>1, <2>2, <2>3, NowShared DEF SharedOK
<1>2. CASE \/ ShiftUnanswered(c) \/ PayReturn(c) \/ FreeSeat(c) \/ LockSeat(c)
           \/ SayBooked(c) \/ SayLocked(c)
  <2>1. handler[s].c = c /\ handler' = [handler EXCEPT ![s] = Select]
        /\ request' = request /\ record' = record
    BY <1>2 DEF ShiftUnanswered, PayReturn, FreeSeat, LockSeat, SayBooked, SayLocked, At, Return
  <2>2. Becomes(c, request[c], record[c], Select)
    BY <2>1, Now DEF Becomes
  <2>3. ~(request[c].status = "BOOKED" /\ Chosen(c) # {})
    BY <1>2, Now, <2>1 DEF ShiftUnanswered, PayReturn, FreeSeat, LockSeat, SayBooked, SayLocked,
         At, Counts, Select, HandlerOK
  <2> QED BY <2>2, <2>3, <1>0, <1>1, Now, Going
<1>3. CASE PayNothing(c)
  <2> DEFINE q == [request[c] EXCEPT !.buf = None]
  <2>1. Becomes(c, q, record[c], Select) /\ request[c].status = "SEAT"
    BY <1>3, Now DEF Becomes, PayNothing, Handles, Line
  <2>2. q \in ReqType /\ q.status = request[c].status
    BY Now DEF ReqType
  <2> HIDE DEF q
  <2> QED BY <2>1, <2>2, <1>0, <1>1, Now, Going
<1>4. CASE Pay(c)
  <2> DEFINE q == [request[c] EXCEPT !.buf = None]
             h == [at |-> "pay", c |-> c, arg |-> None]
  <2>1. Becomes(c, q, record[c], h) /\ request[c].status = "SEAT"
    BY <1>4, Now DEF Becomes, Pay, Handles, Line, Goto
  <2>2. q \in ReqType /\ q.status = request[c].status /\ h \in HandlerType /\ h.at = "pay" /\ h.c = c
    BY Now DEF ReqType, HandlerType
  <2> HIDE DEF q, h
  <2> QED BY <2>1, <2>2, <1>0, <1>1, Now, Going
<1>5. CASE NotBooked(c)
  <2> DEFINE h == [at |-> "locked?", c |-> c, arg |-> handler[s].arg]
  <2>1. Becomes(c, request[c], record[c], h) /\ handler[s].at = "booked?" /\ handler[s].c = c
    BY <1>5, Now DEF Becomes, NotBooked, At, Goto
  <2>2. request[c].status = "SEAT" /\ handler[s].arg \in Seat
    <3>1. HandlerOK(s)
      BY Now
    <3> QED BY <2>1, <3>1 DEF HandlerOK, Select
  <2>3. h \in HandlerType /\ h.at = "locked?" /\ h.c = c /\ h.arg \in Seat
    BY <2>2 DEF HandlerType
  <2> HIDE DEF h
  <2> QED BY <2>1, <2>2, <2>3, <1>0, <1>1, Now, Going
<1>6. ASSUME NEW k \in Seat, Taken(c, k)
      PROVE  Inv'
  <2> DEFINE q == [request[c] EXCEPT !.buf = None]
             h == [at |-> "booked?", c |-> c, arg |-> k]
  <2>1. Becomes(c, q, record[c], h) /\ request[c].status = "SEAT"
    BY <1>6, Now DEF Becomes, Taken, Handles, Line, Goto
  <2>2. q \in ReqType /\ q.status = request[c].status
        /\ h \in HandlerType /\ h.at = "booked?" /\ h.c = c /\ h.arg \in Seat
    BY Now DEF ReqType, HandlerType
  <2> HIDE DEF q, h
  <2> QED BY <2>1, <2>2, <1>0, <1>1, Now, Going
<1> QED BY <1>2, <1>3, <1>4, <1>5, <1>6

\* Choose keeps the invariant: the count goes up with the set.
LEMMA ChooseStep == ASSUME Inv, NEW c \in Client, NEW k \in Seat, Choose(c, k) PROVE Inv'
<1> DEFINE q == [request[c] EXCEPT !.buf = None]
           n == record[c].num_of_chosen_seats + 1
           r == [record[c] EXCEPT !.seat_stat[k] = "CHOSEN", !.num_of_chosen_seats = n]
           h == [at |-> "lock_seat", c |-> c, arg |-> k]
<1>1. Becomes(c, q, r, h) /\ request[c].status = "SEAT" /\ k \notin Chosen(c)
  <2>1. record' = [record EXCEPT ![c] = r]
    BY NowTypes DEF RecType, Choose
  <2>2. request' = [request EXCEPT ![c] = q] /\ handler[ServerOf[c]] = Select
        /\ handler' = [handler EXCEPT ![ServerOf[c]] = h]
    BY DEF Choose, Line, Handles, Goto
  <2> QED BY <2>1, <2>2 DEF Becomes, Choose, Handles
<1>2. q \in ReqType /\ q.status = "SEAT" /\ h \in HandlerType
      /\ h.at = "lock_seat" /\ h.c = c /\ h.arg = k
  BY Now, <1>1 DEF ReqType, HandlerType
<1>3. n \in Nat /\ n = Cardinality(Chosen(c) \cup {k})
  <2>1. Cardinality(Chosen(c) \cup {k}) = Cardinality(Chosen(c)) + 1
    BY <1>1, ChosenFinite, FS_AddElement
  <2>2. record[c].num_of_chosen_seats = Cardinality(Chosen(c))
    BY Now DEF Counts
  <2> QED BY <2>1, <2>2, ChosenFinite
<1>4. /\ r \in RecType /\ r.num_of_chosen_seats = n /\ r.train_fd = record[c].train_fd
      /\ {j \in Seat : r.seat_stat[j] = "CHOSEN"} = Chosen(c) \cup {k}
  <2>1. /\ r \in RecType /\ r.num_of_chosen_seats = n /\ r.train_fd = record[c].train_fd
        /\ r.seat_stat = [record[c].seat_stat EXCEPT ![k] = "CHOSEN"]
    BY NowTypes, <1>3 DEF RecType
  <2>2. record[c].seat_stat \in [Seat -> {"UNKNOWN", "CHOSEN", "PAID"}]
    BY NowTypes DEF RecType
  <2> HIDE DEF r, n
  <2> QED BY <2>1, <2>2 DEF Chosen
<1>5. SharedOK /\ UNCHANGED conn_fd
  BY NowShared, Unlocking DEF SharedOK, Choose
<1>6. request[c].status # "INVALID" /\ record[c].train_fd \in Train
      /\ conn_fd[ServerOf[c]] \in Client
  BY <1>1, Now
<1> HIDE DEF q, r, h, n
<1>7. Fits(c, q, r, h)
  BY <1>1, <1>2, <1>3, <1>4, <1>5, <1>6 DEF Fits
<1> QED BY <1>1, <1>7, <1>5, ClientStep

\* Cancel keeps the invariant: the count goes down with the set.
LEMMA CancelStep == ASSUME Inv, NEW c \in Client, NEW k \in Seat, Cancel(c, k) PROVE Inv'
<1> DEFINE q == [request[c] EXCEPT !.buf = None]
           n == record[c].num_of_chosen_seats - 1
           r == [record[c] EXCEPT !.seat_stat[k] = "UNKNOWN", !.num_of_chosen_seats = n]
           h == [at |-> "cancel", c |-> c, arg |-> k]
<1>1. Becomes(c, q, r, h) /\ request[c].status = "SEAT" /\ k \in Chosen(c)
  <2>1. record' = [record EXCEPT ![c] = r]
    BY NowTypes DEF RecType, Cancel
  <2>2. request' = [request EXCEPT ![c] = q] /\ handler[ServerOf[c]] = Select
        /\ handler' = [handler EXCEPT ![ServerOf[c]] = h]
    BY DEF Cancel, Line, Handles, Goto
  <2> QED BY <2>1, <2>2 DEF Becomes, Cancel, Handles
<1>2. q \in ReqType /\ q.status = "SEAT" /\ h \in HandlerType
      /\ h.at = "cancel" /\ h.c = c /\ h.arg = k
  BY NowTypes, <1>1 DEF ReqType, HandlerType
<1>3. n \in Nat /\ n = Cardinality(Chosen(c) \ {k})
  <2>1. Cardinality(Chosen(c) \ {k}) = Cardinality(Chosen(c)) - 1
    BY <1>1, ChosenFinite, FS_RemoveElement
  <2>2. Cardinality(Chosen(c) \ {k}) \in Nat
    BY ChosenFinite, FS_Subset, FS_CardinalityType
  <2>3. record[c].num_of_chosen_seats = Cardinality(Chosen(c))
    BY Now DEF Counts
  <2> QED BY <2>1, <2>2, <2>3
<1>4. /\ r \in RecType /\ r.num_of_chosen_seats = n /\ r.train_fd = record[c].train_fd
      /\ {j \in Seat : r.seat_stat[j] = "CHOSEN"} = Chosen(c) \ {k}
  BY NowTypes, <1>1, <1>3 DEF RecType, Chosen
<1>5. SharedOK /\ UNCHANGED conn_fd
  BY NowShared DEF SharedOK, Cancel
<1>6. request[c].status # "INVALID" /\ record[c].train_fd \in Train
      /\ conn_fd[ServerOf[c]] \in Client
  BY <1>1, Now
<1> HIDE DEF q, r, h, n
<1>7. Fits(c, q, r, h)
  BY <1>1, <1>2, <1>3, <1>4, <1>5, <1>6 DEF Fits
<1> QED BY <1>1, <1>7, <1>5, ClientStep

\* PaySeat keeps the invariant: a seat paid is a seat less to pay.
LEMMA PaySeatStep == ASSUME Inv, NEW c \in Client, PaySeat(c) PROVE Inv'
<1>0. PICK k \in Chosen(c) :
        /\ record' = [record EXCEPT ![c].seat_stat[k] = "PAID",
                                    ![c].num_of_chosen_seats = @ - 1]
        /\ train_file' = [train_file EXCEPT ![record[c].train_fd][k] = 1]
  BY DEF PaySeat
<1>k. k \in Seat
  BY DEF Chosen
<1> DEFINE q == [request[c] EXCEPT !.status = "BOOKED"]
           n == record[c].num_of_chosen_seats - 1
           r == [record[c] EXCEPT !.seat_stat[k] = "PAID", !.num_of_chosen_seats = n]
           h == handler[ServerOf[c]]
<1>1. Becomes(c, q, r, h) /\ h.at = "pay" /\ h.c = c
  <2>1. record' = [record EXCEPT ![c] = r]
    BY NowTypes, <1>k, <1>0 DEF RecType
  <2>2. request' = [request EXCEPT ![c] = q] /\ h.at = "pay" /\ h.c = c /\ handler' = handler
    BY NowTypes DEF PaySeat, At, ReqType
  <2>3. handler = [handler EXCEPT ![ServerOf[c]] = h]
    BY Now
  <2> QED BY <2>1, <2>2, <2>3 DEF Becomes
<1>s. request[c].status \in {"SEAT", "BOOKED"}
  <2>1. HandlerOK(ServerOf[c])
    BY Now
  <2> QED BY <2>1, <1>1 DEF HandlerOK, Select
<1>2. q \in ReqType /\ q.status = "BOOKED" /\ h \in HandlerType
  BY Now DEF ReqType, Status
<1>3. n \in Nat /\ n = Cardinality(Chosen(c) \ {k})
  <2>1. Cardinality(Chosen(c) \ {k}) = Cardinality(Chosen(c)) - 1
    BY <1>0, ChosenFinite, FS_RemoveElement
  <2>2. Cardinality(Chosen(c) \ {k}) \in Nat
    BY ChosenFinite, FS_Subset, FS_CardinalityType
  <2>3. record[c].num_of_chosen_seats = Cardinality(Chosen(c))
    BY Now DEF Counts
  <2> QED BY <2>1, <2>2, <2>3
<1>4. /\ r \in RecType /\ r.num_of_chosen_seats = n /\ r.train_fd = record[c].train_fd
      /\ {j \in Seat : r.seat_stat[j] = "CHOSEN"} = Chosen(c) \ {k}
      /\ k \in {j \in Seat : r.seat_stat[j] = "PAID"}
  BY NowTypes, <1>k, <1>1, <1>3 DEF RecType, Chosen
<1>5. SharedOK /\ UNCHANGED conn_fd
  <2>1. train_file' \in [Train -> [Seat -> 0..2]]
    BY <1>0, <1>k, Writing
  <2> QED BY <2>1, NowShared, Unlocking DEF SharedOK, PaySeat
<1>6. request[c].status # "INVALID" /\ record[c].train_fd \in Train
      /\ conn_fd[ServerOf[c]] \in Client
  BY <1>s, Now
<1> HIDE DEF q, r, h, n
<1>7. Fits(c, q, r, h)
  BY <1>1, <1>2, <1>3, <1>4, <1>5, <1>6 DEF Fits
<1> QED BY <1>1, <1>7, <1>5, ClientStep

\* ShiftSelected keeps the invariant.
LEMMA ShiftSelectedStep == ASSUME Inv, NEW c \in Client, ShiftSelected(c) PROVE Inv'
<1> DEFINE q == [request[c] EXCEPT !.status = "SEAT"]
           t == handler[ServerOf[c]].arg
           r == [record[c] EXCEPT !.shift_id = request[c].buf, !.train_fd = t]
<1>1. Becomes(c, q, r, Select) /\ At(ServerOf[c], "occupied_again", c)
  <2>1. record' = [record EXCEPT ![c] = r]
    BY NowTypes DEF RecType, ShiftSelected
  <2>2. request' = [request EXCEPT ![c] = q]
    BY NowTypes DEF ReqType, ShiftSelected
  <2> QED BY <2>1, <2>2 DEF Becomes, ShiftSelected, At, Return
<1>2. t \in Train /\ request[c].status = "SHIFT" /\ request[c].buf \in Train
  <2>1. HandlerOK(ServerOf[c])
    BY Now
  <2>2. At(ServerOf[c], "occupied_again", c)
    BY <1>1
  <2> QED BY <2>1, <2>2 DEF HandlerOK, At, Select
<1>3. q \in ReqType /\ q.status = "SEAT" /\ Select \in HandlerType
  BY Now, FreeTypes DEF ReqType, Status, HandlerType
<1>4. r \in RecType /\ r.train_fd = t /\ r.num_of_chosen_seats = record[c].num_of_chosen_seats
      /\ r.seat_stat = record[c].seat_stat
  BY ZenonT(40), Now, <1>2 DEF RecType
<1>5. SharedOK /\ UNCHANGED conn_fd
  BY NowShared, Unlocking DEF SharedOK, ShiftSelected
<1>6. conn_fd[ServerOf[c]] \in Client /\ Counts(c)
  BY <1>2, Now
<1> HIDE DEF q, r, t
<1>7. Fits(c, q, r, Select)
  BY <1>2, <1>3, <1>4, <1>5, <1>6 DEF Fits, Counts, Chosen
<1> QED BY <1>1, <1>7, <1>5, ClientStep

\* ChooseMore keeps the invariant: a client that has booked has nothing left to pay.
LEMMA ChooseMoreStep == ASSUME Inv, NEW c \in Client, ChooseMore(c) PROVE Inv'
<1> DEFINE q == [status |-> "SEAT", buf |-> None]
<1>1. Becomes(c, q, record[c], Select) /\ request[c].status = "BOOKED"
  BY Now DEF Becomes, ChooseMore, Handles
<1>2. Fits(c, q, record[c], Select)
  <2>1. q \in ReqType /\ Select \in HandlerType /\ conn_fd' = conn_fd
    BY FreeTypes DEF ReqType, Status, HandlerType, ChooseMore
  <2> QED BY <2>1, <1>1, Now DEF Fits, Counts, Chosen
<1>3. SharedOK /\ UNCHANGED conn_fd
  BY NowShared DEF SharedOK, ChooseMore
<1> QED BY <1>1, <1>2, <1>3, ClientStep

\* A process is started again.
LEMMA StartStep == ASSUME Inv, NEW s \in Server, Start(s) PROVE Inv'
<1>1. UNCHANGED <<conn_fd, request, record, handler, train_file, kept, shown>>
  BY DEF Start
<1>2. TypeOK'
  BY NowShared, <1>1 DEF Inv, TypeOK, Start
<1>3. \A c \in Client : ClientOK(c)' /\ Counts(c)'
  BY <1>1 DEF Inv, ClientOK, CountsChosen, Counts, Chosen, Paid, At
<1>4. \A r \in Server : HandlerOK(r)'
  BY <1>1 DEF Inv, HandlerOK
<1> QED BY <1>2, <1>3, <1>4 DEF Inv, CountsChosen, Counts

\* Connections that end.
LEMMA CloseStep ==
  ASSUME Inv, NEW c \in Client,
         \/ Expire(c) \/ Exit(c) \/ InvalidShift(c) \/ InvalidSeat(c) \/ NegativeSeat(c)
         \/ InvalidBooked(c) \/ Neither(c)
  PROVE  Inv'
<1>1. CASE \/ Expire(c) \/ Exit(c) \/ InvalidShift(c) \/ InvalidSeat(c) \/ InvalidBooked(c)
  BY <1>1, NowShared, Closing
     DEF Expire, Exit, InvalidShift, InvalidSeat, InvalidBooked, Handles
<1>2. CASE NegativeSeat(c)
  <2>1. request[c].status = "SEAT" /\ handler[ServerOf[c]] = Select /\ handler' = handler
    BY <1>2 DEF NegativeSeat, Handles
  <2>2. kept' \in [Server -> SUBSET Train]
    <3>1. record[c].train_fd \in Train
      BY <2>1, Now
    <3> QED BY <1>2, <3>1, NowShared DEF NegativeSeat
  <2> QED BY <1>2, <2>1, <2>2, Closing DEF NegativeSeat
<1>3. CASE Neither(c)
  BY <1>3, Unlocking, Closing DEF Neither, At
<1> QED BY <1>1, <1>2, <1>3

\* Every step keeps the invariant.
LEMMA NextInv == Inv /\ [Next]_vars => Inv'
<1> SUFFICES ASSUME Inv, [Next]_vars
             PROVE  Inv'
  OBVIOUS
<1>1. CASE UNCHANGED vars
  <2>1. TypeOK'
    BY <1>1 DEF vars, Inv, TypeOK
  <2>2. \A c \in Client : ClientOK(c)' /\ Counts(c)'
    BY <1>1 DEF vars, Inv, ClientOK, CountsChosen, Counts, Chosen, Paid, At
  <2>3. \A r \in Server : HandlerOK(r)'
    BY <1>1 DEF vars, Inv, HandlerOK
  <2> QED BY <2>1, <2>2, <2>3 DEF Inv, CountsChosen, Counts
<1>2. ASSUME NEW c \in Client, Receive(c)
      PROVE  Inv'
  <2>1. CASE Accept(c)
    BY <2>1, AcceptStep
  <2>2. CASE \/ Expire(c) \/ Exit(c) \/ InvalidShift(c) \/ InvalidSeat(c) \/ NegativeSeat(c)
             \/ InvalidBooked(c)
    BY <2>2, CloseStep
  <2>3. CASE IncompleteLine(c) \/ InvalidSeatExit(c) \/ \E t \in Train : ShiftCrash(c, t)
    BY <2>3, SlotAssumption, DieStep DEF IncompleteLine, InvalidSeatExit, ShiftCrash
  <2>4. CASE \E t \in Train : ReadTrain(c, t) \/ ShiftFull(c, t) \/ ShiftFree(c, t)
    BY <2>4, ShiftLineStep
  <2>5. CASE PayNothing(c) \/ Pay(c) \/ \E k \in Seat : Taken(c, k)
    BY <2>5, GoOnStep
  <2>6. CASE \E k \in Seat : Cancel(c, k) \/ Choose(c, k)
    BY <2>6, CancelStep, ChooseStep
  <2>7. CASE ChooseMore(c)
    BY <2>7, ChooseMoreStep
  <2> QED BY <1>2, <2>1, <2>2, <2>3, <2>4, <2>5, <2>6, <2>7
      DEF Receive, WriteLine, Shift, SeatNumber
<1>3. ASSUME NEW c \in Client, Continue(c)
      PROVE  Inv'
  BY <1>3, ShiftSelectedStep, PaySeatStep, GoOnStep, CloseStep DEF Continue
<1>4. ASSUME NEW s \in Server, Kill(s) \/ Start(s) \/ Deadlock(s)
      PROVE  Inv'
  BY <1>4, StartStep, DieStep DEF Kill, Deadlock
<1> QED BY <1>1, <1>2, <1>3, <1>4 DEF Next

\* Inv is an invariant.
LEMMA Invariance == Spec => []Inv
BY InitInv, NextInv, PTL DEF Spec

\* Every variable keeps its type: TypeOK of the runs, for any servers.
THEOREM TypeCorrect == Spec => []TypeOK
<1>1. Inv => TypeOK
  BY DEF Inv
<1> QED BY <1>1, Invariance, PTL

\* However many write servers share the files, and whatever they write, the
\* number a record keeps is that of the seats it has chosen, and a client
\* that has booked has no seat left to pay.
THEOREM RecordsCount == Spec => []CountsChosen
<1>1. Inv => CountsChosen
  BY DEF Inv
<1> QED BY <1>1, Invariance, PTL

-----------------------------------------------------------------------------
(* What holds if there is one write server, among any read servers.        *)

OneWriter == \A s, r \in Server \ Reader : s = r

Holds(c) == Chosen(c) \cup Paid(c)

\* FileBacksRecords for one seat, and more: a chosen seat is locked in the
\* file, but for the seat that is being locked, which is still available.
Backs(c, k) ==
  LET s == ServerOf[c]
      in_file == train_file[record[c].train_fd][k] IN
  /\ k \in Paid(c) => in_file = 1
  /\ k \in Chosen(c) =>
       in_file = IF At(s, "lock_seat", c) /\ handler[s].arg = k THEN 0 ELSE 2

\* The readings one handler takes of a seat agree.
Reads(c) ==
  LET s == ServerOf[c]
      in_file == train_file[record[c].train_fd][handler[s].arg] IN
  /\ At(s, "booked?", c) => in_file # 0
  /\ At(s, "locked?", c) => in_file = 2

\* The seat that is being written is nobody else's.
WritesOwn(c) ==
  LET s == ServerOf[c]
      k == handler[s].arg IN
  /\ At(s, "cancel", c) =>
       /\ train_file[record[c].train_fd][k] = 2
       /\ \A d \in Client : record[d].train_fd = record[c].train_fd => k \notin Holds(d)
  /\ At(s, "lock_seat", c) => k \in Chosen(c)

Apart(c, d) ==
  c # d /\ record[c].train_fd = record[d].train_fd => Holds(c) \cap Holds(d) = {}

Excl ==
  /\ \A s \in Reader : handler[s] = Select
  /\ \A c \in Client : ServerOf[c] \in Reader => request[c].status \in {"INVALID", "SHIFT"}
  /\ \A c, d \in Client : Apart(c, d)
  /\ \A c \in Client : \A k \in Seat : Backs(c, k)
  /\ \A c \in Client : Reads(c) /\ WritesOwn(c)

\* Excl is what the runs check of one write server.
LEMMA ExclImplies ==
  Excl => SeatHeldByOne /\ FileBacksRecords
<1> SUFFICES ASSUME Excl PROVE SeatHeldByOne /\ FileBacksRecords
  OBVIOUS
<1>1. SeatHeldByOne
  BY DEF Excl, SeatHeldByOne, Apart, Holds
<1>2. ASSUME NEW c \in Client, NEW k \in Seat
      PROVE  /\ k \in Paid(c) => train_file[record[c].train_fd][k] = 1
             /\ k \in Chosen(c) => train_file[record[c].train_fd][k] # 1
  BY DEF Excl, Backs
<1>3. \A c : Paid(c) \subseteq Seat /\ Chosen(c) \subseteq Seat
  BY DEF Paid, Chosen
<1> QED BY <1>1, <1>2, <1>3 DEF FileBacksRecords

\* A free record holds nothing.
LEMMA FreeHoldsNone ==
  ASSUME NEW c, record[c] = FreeRecord
  PROVE  Chosen(c) = {} /\ Paid(c) = {} /\ Holds(c) = {}
BY FreeHasNone DEF Holds

\* Initially nobody holds a seat.
LEMMA InitExcl == Init => Excl
<1> SUFFICES ASSUME Init PROVE Excl
  OBVIOUS
<1>1. /\ \A s \in Server : handler[s] = Select
      /\ \A c \in Client : record[c] = FreeRecord /\ request[c].status = "INVALID"
  BY DEF Init, FreeRequest
<1>2. \A c \in Client : Chosen(c) = {} /\ Paid(c) = {} /\ Holds(c) = {}
  BY <1>1, FreeHoldsNone
<1>3. \A c \in Client : ServerOf[c] \in Server
  BY SlotAssumption
<1>4. \A c \in Client : Reads(c) /\ WritesOwn(c)
  BY <1>1, <1>3 DEF Reads, WritesOwn, At, Select
<1>5. \A c \in Client : \A k \in Seat : Backs(c, k)
  BY <1>2 DEF Backs
<1>6. \A c, d \in Client : Apart(c, d)
  BY <1>2 DEF Apart
<1> QED BY <1>1, <1>4, <1>5, <1>6, SlotAssumption DEF Excl

\* A step that leaves files, records and handlers alone.
LEMMA StillExcl ==
  ASSUME Excl, UNCHANGED <<train_file, record, handler>>,
         \A c \in Client : ServerOf[c] \in Reader => request'[c].status \in {"INVALID", "SHIFT"}
  PROVE  Excl'
BY DEF Excl, Apart, Backs, Reads, WritesOwn, Holds, Chosen, Paid, At

\* A step of the write server, about its client c.
LEMMA WriterStep ==
  ASSUME Inv, Excl, OneWriter, NEW c \in Client, ServerOf[c] \notin Reader,
         handler[ServerOf[c]] = Select \/ handler[ServerOf[c]].c = c,
         handler'[ServerOf[c]] = Select \/ handler'[ServerOf[c]].c = c,
         \A s \in Server : s # ServerOf[c] => handler'[s] = handler[s],
         \A d \in Client : d # c => record'[d] = record[d] /\ request'[d] = request[d],
         \A d \in Client : Apart(c, d)',
         \A d \in Client : \A k \in Holds(d) :
           d # c => train_file'[record[d].train_fd][k] = train_file[record[d].train_fd][k],
         \A k \in Seat : Backs(c, k)',
         Reads(c)', WritesOwn(c)'
  PROVE  Excl'
<1>1. \A d \in Client : ServerOf[d] \in Server
  BY SlotAssumption
<1>2. \A d \in Client : d # c => Chosen(d)' = Chosen(d) /\ Paid(d)' = Paid(d) /\ Holds(d)' = Holds(d)
  BY DEF Holds, Chosen, Paid
<1>3. ASSUME NEW d \in Client, d # c, NEW at \in {"lock_seat", "cancel", "booked?", "locked?"}
      PROVE  ~At(ServerOf[d], at, d) /\ ~At(ServerOf[d], at, d)'
  <2>1. CASE ServerOf[d] = ServerOf[c]
    BY <2>1, <1>3 DEF At, Select
  <2>2. CASE ServerOf[d] # ServerOf[c]
    <3>1. ServerOf[d] \in Reader
      BY <2>2, <1>1 DEF OneWriter
    <3>2. handler[ServerOf[d]] = Select /\ handler'[ServerOf[d]] = Select
      BY <2>2, <3>1, <1>1 DEF Excl
    <3> QED BY <3>2, <1>3 DEF At, Select
  <2> QED BY <2>1, <2>2
<1>4. \A s \in Reader : handler'[s] = Select
  BY SlotAssumption DEF Excl
<1>5. \A d \in Client : ServerOf[d] \in Reader => request'[d].status \in {"INVALID", "SHIFT"}
  BY DEF Excl
<1>6. ASSUME NEW e \in Client, NEW d \in Client
      PROVE  Apart(e, d)'
  <2>1. CASE e # c /\ d # c
    BY <2>1, <1>2 DEF Excl, Apart
  <2>2. CASE e = c
    BY <2>2
  <2>3. CASE d = c
    <3>1. Apart(c, e)'
      OBVIOUS
    <3> QED BY <2>3, <3>1 DEF Apart
  <2> QED BY <2>1, <2>2, <2>3
<1>7. ASSUME NEW d \in Client, NEW k \in Seat
      PROVE  Backs(d, k)'
  <2>1. CASE d # c
    <3>1. Backs(d, k)
      BY DEF Excl
    <3>2. ~At(ServerOf[d], "lock_seat", d) /\ ~At(ServerOf[d], "lock_seat", d)'
      BY <2>1, <1>3
    <3> QED BY <2>1, <3>1, <3>2, <1>2 DEF Backs, Holds
  <2> QED BY <2>1
<1>8. ASSUME NEW d \in Client
      PROVE  Reads(d)' /\ WritesOwn(d)'
  <2>1. CASE d # c
    BY <2>1, <1>3 DEF Reads, WritesOwn
  <2> QED BY <2>1
<1> QED BY <1>4, <1>5, <1>6, <1>7, <1>8 DEF Excl

\* What Excl says of one client.
LEMMA NowExcl ==
  ASSUME Excl, NEW c \in Client
  PROVE  /\ \A d \in Client : Apart(c, d)
         /\ \A k \in Seat : Backs(c, k)
         /\ Reads(c) /\ WritesOwn(c)
BY DEF Excl

\* A step of c's handler that writes nothing.
LEMMA MovesOn ==
  ASSUME Inv, Excl, OneWriter, NEW c \in Client, ServerOf[c] \notin Reader,
         NEW h, handler' = [handler EXCEPT ![ServerOf[c]] = h],
         handler[ServerOf[c]] = Select \/ handler[ServerOf[c]].c = c,
         handler[ServerOf[c]].at # "lock_seat",
         h = Select \/ h.c = c, h.at \notin {"lock_seat", "cancel"},
         UNCHANGED <<train_file, record>>,
         \A d \in Client : d # c => request'[d] = request[d],
         Reads(c)'
  PROVE  Excl'
<1>1. handler'[ServerOf[c]] = h /\ \A s \in Server : s # ServerOf[c] => handler'[s] = handler[s]
  BY SlotAssumption, NowTypes
<1>2. \A d \in Client : Apart(c, d)'
  BY NowExcl DEF Apart, Holds, Chosen, Paid
<1>3. \A k \in Seat : Backs(c, k)'
  BY NowExcl, <1>1 DEF Backs, Chosen, Paid, At
<1>4. WritesOwn(c)'
  BY <1>1 DEF WritesOwn, At
<1> QED BY <1>1, <1>2, <1>3, <1>4, WriterStep

\* A server that dies takes its records with it.
LEMMA DieExcl ==
  ASSUME Inv, Excl, NEW s \in Server, NEW why, Die(s, why), train_file' = train_file
  PROVE  Excl'
<1>1. \A c \in Client : ServerOf[c] \in Server
  BY SlotAssumption
<1>2. /\ \A c \in Client : ServerOf[c] = s => record'[c] = FreeRecord /\ request'[c] = FreeRequest
      /\ \A c \in Client : ServerOf[c] # s => record'[c] = record[c] /\ request'[c] = request[c]
      /\ handler'[s] = Select
      /\ \A r \in Server : r # s => handler'[r] = handler[r]
  BY NowTypes DEF Die
<1>3. /\ \A c \in Client : ServerOf[c] = s => Chosen(c)' = {} /\ Paid(c)' = {} /\ Holds(c)' = {}
      /\ \A c \in Client : ServerOf[c] # s =>
           Chosen(c)' = Chosen(c) /\ Paid(c)' = Paid(c) /\ Holds(c)' = Holds(c)
  BY <1>2 DEF Chosen, Paid, Holds, FreeRecord
<1>4. \A c \in Client : ServerOf[c] = s => Reads(c)' /\ WritesOwn(c)'
  BY <1>2 DEF Reads, WritesOwn, At, Select
<1>5. ASSUME NEW c \in Client, ServerOf[c] # s
      PROVE  Reads(c)' /\ WritesOwn(c)'
  <2>1. Reads(c) /\ WritesOwn(c) /\ handler'[ServerOf[c]] = handler[ServerOf[c]]
    BY <1>1, <1>2, <1>5, NowExcl
  <2>2. ASSUME NEW d \in Client, record'[d].train_fd = record'[c].train_fd,
               At(ServerOf[c], "cancel", c)
        PROVE  handler[ServerOf[c]].arg \notin Holds(d)'
    BY <1>2, <1>3, <1>5, <2>1, <2>2 DEF WritesOwn
  <2>3. Reads(c)'
    BY <1>2, <1>5, <2>1 DEF Reads, At
  <2>4. WritesOwn(c)'
    BY <1>2, <1>3, <1>5, <2>1, <2>2 DEF WritesOwn, At
  <2> QED BY <2>3, <2>4
<1>6. \A c, d \in Client : Apart(c, d)'
  BY <1>2, <1>3 DEF Excl, Apart
<1>7. ASSUME NEW c \in Client, NEW k \in Seat
      PROVE  Backs(c, k)'
  BY <1>1, <1>2, <1>3, NowExcl DEF Backs, At
<1>8. /\ \A r \in Reader : handler'[r] = Select
      /\ \A c \in Client : ServerOf[c] \in Reader => request'[c].status \in {"INVALID", "SHIFT"}
  BY <1>1, <1>2, SlotAssumption DEF Excl, FreeRequest
<1> QED BY <1>4, <1>5, <1>6, <1>7, <1>8 DEF Excl

\* The client's connection is closed by its write server.
LEMMA CloseExcl ==
  ASSUME Inv, Excl, OneWriter, NEW c \in Client, ServerOf[c] \notin Reader, Close(c),
         \/ handler[ServerOf[c]] = Select /\ handler' = handler
         \/ handler[ServerOf[c]].c = c /\ Return(c),
         train_file' = train_file
  PROVE  Excl'
<1>1. /\ record'[c] = FreeRecord /\ handler'[ServerOf[c]] = Select
      /\ \A s \in Server : s # ServerOf[c] => handler'[s] = handler[s]
      /\ \A d \in Client : d # c => record'[d] = record[d] /\ request'[d] = request[d]
  BY NowTypes, SlotAssumption DEF Close, Return
<1>2. Chosen(c)' = {} /\ Paid(c)' = {} /\ Holds(c)' = {}
  BY <1>1 DEF Chosen, Paid, Holds, FreeRecord
<1>3. Reads(c)' /\ WritesOwn(c)'
  BY <1>1 DEF Reads, WritesOwn, At, Select
<1>4. (\A d \in Client : Apart(c, d)') /\ \A k \in Seat : Backs(c, k)'
  BY <1>2 DEF Apart, Backs
<1> QED BY <1>1, <1>3, <1>4, WriterStep

\* The steps of a read server change no file, no record and no handler.
LEMMA ReaderExcl ==
  ASSUME Inv, Excl, NEW c \in Client, ServerOf[c] \in Reader,
         Receive(c) \/ Continue(c)
  PROVE  Excl'
<1>1. request[c].status \in {"INVALID", "SHIFT"} /\ handler[ServerOf[c]] = Select
      /\ record[c] = FreeRecord /\ ServerOf[c] \in Server
  BY Now DEF Excl
<1>2. ~Continue(c)
  BY <1>1 DEF Continue, ShiftSelected, ShiftUnanswered, PaySeat, PayReturn, FreeSeat, LockSeat,
       SayBooked, NotBooked, SayLocked, Neither, At, Select
<1>3. CASE IncompleteLine(c) \/ \E t \in Train : ShiftCrash(c, t)
  BY <1>1, <1>3, DieExcl DEF IncompleteLine, ShiftCrash
<1>4. CASE Expire(c) \/ Exit(c) \/ InvalidShift(c)
  <2>1. record' = record /\ UNCHANGED <<train_file, handler>>
        /\ request' = [request EXCEPT ![c] = FreeRequest]
    BY <1>1, <1>4, NowTypes DEF Expire, Exit, InvalidShift, Close
  <2>2. \A d \in Client : ServerOf[d] \in Reader => request'[d].status \in {"INVALID", "SHIFT"}
    BY <2>1, NowTypes DEF Excl, FreeRequest
  <2> QED BY <2>1, <2>2, StillExcl
<1>5. CASE Accept(c) \/ \E t \in Train : ReadTrain(c, t)
  <2>1. UNCHANGED <<train_file, record, handler>>
    BY <1>5 DEF Accept, ReadTrain
  <2>2. \A d \in Client : ServerOf[d] \in Reader => request'[d].status \in {"INVALID", "SHIFT"}
    BY <1>1, <1>5, NowTypes DEF Excl, Accept, ReadTrain, ReqType
  <2> QED BY <2>1, <2>2, StillExcl
<1> QED BY <1>1, <1>2, <1>3, <1>4, <1>5 DEF Receive

\* Lines and readings of the write server that change no record and no file.
LEMMA ReadingExcl ==
  ASSUME Inv, Excl, OneWriter, NEW c \in Client, ServerOf[c] \notin Reader,
         \/ \E t \in Train : ShiftFree(c, t)
         \/ Pay(c) \/ PayReturn(c) \/ ShiftUnanswered(c)
         \/ \E k \in Seat : Taken(c, k)
         \/ SayBooked(c) \/ NotBooked(c) \/ SayLocked(c)
  PROVE  Excl'
<1>0. ServerOf[c] \in Server /\ handler \in [Server -> HandlerType]
  BY Now, NowTypes
<1>1. ASSUME NEW t \in Train, ShiftFree(c, t)
      PROVE  Excl'
  <2> DEFINE h == [at |-> "occupied_again", c |-> c, arg |-> LookedUp(c, t)]
  <2>1. /\ handler' = [handler EXCEPT ![ServerOf[c]] = h] /\ handler[ServerOf[c]] = Select
        /\ UNCHANGED <<train_file, record>>
        /\ \A d \in Client : d # c => request'[d] = request[d]
    BY <1>1, NowTypes DEF ShiftFree, Goto, Handles
  <2>2. Reads(c)'
    BY <1>0, <2>1 DEF Reads, At
  <2>3. h.c = c /\ h.at \notin {"lock_seat", "cancel"} /\ handler[ServerOf[c]].at # "lock_seat"
    BY <2>1 DEF Select
  <2> QED BY <2>1, <2>2, <2>3, MovesOn
<1>2. ASSUME Pay(c)
      PROVE  Excl'
  <2> DEFINE h == [at |-> "pay", c |-> c, arg |-> None]
  <2>1. /\ handler' = [handler EXCEPT ![ServerOf[c]] = h] /\ handler[ServerOf[c]] = Select
        /\ UNCHANGED <<train_file, record>>
        /\ \A d \in Client : d # c => request'[d] = request[d]
    BY <1>2, NowTypes DEF Pay, Goto, Handles, Line
  <2>2. Reads(c)'
    BY <1>0, <2>1 DEF Reads, At
  <2>3. h.c = c /\ h.at \notin {"lock_seat", "cancel"} /\ handler[ServerOf[c]].at # "lock_seat"
    BY <2>1 DEF Select
  <2> QED BY <2>1, <2>2, <2>3, MovesOn
<1>3. ASSUME PayReturn(c) \/ ShiftUnanswered(c) \/ SayBooked(c) \/ SayLocked(c)
      PROVE  Excl'
  <2>1. /\ handler' = [handler EXCEPT ![ServerOf[c]] = Select]
        /\ handler[ServerOf[c]].c = c /\ handler[ServerOf[c]].at # "lock_seat"
        /\ UNCHANGED <<train_file, record, request>>
    BY <1>3 DEF PayReturn, ShiftUnanswered, SayBooked, SayLocked, Return, At
  <2>2. Reads(c)'
    BY <1>0, <2>1 DEF Reads, At, Select
  <2>3. Select.at \notin {"lock_seat", "cancel"}
    BY DEF Select
  <2> QED BY <2>1, <2>2, <2>3, MovesOn
<1>4. ASSUME NEW k \in Seat, Taken(c, k)
      PROVE  Excl'
  <2> DEFINE h == [at |-> "booked?", c |-> c, arg |-> k]
  <2>1. /\ handler' = [handler EXCEPT ![ServerOf[c]] = h] /\ handler[ServerOf[c]] = Select
        /\ UNCHANGED <<train_file, record>>
        /\ \A d \in Client : d # c => request'[d] = request[d]
        /\ train_file[record[c].train_fd][k] # 0
    BY <1>4, NowTypes DEF Taken, Goto, Handles, Line
  <2>2. Reads(c)'
    BY <1>0, <2>1 DEF Reads, At
  <2>3. h.c = c /\ h.at \notin {"lock_seat", "cancel"} /\ handler[ServerOf[c]].at # "lock_seat"
    BY <2>1 DEF Select
  <2> QED BY <2>1, <2>2, <2>3, MovesOn
<1>5. ASSUME NotBooked(c)
      PROVE  Excl'
  <2> DEFINE k == handler[ServerOf[c]].arg
             h == [at |-> "locked?", c |-> c, arg |-> k]
             file == train_file[record[c].train_fd][k]
  <2>1. /\ handler' = [handler EXCEPT ![ServerOf[c]] = h] /\ handler[ServerOf[c]].c = c
        /\ handler[ServerOf[c]].at = "booked?"
        /\ UNCHANGED <<train_file, record, request>> /\ file # 1
    BY <1>5 DEF NotBooked, Goto, At
  <2>2. file # 0
    BY <2>1, NowExcl DEF Reads, At
  <2>3. file \in 0..2
    <3>1. k \in Seat /\ request[c].status = "SEAT"
      BY <2>1, <1>0 DEF Inv, HandlerOK, Select
    <3>2. record[c].train_fd \in Train
      BY <3>1, Now
    <3> QED BY <3>1, <3>2, NowShared
  <2>4. file = 2
    BY <2>1, <2>2, <2>3
  <2>5. Reads(c)'
    BY <1>0, <2>1, <2>4 DEF Reads, At
  <2>6. h.c = c /\ h.at \notin {"lock_seat", "cancel"}
    OBVIOUS
  <2> QED BY <2>1, <2>5, <2>6, MovesOn
<1> QED BY <1>1, <1>2, <1>3, <1>4, <1>5

\* Lines that change the request only.
LEMMA RequestExcl ==
  ASSUME Inv, Excl, NEW c \in Client, ServerOf[c] \notin Reader,
         Accept(c) \/ PayNothing(c) \/ ChooseMore(c) \/ \E t \in Train : ShiftFull(c, t)
  PROVE  Excl'
<1>1. UNCHANGED <<train_file, record, handler>>
      /\ \A d \in Client : d # c => request'[d] = request[d]
  BY NowTypes DEF Accept, PayNothing, ChooseMore, ShiftFull, Line
<1> QED BY <1>1, StillExcl DEF Excl

\* What a step of the write server at client c's handler leaves alone.
LEMMA WriterFrame ==
  ASSUME Inv, NEW c \in Client, Continue(c) \/ \E k \in Seat : Cancel(c, k) \/ Choose(c, k)
  PROVE  /\ \A s \in Server : s # ServerOf[c] => handler'[s] = handler[s]
         /\ \A d \in Client : d # c => record'[d] = record[d] /\ request'[d] = request[d]
BY NowTypes DEF Continue, ShiftSelected, ShiftUnanswered, PaySeat, PayReturn, FreeSeat, LockSeat,
     SayBooked, NotBooked, SayLocked, Neither, Cancel, Choose, Close, Line, Goto, Return

\* The client gets its train; it has no seat yet.
LEMMA ShiftSelectedExcl ==
  ASSUME Inv, Excl, OneWriter, NEW c \in Client, ServerOf[c] \notin Reader, ShiftSelected(c)
  PROVE  Excl'
<1>1. ServerOf[c] \in Server /\ request[c].status = "SHIFT" /\ record[c] = FreeRecord
  <2>1. HandlerOK(ServerOf[c]) /\ At(ServerOf[c], "occupied_again", c)
    BY Now DEF ShiftSelected
  <2> QED BY <2>1, Now DEF HandlerOK, At, Select
<1>2. record'[c].seat_stat = record[c].seat_stat
  BY NowTypes DEF ShiftSelected, RecType
<1>3. Chosen(c)' = {} /\ Paid(c)' = {} /\ Holds(c)' = {}
  BY <1>1, <1>2 DEF Chosen, Paid, Holds, FreeRecord
<1>4. handler[ServerOf[c]].c = c /\ handler'[ServerOf[c]] = Select /\ train_file' = train_file
  BY <1>1, NowTypes DEF ShiftSelected, Return, At
<1>5. Reads(c)' /\ WritesOwn(c)'
  BY <1>4 DEF Reads, WritesOwn, At, Select
<1>6. (\A d \in Client : Apart(c, d)') /\ \A k \in Seat : Backs(c, k)'
  BY <1>3 DEF Apart, Backs
<1> QED BY <1>4, <1>5, <1>6, WriterFrame, WriterStep DEF Continue

\* A seat goes out of the record, and nobody else had it.
LEMMA CancelExcl ==
  ASSUME Inv, Excl, OneWriter, NEW c \in Client, ServerOf[c] \notin Reader,
         NEW k \in Seat, Cancel(c, k)
  PROVE  Excl'
<1>1. /\ k \in Chosen(c) /\ handler[ServerOf[c]] = Select /\ train_file' = train_file
      /\ handler'[ServerOf[c]] = [at |-> "cancel", c |-> c, arg |-> k]
      /\ ServerOf[c] \in Server
  BY Now, NowTypes DEF Cancel, Handles, Goto
<1>2. /\ Chosen(c)' = Chosen(c) \ {k} /\ Paid(c)' = Paid(c)
      /\ record'[c].train_fd = record[c].train_fd
  BY NowTypes DEF Cancel, RecType, Chosen, Paid
<1>3. k \notin Paid(c)
  BY <1>1 DEF Chosen, Paid
<1>f. /\ \A s \in Server : s # ServerOf[c] => handler'[s] = handler[s]
      /\ \A d \in Client : d # c => record'[d] = record[d] /\ request'[d] = request[d]
  BY WriterFrame
<1>4. \A d \in Client : d # c => Holds(d)' = Holds(d)
  BY <1>f DEF Holds, Chosen, Paid
<1>5. ASSUME NEW d \in Client
      PROVE  Apart(c, d)'
  <2>1. CASE d = c
    BY <2>1 DEF Apart
  <2>2. CASE d # c
    <3>1. Apart(c, d)
      BY NowExcl
    <3> QED BY <3>1, <2>2, <1>2, <1>4, <1>f DEF Apart, Holds
  <2> QED BY <2>1, <2>2
<1>6. \A j \in Seat : Backs(c, j)'
  BY <1>1, <1>2, NowExcl DEF Backs, At, Select
<1>7. Reads(c)'
  BY <1>1 DEF Reads, At
<1>8. WritesOwn(c)'
  <2>1. train_file[record[c].train_fd][k] = 2
    BY <1>1, NowExcl DEF Backs, At, Select
  <2>2. k \notin Holds(c)'
    BY <1>2, <1>3 DEF Holds
  <2>3. \A d \in Client : record'[d].train_fd = record'[c].train_fd => k \notin Holds(d)'
    <3> SUFFICES ASSUME NEW d \in Client, record'[d].train_fd = record'[c].train_fd
                 PROVE  k \notin Holds(d)'
      OBVIOUS
    <3>1. CASE d = c
      BY <3>1, <2>2
    <3>2. CASE d # c
      <4>1. Apart(c, d)
        BY NowExcl
      <4> QED BY <3>2, <4>1, <1>1, <1>2, <1>4, <1>f DEF Apart, Holds
    <3> QED BY <3>1, <3>2
  <2> QED BY <1>1, <1>2, <2>1, <2>3 DEF WritesOwn, At
<1>9. handler'[ServerOf[c]].c = c
  BY <1>1
<1> QED BY <1>1, <1>5, <1>6, <1>7, <1>8, <1>9, <1>f, WriterStep

\* The seat is available again, and nobody has it.
LEMMA FreeSeatExcl ==
  ASSUME Inv, Excl, OneWriter, NEW c \in Client, ServerOf[c] \notin Reader, FreeSeat(c)
  PROVE  Excl'
<1> DEFINE t == record[c].train_fd
           k == handler[ServerOf[c]].arg
<1>1. /\ handler[ServerOf[c]].c = c /\ handler[ServerOf[c]].at = "cancel"
      /\ train_file' = [train_file EXCEPT ![t][k] = 0]
      /\ record' = record /\ handler'[ServerOf[c]] = Select
  BY Now, NowTypes DEF FreeSeat, At, Return
<1>2. k \in Seat /\ t \in Train
  BY <1>1, Now DEF HandlerOK, Select
<1>3. \A d \in Client : record[d].train_fd = t => k \notin Holds(d)
  BY <1>1, NowExcl DEF WritesOwn, At
<1>4. \A u, j : u \in Train /\ j \in Seat /\ ~(u = t /\ j = k) => train_file'[u][j] = train_file[u][j]
  BY <1>1, <1>2, NowShared
<1>5. \A d \in Client : \A j \in Holds(d) :
        train_file'[record[d].train_fd][j] = train_file[record[d].train_fd][j]
  <2> SUFFICES ASSUME NEW d \in Client, NEW j \in Holds(d)
               PROVE  train_file'[record[d].train_fd][j] = train_file[record[d].train_fd][j]
    OBVIOUS
  <2>1. ~(record[d].train_fd = t /\ j = k)
    BY <1>3
  <2>2. j \in Seat
    BY DEF Holds, Chosen, Paid
  <2>3. CASE record[d].train_fd \in Train
    BY <1>4, <2>1, <2>2, <2>3
  <2>4. CASE record[d].train_fd \notin Train
    BY <1>1, <1>2, <2>4, NowShared
  <2> QED BY <2>3, <2>4
<1>6. \A d \in Client : Apart(c, d)'
  BY <1>1, NowExcl DEF Apart, Holds, Chosen, Paid
<1>7. ASSUME NEW j \in Seat
      PROVE  Backs(c, j)'
  <2>1. Backs(c, j)
    BY NowExcl
  <2>2. Chosen(c)' = Chosen(c) /\ Paid(c)' = Paid(c)
    BY <1>1 DEF Chosen, Paid
  <2> QED BY <1>1, <1>5, <2>1, <2>2 DEF Backs, At, Select, Holds
<1>8. Reads(c)' /\ WritesOwn(c)'
  BY <1>1 DEF Reads, WritesOwn, At, Select
<1> QED BY <1>1, <1>5, <1>6, <1>7, <1>8, WriterFrame, WriterStep DEF Continue

\* The client takes a seat that the file says is available: nobody has it.
LEMMA ChooseExcl ==
  ASSUME Inv, Excl, OneWriter, NEW c \in Client, ServerOf[c] \notin Reader,
         NEW k \in Seat, Choose(c, k)
  PROVE  Excl'
<1>1. /\ handler[ServerOf[c]] = Select /\ train_file' = train_file
      /\ train_file[record[c].train_fd][k] = 0
      /\ handler'[ServerOf[c]] = [at |-> "lock_seat", c |-> c, arg |-> k]
      /\ ServerOf[c] \in Server
  BY Now, NowTypes DEF Choose, Handles, Goto
<1>2. k \notin Paid(c) /\ k \notin Chosen(c)
  BY <1>1, NowExcl DEF Choose, Backs
<1>3. /\ Chosen(c)' = Chosen(c) \cup {k} /\ Paid(c)' = Paid(c)
      /\ record'[c].train_fd = record[c].train_fd
  BY <1>2, NowTypes DEF Choose, RecType, Chosen, Paid
<1>f. /\ \A s \in Server : s # ServerOf[c] => handler'[s] = handler[s]
      /\ \A d \in Client : d # c => record'[d] = record[d] /\ request'[d] = request[d]
  BY WriterFrame
<1>4. \A d \in Client : d # c => Holds(d)' = Holds(d)
  BY <1>f DEF Holds, Chosen, Paid
<1>5. ASSUME NEW d \in Client, d # c, record[d].train_fd = record[c].train_fd
      PROVE  k \notin Holds(d)
  <2>1. ~At(ServerOf[d], "lock_seat", d)
    <3>1. CASE ServerOf[d] = ServerOf[c]
      BY <3>1, <1>1 DEF At, Select
    <3>2. CASE ServerOf[d] # ServerOf[c]
      BY <3>2, SlotAssumption DEF Excl, OneWriter, At, Select
    <3> QED BY <3>1, <3>2
  <2>2. Backs(d, k)
    BY NowExcl
  <2> QED BY <2>1, <2>2, <1>1, <1>5 DEF Backs, Holds
<1>6. ASSUME NEW d \in Client
      PROVE  Apart(c, d)'
  <2>1. CASE d = c
    BY <2>1 DEF Apart
  <2>2. CASE d # c
    <3>1. Apart(c, d)
      BY NowExcl
    <3> QED BY <3>1, <2>2, <1>3, <1>4, <1>5, <1>f DEF Apart, Holds
  <2> QED BY <2>1, <2>2
<1>7. ASSUME NEW j \in Seat
      PROVE  Backs(c, j)'
  <2>1. Backs(c, j)
    BY NowExcl
  <2>2. CASE j = k
    BY <2>2, <1>1, <1>2, <1>3 DEF Backs, At
  <2>3. CASE j # k
    BY <2>3, <2>1, <1>1, <1>3 DEF Backs, At, Select
  <2> QED BY <2>2, <2>3
<1>8. Reads(c)' /\ WritesOwn(c)'
  BY <1>1, <1>3 DEF Reads, WritesOwn, At
<1>9. handler'[ServerOf[c]].c = c
  BY <1>1
<1> QED BY <1>1, <1>6, <1>7, <1>8, <1>9, <1>f, WriterStep

\* The file gets the seat that the record has already.
LEMMA LockSeatExcl ==
  ASSUME Inv, Excl, OneWriter, NEW c \in Client, ServerOf[c] \notin Reader, LockSeat(c)
  PROVE  Excl'
<1> DEFINE t == record[c].train_fd
           k == handler[ServerOf[c]].arg
<1>1. /\ handler[ServerOf[c]].c = c /\ handler[ServerOf[c]].at = "lock_seat"
      /\ train_file' = [train_file EXCEPT ![t][k] = 2]
      /\ record' = record /\ handler'[ServerOf[c]] = Select
  BY Now, NowTypes DEF LockSeat, At, Return
<1>2. k \in Seat /\ t \in Train
  BY <1>1, Now DEF HandlerOK, Select
<1>3. k \in Chosen(c)
  BY <1>1, NowExcl DEF WritesOwn, At
<1>4. \A u, j : u \in Train /\ j \in Seat /\ ~(u = t /\ j = k) => train_file'[u][j] = train_file[u][j]
  BY <1>1, <1>2, NowShared
<1>5. \A d \in Client : \A j \in Holds(d) :
        d # c => train_file'[record[d].train_fd][j] = train_file[record[d].train_fd][j]
  <2> SUFFICES ASSUME NEW d \in Client, NEW j \in Holds(d), d # c
               PROVE  train_file'[record[d].train_fd][j] = train_file[record[d].train_fd][j]
    OBVIOUS
  <2>1. ~(record[d].train_fd = t /\ j = k)
    BY <1>3, NowExcl DEF Apart, Holds
  <2>2. j \in Seat
    BY DEF Holds, Chosen, Paid
  <2>3. CASE record[d].train_fd \in Train
    BY <1>4, <2>1, <2>2, <2>3
  <2>4. CASE record[d].train_fd \notin Train
    BY <1>1, <1>2, <2>4, NowShared
  <2> QED BY <2>3, <2>4
<1>6. \A d \in Client : Apart(c, d)'
  BY <1>1, NowExcl DEF Apart, Holds, Chosen, Paid
<1>7. ASSUME NEW j \in Seat
      PROVE  Backs(c, j)'
  <2>1. Backs(c, j)
    BY NowExcl
  <2>2. Chosen(c)' = Chosen(c) /\ Paid(c)' = Paid(c)
    BY <1>1 DEF Chosen, Paid
  <2>3. CASE j = k
    <3>1. train_file'[t][k] = 2 /\ k \notin Paid(c)
      BY <1>1, <1>2, <1>3, NowShared DEF Chosen, Paid
    <3> QED BY <2>3, <3>1, <1>1, <2>2 DEF Backs, At, Select
  <2>4. CASE j # k
    BY <2>4, <1>1, <1>2, <1>4, <2>1, <2>2 DEF Backs, At, Select
  <2> QED BY <2>3, <2>4
<1>8. Reads(c)' /\ WritesOwn(c)'
  BY <1>1 DEF Reads, WritesOwn, At, Select
<1> QED BY <1>1, <1>5, <1>6, <1>7, <1>8, WriterFrame, WriterStep DEF Continue

\* One of the chosen seats is paid, in the record and in the file.
LEMMA PaySeatExcl ==
  ASSUME Inv, Excl, OneWriter, NEW c \in Client, ServerOf[c] \notin Reader, PaySeat(c)
  PROVE  Excl'
<1> DEFINE t == record[c].train_fd
<1>0. PICK k \in Chosen(c) :
        /\ record' = [record EXCEPT ![c].seat_stat[k] = "PAID",
                                    ![c].num_of_chosen_seats = @ - 1]
        /\ train_file' = [train_file EXCEPT ![t][k] = 1]
  BY DEF PaySeat
<1>1. /\ handler[ServerOf[c]].c = c /\ handler[ServerOf[c]].at = "pay"
      /\ handler' = handler
  BY DEF PaySeat, At
<1>2. k \in Seat /\ t \in Train
  BY <1>1, Now DEF HandlerOK, Select, Chosen
<1>3. /\ Chosen(c)' = Chosen(c) \ {k} /\ Paid(c)' = Paid(c) \cup {k}
      /\ record'[c].train_fd = t
  BY <1>0, <1>2, NowTypes DEF RecType, Chosen, Paid
<1>f. /\ \A s \in Server : s # ServerOf[c] => handler'[s] = handler[s]
      /\ \A d \in Client : d # c => record'[d] = record[d] /\ request'[d] = request[d]
  BY WriterFrame DEF Continue
<1>4. \A u, j : u \in Train /\ j \in Seat /\ ~(u = t /\ j = k) => train_file'[u][j] = train_file[u][j]
  BY <1>0, <1>2, NowShared
<1>5. \A d \in Client : \A j \in Holds(d) :
        d # c => train_file'[record[d].train_fd][j] = train_file[record[d].train_fd][j]
  <2> SUFFICES ASSUME NEW d \in Client, NEW j \in Holds(d), d # c
               PROVE  train_file'[record[d].train_fd][j] = train_file[record[d].train_fd][j]
    OBVIOUS
  <2>1. ~(record[d].train_fd = t /\ j = k)
    BY NowExcl DEF Apart, Holds
  <2>2. j \in Seat
    BY DEF Holds, Chosen, Paid
  <2>3. CASE record[d].train_fd \in Train
    BY <1>4, <2>1, <2>2, <2>3
  <2>4. CASE record[d].train_fd \notin Train
    BY <1>0, <1>2, <2>4, NowShared
  <2> QED BY <2>3, <2>4
<1>6. ASSUME NEW d \in Client
      PROVE  Apart(c, d)'
  <2>1. CASE d = c
    BY <2>1 DEF Apart
  <2>2. CASE d # c
    <3>1. Holds(d)' = Holds(d) /\ Holds(c)' = Holds(c)
      BY <1>f, <1>3, <2>2 DEF Holds, Chosen, Paid
    <3> QED BY <3>1, <2>2, <1>3, <1>f, NowExcl DEF Apart
  <2> QED BY <2>1, <2>2
<1>7. ASSUME NEW j \in Seat
      PROVE  Backs(c, j)'
  <2>1. Backs(c, j)
    BY NowExcl
  <2>2. CASE j = k
    <3>1. train_file'[t][k] = 1
      BY <1>0, <1>2, NowShared
    <3> QED BY <2>2, <3>1, <1>3 DEF Backs
  <2>3. CASE j # k
    BY <2>3, <1>1, <1>2, <1>3, <1>4, <2>1 DEF Backs, At
  <2> QED BY <2>2, <2>3
<1>8. Reads(c)' /\ WritesOwn(c)'
  BY <1>1 DEF Reads, WritesOwn, At
<1> QED BY <1>1, <1>5, <1>6, <1>7, <1>8, <1>f, WriterStep

\* Every step keeps it.
LEMMA NextExcl == OneWriter /\ Inv /\ Excl /\ [Next]_vars => Excl'
<1> SUFFICES ASSUME OneWriter, Inv, Excl, [Next]_vars
             PROVE  Excl'
  OBVIOUS
<1>1. CASE UNCHANGED vars
  BY <1>1, StillExcl DEF vars, Excl
<1>2. ASSUME NEW c \in Client, ServerOf[c] \notin Reader, Receive(c)
      PROVE  Excl'
  <2>1. CASE \/ Expire(c) \/ Exit(c) \/ InvalidShift(c) \/ InvalidSeat(c) \/ NegativeSeat(c)
             \/ InvalidBooked(c)
    BY <1>2, <2>1, CloseExcl
       DEF Expire, Exit, InvalidShift, InvalidSeat, NegativeSeat, InvalidBooked, Handles
  <2>2. CASE IncompleteLine(c) \/ InvalidSeatExit(c) \/ \E t \in Train : ShiftCrash(c, t)
    BY <2>2, SlotAssumption, DieExcl DEF IncompleteLine, InvalidSeatExit, ShiftCrash
  <2>3. CASE Accept(c) \/ PayNothing(c) \/ ChooseMore(c) \/ \E t \in Train : ShiftFull(c, t)
    BY <1>2, <2>3, RequestExcl
  <2>4. CASE Pay(c) \/ (\E t \in Train : ShiftFree(c, t)) \/ \E k \in Seat : Taken(c, k)
    BY <1>2, <2>4, ReadingExcl
  <2>5. CASE \E k \in Seat : Cancel(c, k) \/ Choose(c, k)
    BY <1>2, <2>5, CancelExcl, ChooseExcl
  <2> QED BY <1>2, <2>1, <2>2, <2>3, <2>4, <2>5 DEF Receive, WriteLine, Shift, SeatNumber
<1>3. ASSUME NEW c \in Client, ServerOf[c] \notin Reader, Continue(c)
      PROVE  Excl'
  <2>1. CASE PayReturn(c) \/ ShiftUnanswered(c) \/ SayBooked(c) \/ NotBooked(c) \/ SayLocked(c)
    BY <1>3, <2>1, ReadingExcl
  <2>2. CASE Neither(c)
    BY <1>3, <2>2, CloseExcl DEF Neither, At
  <2> QED BY <1>3, <2>1, <2>2, ShiftSelectedExcl, PaySeatExcl, FreeSeatExcl, LockSeatExcl
      DEF Continue
<1>4. ASSUME NEW s \in Server, Kill(s) \/ Start(s) \/ Deadlock(s)
      PROVE  Excl'
  BY <1>4, DieExcl, StillExcl DEF Kill, Start, Deadlock, Excl
<1> QED BY <1>1, <1>2, <1>3, <1>4, ReaderExcl DEF Next

\* With one write server, Excl is an invariant, too.
LEMMA OneWriterInvariance == ASSUME OneWriter PROVE Spec => [](Inv /\ Excl)
<1>1. Inv /\ Excl /\ [Next]_vars => Inv' /\ Excl'
  BY NextInv, NextExcl
<1> QED BY <1>1, InitInv, InitExcl, PTL DEF Spec

\* With one write server, no two clients have the same seat of the same train.
THEOREM OneHolder == ASSUME OneWriter PROVE Spec => []SeatHeldByOne
<1>1. Inv /\ Excl => SeatHeldByOne
  BY ExclImplies
<1> QED BY <1>1, OneWriterInvariance, PTL

\* With one write server, what is paid is booked in the file, and what is
\* chosen has not been sold to anybody.
THEOREM RecordsBacked == ASSUME OneWriter PROVE Spec => []FileBacksRecords
<1>1. Inv /\ Excl => FileBacksRecords
  BY ExclImplies
<1> QED BY <1>1, OneWriterInvariance, PTL

\* With one write server, a step never takes a booked seat back: what is
\* cancelled was locked, and what is locked was available.
LEMMA BookedStep ==
  ASSUME OneWriter, Inv, Excl, [Next]_vars, NEW t \in Train, NEW k \in Seat,
         train_file[t][k] = 1
  PROVE  train_file'[t][k] = 1
<1>1. CASE train_file' = train_file
  BY <1>1
<1>2. ASSUME NEW c \in Client, NEW u, NEW j, NEW v \in {0, 1, 2},
             train_file' = [train_file EXCEPT ![u][j] = v],
             v = 1 \/ train_file[u][j] # 1
      PROVE  train_file'[t][k] = 1
  BY <1>2, NowShared
<1>3. ASSUME NEW c \in Client, FreeSeat(c)
      PROVE  train_file'[t][k] = 1
  <2>1. train_file[record[c].train_fd][handler[ServerOf[c]].arg] = 2
    BY <1>3, NowExcl DEF FreeSeat, WritesOwn
  <2> QED BY <2>1, <1>2, <1>3 DEF FreeSeat
<1>4. ASSUME NEW c \in Client, LockSeat(c)
      PROVE  train_file'[t][k] = 1
  <2> DEFINE j == handler[ServerOf[c]].arg
  <2>1. At(ServerOf[c], "lock_seat", c) /\ j \in Chosen(c) /\ j \in Seat
    BY <1>4, NowExcl DEF LockSeat, WritesOwn, Chosen
  <2>2. train_file[record[c].train_fd][j] = 0
    BY <2>1, NowExcl DEF Backs
  <2> QED BY <2>2, <1>2, <1>4 DEF LockSeat
<1>5. ASSUME NEW c \in Client, PaySeat(c)
      PROVE  train_file'[t][k] = 1
  BY <1>2, <1>5 DEF PaySeat
<1>6. ASSUME NEW c \in Client, Receive(c) \/ Continue(c)
      PROVE  \/ train_file' = train_file
             \/ FreeSeat(c) \/ LockSeat(c) \/ PaySeat(c)
  BY <1>6 DEF Receive, WriteLine, Shift, SeatNumber, Continue, Accept, Expire, Exit,
       IncompleteLine, InvalidShift, ShiftCrash, ReadTrain, ShiftFull, ShiftFree, PayNothing, Pay,
       Cancel, Choose, Taken, InvalidSeat, InvalidSeatExit, NegativeSeat, ChooseMore,
       InvalidBooked, ShiftSelected, ShiftUnanswered, PayReturn, SayBooked, NotBooked, SayLocked,
       Neither
<1>7. ASSUME NEW s \in Server, Kill(s) \/ Start(s) \/ Deadlock(s)
      PROVE  train_file' = train_file
  BY <1>7 DEF Kill, Start, Deadlock
<1>8. CASE UNCHANGED vars
  BY <1>8 DEF vars
<1> QED BY <1>1, <1>3, <1>4, <1>5, <1>6, <1>7, <1>8 DEF Next

\* BookedStaysBooked of the runs.
THEOREM BookedForGood == ASSUME OneWriter PROVE Spec => BookedStaysBooked
<1>1. Inv /\ Excl /\ [Next]_vars =>
        [\A t \in Train : \A k \in Seat : train_file[t][k] = 1 => train_file'[t][k] = 1]_vars
  BY BookedStep
<1> QED BY <1>1, OneWriterInvariance, PTL DEF Spec, BookedStaysBooked

\* A client is shown the seats of a train, and what it is shown as booked is.
Shows(c) ==
  \A k \in shown[c].booked : shown[c].train \in Train /\ train_file[shown[c].train][k] = 1

\* What a step does to what clients have been shown.
LEMMA ShownStep ==
  ASSUME Inv, [Next]_vars, NEW c \in Client
  PROVE  \/ shown'[c] = shown[c] \/ shown'[c] = NoShow
         \/ \E t \in Train :
              shown'[c] = [train |-> t, booked |-> {k \in Seat : train_file[t][k] = 1}]
<1>1. ASSUME NEW d \in Client, Close(d)
      PROVE  shown'[c] = shown[c] \/ shown'[c] = NoShow
  BY <1>1, NowShared DEF Close
<1>2. ASSUME NEW s \in Server, NEW why, Die(s, why)
      PROVE  shown'[c] = shown[c] \/ shown'[c] = NoShow
  BY <1>2 DEF Die
<1>3. ASSUME NEW d \in Client, NEW t \in Train, ReadTrain(d, t)
      PROVE  \/ shown'[c] = shown[c]
             \/ \E u \in Train :
                  shown'[c] = [train |-> u, booked |-> {k \in Seat : train_file[u][k] = 1}]
  <2>1. LookedUp(d, t) \in Train
    <3>1. conn_fd[ServerOf[d]] \in Client /\ LookedUp(d, t) # None
      BY <1>3, Now DEF ReadTrain, Handles
    <3>2. request[conn_fd[ServerOf[d]]].buf \in Train \cup {None}
      BY <3>1, NowTypes DEF ReqType
    <3> QED BY <3>1, <3>2 DEF LookedUp
  <2> DEFINE show == [train |-> LookedUp(d, t),
                      booked |-> {k \in Seat : train_file[LookedUp(d, t)][k] = 1}]
  <2>2. shown' = [shown EXCEPT ![d] = show]
    BY <1>3 DEF ReadTrain
  <2>3. shown'[c] = shown[c] \/ shown'[c] = show
    BY <2>2, NowShared
  <2> QED BY <2>1, <2>3
<1>4. ASSUME NEW d \in Client, Receive(d)
      PROVE  \/ shown' = shown \/ Close(d)
             \/ \E why : Die(ServerOf[d], why)
             \/ \E t \in Train : ReadTrain(d, t)
  BY <1>4 DEF Receive, WriteLine, Shift, SeatNumber, Accept, Expire, Exit, IncompleteLine,
       InvalidShift, ShiftCrash, ShiftFull, ShiftFree, PayNothing, Pay, Cancel, Choose, Taken,
       InvalidSeat, InvalidSeatExit, NegativeSeat, ChooseMore, InvalidBooked
<1>5. ASSUME NEW d \in Client, Continue(d)
      PROVE  shown' = shown \/ Close(d)
  BY <1>5 DEF Continue, ShiftSelected, ShiftUnanswered, PaySeat, PayReturn, FreeSeat, LockSeat,
       SayBooked, NotBooked, SayLocked, Neither
<1>6. ASSUME NEW s \in Server, Kill(s) \/ Start(s) \/ Deadlock(s)
      PROVE  shown' = shown \/ \E why : Die(s, why)
  BY <1>6 DEF Kill, Start, Deadlock
<1>7. CASE UNCHANGED vars
  BY <1>7 DEF vars
<1> QED BY <1>1, <1>2, <1>3, <1>4, <1>5, <1>6, <1>7, SlotAssumption DEF Next

\* Every step keeps what a client was shown as booked.
LEMMA ShowsStep ==
  ASSUME OneWriter, Inv, Excl, [Next]_vars, NEW c \in Client, Shows(c)
  PROVE  Shows(c)'
<1>1. shown[c].booked \subseteq Seat
  BY NowShared
<1>2. CASE shown'[c] = shown[c]
  <2>1. ASSUME NEW k \in shown[c].booked
        PROVE  shown[c].train \in Train /\ train_file'[shown[c].train][k] = 1
    BY <1>1, <2>1, BookedStep DEF Shows
  <2> QED BY <1>2, <2>1 DEF Shows
<1>3. CASE shown'[c] = NoShow
  BY <1>3 DEF Shows, NoShow
<1>4. ASSUME NEW t \in Train,
             shown'[c] = [train |-> t, booked |-> {k \in Seat : train_file[t][k] = 1}]
      PROVE  Shows(c)'
  <2>1. ASSUME NEW k \in Seat, train_file[t][k] = 1
        PROVE  train_file'[t][k] = 1
    BY <2>1, BookedStep
  <2> QED BY <1>4, <2>1 DEF Shows
<1> QED BY <1>2, <1>3, <1>4, ShownStep

\* With one write server, what any read server has shown as booked still is.
THEOREM ShownForGood == ASSUME OneWriter PROVE Spec => []ShownStaysBooked
<1> DEFINE AllShow == \A c \in Client : Shows(c)
<1>1. Init => AllShow
  BY DEF Init, Shows, NoShow
<1>2. Inv /\ Excl /\ AllShow /\ [Next]_vars => AllShow'
  BY ShowsStep
<1>3. AllShow => ShownStaysBooked
  BY DEF Shows, ShownStaysBooked
<1> HIDE DEF AllShow
<1> QED BY <1>1, <1>2, <1>3, OneWriterInvariance, PTL DEF Spec

-----------------------------------------------------------------------------
(* A server that handles a line is running.                                *)

Runs == \A s \in Server : handler[s] = Select \/ process[s] = "running"

\* The next step of a handler is one of a server that handles a line.
LEMMA Continues ==
  ASSUME NEW c \in Client, Continue(c)
  PROVE  /\ process' = process /\ handler[ServerOf[c]] # Select
         /\ handler' = handler \/ \E h : handler' = [handler EXCEPT ![ServerOf[c]] = h]
<1>1. CASE ShiftSelected(c) \/ ShiftUnanswered(c)
  BY <1>1 DEF ShiftSelected, ShiftUnanswered, At, Select, Return
<1>2. CASE PaySeat(c) \/ PayReturn(c)
  BY <1>2 DEF PaySeat, PayReturn, At, Select, Return
<1>3. CASE FreeSeat(c) \/ LockSeat(c)
  BY <1>3 DEF FreeSeat, LockSeat, At, Select, Return
<1>4. CASE SayBooked(c) \/ SayLocked(c) \/ Neither(c)
  BY <1>4 DEF SayBooked, SayLocked, Neither, At, Select, Return
<1>5. CASE NotBooked(c)
  <2>1. process' = process
    BY <1>5 DEF NotBooked
  <2>2. handler[ServerOf[c]].at = "booked?"
    BY <1>5 DEF NotBooked, At
  <2>3. handler' = [handler EXCEPT ![ServerOf[c]] =
                      [at |-> "locked?", c |-> c, arg |-> handler[ServerOf[c]].arg]]
    BY <1>5 DEF NotBooked, Goto
  <2>4. handler[ServerOf[c]] # Select
    BY <2>2 DEF Select
  <2> QED BY <2>1, <2>3, <2>4
<1> QED BY <1>1, <1>2, <1>3, <1>4, <1>5 DEF Continue

\* No step makes a server handle a line that does not run.
LEMMA NextRuns == Inv /\ Runs /\ [Next]_vars => Runs'
<1> SUFFICES ASSUME Inv, Runs, [Next]_vars
             PROVE  Runs'
  OBVIOUS
<1>1. CASE UNCHANGED vars
  BY <1>1 DEF vars, Runs
<1>2. ASSUME NEW s \in Server, \E why : Die(s, why)
      PROVE  Runs'
  <2>1. /\ handler'[s] = Select
        /\ \A r \in Server : r # s => handler'[r] = handler[r] /\ process'[r] = process[r]
    BY <1>2, NowTypes, NowShared DEF Die
  <2> QED BY <2>1 DEF Runs
<1>3. ASSUME NEW c \in Client, process' = process,
             process[ServerOf[c]] = "running" \/ handler[ServerOf[c]] # Select,
             \/ handler' = handler
             \/ \E h : handler' = [handler EXCEPT ![ServerOf[c]] = h]
      PROVE  Runs'
  <2>1. /\ process[ServerOf[c]] = "running"
        /\ \A r \in Server : r # ServerOf[c] => handler'[r] = handler[r]
    BY <1>3, NowTypes, SlotAssumption DEF Runs
  <2> QED BY <1>3, <2>1 DEF Runs
<1>4. ASSUME NEW c \in Client, Receive(c)
      PROVE  Runs'
  <2>1. CASE IncompleteLine(c) \/ InvalidSeatExit(c) \/ \E t \in Train : ShiftCrash(c, t)
    <3>1. ServerOf[c] \in Server /\ \E why : Die(ServerOf[c], why)
      BY <2>1, SlotAssumption DEF IncompleteLine, InvalidSeatExit, ShiftCrash
    <3> QED BY <1>2, <3>1
  <2>2. CASE \/ Accept(c) \/ Expire(c) \/ Exit(c) \/ InvalidShift(c)
             \/ InvalidSeat(c) \/ NegativeSeat(c) \/ ChooseMore(c) \/ InvalidBooked(c)
             \/ PayNothing(c) \/ \E t \in Train : ReadTrain(c, t) \/ ShiftFull(c, t)
    <3>1. process' = process /\ process[ServerOf[c]] = "running" /\ handler' = handler
      BY <2>2 DEF Accept, Expire, Exit, InvalidShift, InvalidSeat, NegativeSeat, ChooseMore,
                  InvalidBooked, PayNothing, ReadTrain, ShiftFull, Handles
    <3> QED BY <1>3, <3>1
  <2>3. CASE Pay(c) \/ (\E t \in Train : ShiftFree(c, t)) \/ \E k \in Seat : SeatNumber(c, k)
    <3>1. process' = process /\ process[ServerOf[c]] = "running"
      BY <2>3 DEF Pay, ShiftFree, SeatNumber, Cancel, Choose, Taken, Handles
    <3>2. \E h : handler' = [handler EXCEPT ![ServerOf[c]] = h]
      BY <2>3 DEF Pay, ShiftFree, SeatNumber, Cancel, Choose, Taken, Goto
    <3> QED BY <1>3, <3>1, <3>2
  <2> QED BY <1>4, <2>1, <2>2, <2>3 DEF Receive, WriteLine, Shift
<1>5. ASSUME NEW c \in Client, Continue(c)
      PROVE  Runs'
  <2> QED BY <1>3, <1>5, Continues
<1>6. ASSUME NEW s \in Server, Kill(s) \/ Start(s) \/ Deadlock(s)
      PROVE  Runs'
  <2>1. CASE Kill(s) \/ Deadlock(s)
    <3>1. \E why : Die(s, why)
      BY <2>1 DEF Kill, Deadlock
    <3> QED BY <1>2, <3>1
  <2>2. CASE Start(s)
    BY <2>2, NowShared DEF Start, Runs
  <2> QED BY <1>6, <2>1, <2>2
<1> QED BY <1>1, <1>4, <1>5, <1>6 DEF Next

-----------------------------------------------------------------------------
(* With one write server, TrainServer implements SeatBooking.              *)

\* c has reserved seat k of train t, or is giving it back.
Has(c, t, k) == record[c].train_fd = t /\ (k \in Chosen(c) \/ Cancels(c, k))

HolderOf == [t \in Train |-> [k \in Seat |-> Holder(t, k)]]

Sold == {x \in Train \X Seat : train_file[x[1]][x[2]] = 1}

Open == {s \in Server : process[s] = "running"}

\* At most one client has a seat.
LEMMA HasOne ==
  ASSUME Excl, OneWriter, NEW c \in Client, NEW d \in Client, NEW t, NEW k,
         Has(c, t, k), Has(d, t, k)
  PROVE  c = d
<1>1. CASE k \in Chosen(c) /\ k \in Chosen(d)
  BY <1>1, NowExcl DEF Has, Apart, Holds
<1>2. CASE Cancels(c, k) /\ k \in Chosen(d)
  BY <1>2, NowExcl DEF Has, WritesOwn, Cancels, Holds
<1>3. CASE Cancels(d, k) /\ k \in Chosen(c)
  BY <1>3, NowExcl DEF Has, WritesOwn, Cancels, Holds
<1>4. CASE Cancels(c, k) /\ Cancels(d, k)
  <2>1. ServerOf[c] \notin Reader /\ ServerOf[d] \notin Reader
    BY <1>4 DEF Excl, Cancels, At, Select
  <2>2. ServerOf[c] = ServerOf[d]
    BY <2>1, SlotAssumption DEF OneWriter
  <2> QED BY <1>4, <2>2 DEF Cancels, At
<1> QED BY <1>1, <1>2, <1>3, <1>4 DEF Has

\* Who Holder is.
HolderIs(t, k) ==
  /\ train_file[t][k] # 2 => Holder(t, k) = None
  /\ \A c \in Client : train_file[t][k] = 2 /\ Has(c, t, k) => Holder(t, k) = c
  /\ train_file[t][k] = 2 /\ (\A c \in Client : ~Has(c, t, k)) => Holder(t, k) = Left

HoldersTrue == OneWriter /\ Excl => \A t, k : HolderIs(t, k)

\* With one write server, the holder of a seat is whose record has it.
LEMMA HoldersNow == HoldersTrue
<1> SUFFICES ASSUME Excl, OneWriter, NEW t, NEW k
             PROVE  HolderIs(t, k)
  BY DEF HoldersTrue
<1> DEFINE holders == {c \in Client : Has(c, t, k)}
<1>1. Holder(t, k) = IF train_file[t][k] # 2 THEN None
                     ELSE IF holders = {} THEN Left ELSE CHOOSE c \in holders : TRUE
  BY DEF Holder, Has
<1>2. ASSUME NEW c \in Client, Has(c, t, k)
      PROVE  holders = {c}
  BY <1>2, HasOne
<1>3. \A c : (CHOOSE d \in {c} : TRUE) = c
  OBVIOUS
<1>4. (\A c \in Client : ~Has(c, t, k)) => holders = {}
  OBVIOUS
<1> QED BY <1>1, <1>2, <1>3, <1>4 DEF HolderIs

\* The same, after a step.
LEMMA HoldersThen == HoldersTrue'
BY HoldersNow, PTL

\* If nobody gets or loses a locked seat, nothing happens.
LEMMA SameHolders ==
  ASSUME Excl, Excl', OneWriter, train_file' = train_file,
         \A c \in Client, t \in Train, k \in Seat :
           train_file[t][k] = 2 => (Has(c, t, k)' <=> Has(c, t, k))
  PROVE  HolderOf' = HolderOf /\ Sold' = Sold
<1>1. ASSUME NEW t \in Train, NEW k \in Seat
      PROVE  Holder(t, k)' = Holder(t, k)
  <2>1. CASE train_file[t][k] # 2
    BY <2>1 DEF Holder
  <2>2. ASSUME NEW c \in Client, train_file[t][k] = 2, Has(c, t, k)
        PROVE  Holder(t, k)' = Holder(t, k)
    <3>1. Holder(t, k) = c
      BY <2>2, HoldersNow DEF HoldersTrue, HolderIs
    <3>2. Has(c, t, k)' /\ train_file'[t][k] = 2
      BY <2>2
    <3>3. Holder(t, k)' = c
      BY <3>2, HoldersThen DEF HoldersTrue, HolderIs
    <3> QED BY <3>1, <3>3
  <2>3. CASE train_file[t][k] = 2 /\ \A c \in Client : ~Has(c, t, k)
    <3>1. Holder(t, k) = Left
      BY <2>3, HoldersNow DEF HoldersTrue, HolderIs
    <3>2. (\A c \in Client : ~Has(c, t, k)') /\ train_file'[t][k] = 2
      BY <2>3
    <3>3. Holder(t, k)' = Left
      BY <3>2, HoldersThen DEF HoldersTrue, HolderIs
    <3> QED BY <3>1, <3>3
  <2> QED BY <2>1, <2>2, <2>3
<1>2. Sold' = Sold
  BY DEF Sold
<1> QED BY <1>1, <1>2 DEF HolderOf

\* The holder of one seat, from what the step does to it.
LEMMA HolderStep ==
  ASSUME Excl, Excl', OneWriter, NEW t \in Train, NEW k \in Seat
  PROVE  /\ \A c \in Client : train_file[t][k] = 2 /\ Has(c, t, k) => HolderOf[t][k] = c
         /\ \A c \in Client : train_file'[t][k] = 2 /\ Has(c, t, k)' => HolderOf'[t][k] = c
         /\ train_file[t][k] # 2 => HolderOf[t][k] = None
         /\ train_file'[t][k] # 2 => HolderOf'[t][k] = None
         /\ train_file[t][k] = 2 /\ (\A c \in Client : ~Has(c, t, k)) => HolderOf[t][k] = Left
         /\ train_file'[t][k] = 2 /\ (\A c \in Client : ~Has(c, t, k)') => HolderOf'[t][k] = Left
BY HoldersNow, HoldersThen DEF HoldersTrue, HolderIs, HolderOf

\* The clients of gone lose what they have.
LEMMA LeaveStep ==
  ASSUME Excl, Excl', OneWriter, train_file' = train_file, NEW gone \in SUBSET Client,
         \A c \in Client, t \in Train, k \in Seat :
           train_file[t][k] = 2 => (Has(c, t, k)' <=> Has(c, t, k) /\ c \notin gone)
  PROVE  /\ HolderOf' = [t \in Train |-> [k \in Seat |->
                          IF HolderOf[t][k] \in gone THEN Left ELSE HolderOf[t][k]]]
         /\ Sold' = Sold
<1>1. ASSUME NEW t \in Train, NEW k \in Seat
      PROVE  HolderOf'[t][k] = IF HolderOf[t][k] \in gone THEN Left ELSE HolderOf[t][k]
  <2>1. CASE train_file[t][k] # 2
    BY <2>1, HolderStep, NoneAssumption
  <2>2. ASSUME NEW c \in Client, train_file[t][k] = 2, Has(c, t, k)
        PROVE  HolderOf'[t][k] = IF HolderOf[t][k] \in gone THEN Left ELSE HolderOf[t][k]
    <3>1. HolderOf[t][k] = c
      BY <2>2, HolderStep
    <3>2. CASE c \in gone
      <4>1. \A d \in Client : Has(d, t, k) => d = c
        BY <2>2, HasOne
      <4>2. \A d \in Client : ~Has(d, t, k)'
        BY <2>2, <3>2, <4>1
      <4>3. HolderOf'[t][k] = Left
        BY <2>2, <4>2, HolderStep
      <4> QED BY <3>1, <3>2, <4>3
    <3>3. CASE c \notin gone
      <4>1. Has(c, t, k)' /\ train_file'[t][k] = 2
        BY <2>2, <3>3
      <4>2. HolderOf'[t][k] = c
        BY <4>1, HolderStep
      <4> QED BY <3>1, <3>3, <4>2
    <3> QED BY <3>2, <3>3
  <2>3. CASE train_file[t][k] = 2 /\ \A c \in Client : ~Has(c, t, k)
    <3>1. HolderOf[t][k] = Left
      BY <2>3, HolderStep
    <3>2. HolderOf'[t][k] = Left
      BY <2>3, HolderStep
    <3> QED BY <3>1, <3>2, NoneAssumption
  <2> QED BY <2>1, <2>2, <2>3
<1>2. Sold' = Sold
  BY DEF Sold
<1> QED BY <1>1, <1>2 DEF HolderOf

\* One seat of a file changes hands.
LEMMA OneSeatStep ==
  ASSUME Excl, Excl', OneWriter, NEW u \in Train, NEW j \in Seat,
         \A t \in Train, k \in Seat : ~(t = u /\ k = j) => train_file'[t][k] = train_file[t][k],
         \A c \in Client, t \in Train, k \in Seat :
           ~(t = u /\ k = j) => (Has(c, t, k)' <=> Has(c, t, k))
  PROVE  HolderOf' = [HolderOf EXCEPT ![u][j] = HolderOf'[u][j]]
<1>1. ASSUME NEW t \in Train, NEW k \in Seat, ~(t = u /\ k = j)
      PROVE  HolderOf'[t][k] = HolderOf[t][k]
  <2>1. train_file'[t][k] = train_file[t][k] /\ \A c \in Client : Has(c, t, k)' <=> Has(c, t, k)
    BY <1>1
  <2>2. CASE train_file[t][k] # 2
    BY <2>1, <2>2, HolderStep
  <2>3. ASSUME NEW c \in Client, train_file[t][k] = 2, Has(c, t, k)
        PROVE  HolderOf'[t][k] = HolderOf[t][k]
    <3>1. HolderOf[t][k] = c
      BY <2>3, HolderStep
    <3>2. Has(c, t, k)' /\ train_file'[t][k] = 2
      BY <2>1, <2>3
    <3>3. HolderOf'[t][k] = c
      BY <3>2, HolderStep
    <3> QED BY <3>1, <3>3
  <2>4. CASE train_file[t][k] = 2 /\ \A c \in Client : ~Has(c, t, k)
    <3>1. HolderOf[t][k] = Left
      BY <2>4, HolderStep
    <3>2. HolderOf'[t][k] = Left
      BY <2>1, <2>4, HolderStep
    <3> QED BY <3>1, <3>2
  <2> QED BY <2>2, <2>3, <2>4
<1> DEFINE H == HolderOf'
<1>2. /\ H = [t \in Train |-> [k \in Seat |-> H[t][k]]]
      /\ HolderOf = [t \in Train |-> [k \in Seat |-> HolderOf[t][k]]]
  BY DEF HolderOf
<1> HIDE DEF H
<1>3. \A t \in Train, k \in Seat : ~(t = u /\ k = j) => H[t][k] = HolderOf[t][k]
  BY <1>1 DEF H
<1>r. \A t \in Train : /\ H[t] = [k \in Seat |-> H[t][k]]
                        /\ HolderOf[t] = [k \in Seat |-> HolderOf[t][k]]
  BY <1>2
<1>4. \A t \in Train : t # u => H[t] = HolderOf[t]
  <2> SUFFICES ASSUME NEW t \in Train, t # u
               PROVE  H[t] = HolderOf[t]
    OBVIOUS
  <2>1. \A k \in Seat : H[t][k] = HolderOf[t][k]
    BY <1>3
  <2>2. [k \in Seat |-> H[t][k]] = [k \in Seat |-> HolderOf[t][k]]
    BY <2>1
  <2> QED BY <2>2, <1>r
<1>5. H[u] = [HolderOf[u] EXCEPT ![j] = H[u][j]]
  <2>1. \A k \in Seat : k # j => H[u][k] = HolderOf[u][k]
    BY <1>3
  <2> DEFINE old == HolderOf[u]  new == H[u]
  <2>2. old = [k \in Seat |-> old[k]] /\ new = [k \in Seat |-> new[k]]
    BY <1>r
  <2>3. \A k \in Seat : k # j => new[k] = old[k]
    BY <2>1
  <2> HIDE DEF old, new
  <2>4. new = [old EXCEPT ![j] = new[j]]
    BY <2>2, <2>3
  <2> QED BY <2>4 DEF old, new
<1> DEFINE mid == [HolderOf[u] EXCEPT ![j] = H[u][j]]
<1>6. H = [HolderOf EXCEPT ![u] = mid]
  <2>1. HolderOf = [t \in Train |-> HolderOf[t]] /\ H = [t \in Train |-> H[t]]
    BY <1>2
  <2> HIDE DEF mid
  <2>2. H[u] = mid
    BY <1>5 DEF mid
  <2> QED BY <2>1, <2>2, <1>4
<1> QED BY <1>6 DEF H

\* Initially no seat is reserved and all servers run.
LEMMA BookingInit == Init => Booking!Init
<1> SUFFICES ASSUME Init PROVE Booking!Init
  OBVIOUS
<1>1. \A t \in Train, k \in Seat : Holder(t, k) = None
  BY DEF Init, Holder
<1>2. {s \in Server : process[s] = "running"} = Server
  BY DEF Init
<1> QED BY <1>1, <1>2 DEF Booking!Init

\* A client that leaves with no seat chosen leaves no seat behind.
LEMMA CloseLeaves ==
  ASSUME Inv, Excl, Excl', OneWriter, NEW c \in Client, Close(c), train_file' = train_file,
         Tidy, request[c].status # "INVALID", process[ServerOf[c]] = "running", process' = process,
         \/ handler[ServerOf[c]] = Select /\ handler' = handler
         \/ handler[ServerOf[c]].c = c /\ handler[ServerOf[c]].at # "cancel" /\ Return(c)
  PROVE  HolderOf' = HolderOf /\ Sold' = Sold
<1>1. /\ record'[c] = FreeRecord /\ \A d \in Client : d # c => record'[d] = record[d]
      /\ handler'[ServerOf[c]] = Select /\ handler[ServerOf[c]].at # "cancel"
      /\ \A s \in Server : s # ServerOf[c] => handler'[s] = handler[s]
  BY NowTypes, SlotAssumption DEF Close, Return, Select
<1>2. Chosen(c) = {} /\ Chosen(c)' = {}
  <2>1. request'[c].status = "INVALID"
    BY NowTypes DEF Close, FreeRequest
  <2>2. Chosen(c)' = {}
    BY <1>1 DEF Chosen, FreeRecord
  <2> QED BY <2>1, <2>2 DEF Tidy, Leaves
<1>3. ASSUME NEW d \in Client, NEW t \in Train, NEW k \in Seat
      PROVE  Has(d, t, k)' <=> Has(d, t, k)
  <2>1. Cancels(d, k)' <=> Cancels(d, k)
    BY <1>1, SlotAssumption DEF Cancels, At, Select
  <2>2. ~Cancels(c, k)
    BY <1>1 DEF Cancels, At
  <2>3. CASE d = c
    BY <1>2, <2>1, <2>2, <2>3 DEF Has
  <2>4. CASE d # c
    BY <1>1, <2>1, <2>4 DEF Has, Chosen
  <2> QED BY <2>3, <2>4
<1> QED BY <1>3, SameHolders

\* When a server dies, its clients' reservations are left.
LEMMA DieLeaves ==
  ASSUME Inv, Excl, Excl', OneWriter, NEW s \in Server,
         NEW why \in {"killed", "crashed", "exited", "overrun"}, Die(s, why),
         process[s] = "running", train_file' = train_file
  PROVE  Booking!Crash(s)
<1> DEFINE gone == {c \in Client : ServerOf[c] = s}
<1>1. /\ \A c \in Client : record'[c] = IF ServerOf[c] = s THEN FreeRecord ELSE record[c]
      /\ handler'[s] = Select /\ \A r \in Server : r # s => handler'[r] = handler[r]
  BY NowTypes DEF Die
<1>2. ASSUME NEW d \in Client, NEW t \in Train, NEW k \in Seat
      PROVE  Has(d, t, k)' <=> Has(d, t, k) /\ d \notin gone
  <2>1. CASE ServerOf[d] = s
    <3>1. Chosen(d)' = {} /\ ~Cancels(d, k)'
      BY <1>1, <2>1 DEF Chosen, FreeRecord, Cancels, At, Select
    <3> QED BY <2>1, <3>1 DEF Has
  <2>2. CASE ServerOf[d] # s
    BY <1>1, <2>2, SlotAssumption DEF Has, Chosen, Cancels, At
  <2> QED BY <2>1, <2>2
<1> HIDE DEF gone
<1>3. /\ HolderOf' = [t \in Train |-> [k \in Seat |->
                       IF HolderOf[t][k] \in gone THEN Left ELSE HolderOf[t][k]]]
      /\ Sold' = Sold
  <2>1. gone \in SUBSET Client
    BY DEF gone
  <2> QED BY <1>2, <2>1, LeaveStep
<1>4. s \in Open /\ Open' = Open \ {s}
  BY NowShared DEF Die, Open
<1> QED BY <1>3, <1>4 DEF Booking!Crash, Booking!Inherit, HolderOf, Sold, Open, gone

\* The seat that was cancelled is released.
LEMMA FreeSeatReleases ==
  ASSUME Inv, Excl, Excl', OneWriter, NEW c \in Client, FreeSeat(c), process' = process
  PROVE  \E t \in Train, k \in Seat : Booking!Release(c, t, k)
<1> DEFINE t == record[c].train_fd
           k == handler[ServerOf[c]].arg
<1>1. /\ handler[ServerOf[c]].c = c /\ handler[ServerOf[c]].at = "cancel"
      /\ train_file' = [train_file EXCEPT ![t][k] = 0]
      /\ record' = record /\ handler' = [handler EXCEPT ![ServerOf[c]] = Select]
  BY DEF FreeSeat, At, Return
<1>2. k \in Seat /\ t \in Train /\ ServerOf[c] \in Server
  BY <1>1, Now DEF HandlerOK, Select
<1>3. /\ \A u \in Train, j \in Seat : ~(u = t /\ j = k) => train_file'[u][j] = train_file[u][j]
      /\ train_file'[t][k] = 0 /\ train_file[t][k] = 2
  BY <1>1, <1>2, NowShared, NowExcl DEF WritesOwn, At
<1>4. ASSUME NEW d \in Client, NEW u \in Train, NEW j \in Seat, ~(u = t /\ j = k)
      PROVE  Has(d, u, j)' <=> Has(d, u, j)
  <2>1. Chosen(d)' = Chosen(d) /\ record'[d] = record[d]
    BY <1>1 DEF Chosen
  <2>2. record[d].train_fd = u => (Cancels(d, j)' <=> Cancels(d, j))
    BY <1>1, <1>2, <1>4, NowTypes, SlotAssumption DEF Cancels, At, Select
  <2> QED BY <2>1, <2>2 DEF Has
<1>5. HolderOf[t][k] = c /\ HolderOf'[t][k] = None
  BY <1>1, <1>2, <1>3, HolderStep DEF Has, Cancels, At
<1>6. Sold' = Sold
  <2>1. \A x \in Train \X Seat : train_file'[x[1]][x[2]] = 1 <=> train_file[x[1]][x[2]] = 1
    BY <1>3
  <2> QED BY <2>1 DEF Sold
<1> HIDE DEF t, k
<1>7. HolderOf' = [HolderOf EXCEPT ![t][k] = None]
  BY <1>2, <1>3, <1>4, <1>5, OneSeatStep
<1>8. Booking!Release(c, t, k)
  BY <1>5, <1>6, <1>7 DEF Booking!Release, HolderOf, Sold, Open
<1> QED BY <1>2, <1>8

\* The seat that is locked is reserved.
LEMMA LockSeatReserves ==
  ASSUME Inv, Excl, Excl', OneWriter, NEW c \in Client, LockSeat(c), process' = process, Runs
  PROVE  \E t \in Train, k \in Seat : Booking!Reserve(c, t, k)
<1> DEFINE t == record[c].train_fd
           k == handler[ServerOf[c]].arg
<1>1. /\ handler[ServerOf[c]].c = c /\ handler[ServerOf[c]].at = "lock_seat"
      /\ train_file' = [train_file EXCEPT ![t][k] = 2]
      /\ record' = record /\ handler' = [handler EXCEPT ![ServerOf[c]] = Select]
  BY DEF LockSeat, At, Return
<1>2. k \in Seat /\ t \in Train /\ ServerOf[c] \in Server /\ k \in Chosen(c)
  BY <1>1, Now, NowExcl DEF HandlerOK, Select, WritesOwn, At
<1>3. /\ \A u \in Train, j \in Seat : ~(u = t /\ j = k) => train_file'[u][j] = train_file[u][j]
      /\ train_file'[t][k] = 2 /\ train_file[t][k] = 0
  BY <1>1, <1>2, NowShared, NowExcl DEF Backs, At
<1>4. ASSUME NEW d \in Client, NEW u \in Train, NEW j \in Seat
      PROVE  Has(d, u, j)' <=> Has(d, u, j)
  <2>1. Chosen(d)' = Chosen(d) /\ record'[d] = record[d]
    BY <1>1 DEF Chosen
  <2>2. Cancels(d, j)' <=> Cancels(d, j)
    BY <1>1, <1>2, NowTypes, SlotAssumption DEF Cancels, At, Select
  <2> QED BY <2>1, <2>2 DEF Has
<1>5. HolderOf[t][k] = None /\ HolderOf'[t][k] = c
  <2>1. PICK u \in Train, j \in Seat : u = t /\ j = k
    BY <1>2
  <2>2. Has(c, u, j)'
    BY <1>1, <1>2, <2>1 DEF Has, Chosen
  <2>3. HolderOf[u][j] = None /\ HolderOf'[u][j] = c
    BY <1>3, <2>1, <2>2, HolderStep
  <2> QED BY <2>1, <2>3
<1>6. Sold' = Sold /\ <<t, k>> \notin Sold
  <2>1. \A x \in Train \X Seat : train_file'[x[1]][x[2]] = 1 <=> train_file[x[1]][x[2]] = 1
    BY <1>3
  <2> QED BY <1>3, <2>1 DEF Sold
<1> HIDE DEF t, k
<1>7. HolderOf' = [HolderOf EXCEPT ![t][k] = c]
  BY <1>2, <1>3, <1>4, <1>5, OneSeatStep
<1>9. ServerOf[c] \in Open /\ Open' = Open
  BY <1>1, <1>2 DEF Runs, Open, Select
<1>8. Booking!Reserve(c, t, k)
  BY <1>5, <1>6, <1>7, <1>9 DEF Booking!Reserve, HolderOf, Sold, Open
<1> QED BY <1>2, <1>8

\* The seat that is paid is bought.
LEMMA PaySeatBuys ==
  ASSUME Inv, Excl, Excl', OneWriter, NEW c \in Client, PaySeat(c), process' = process
  PROVE  \E t \in Train, k \in Seat : Booking!Buy(c, t, k)
<1> DEFINE t == record[c].train_fd
<1>0. PICK k \in Chosen(c) :
        /\ record' = [record EXCEPT ![c].seat_stat[k] = "PAID",
                                    ![c].num_of_chosen_seats = @ - 1]
        /\ train_file' = [train_file EXCEPT ![t][k] = 1]
  BY DEF PaySeat
<1>1. /\ handler[ServerOf[c]].c = c /\ handler[ServerOf[c]].at = "pay"
      /\ handler' = handler
  BY DEF PaySeat, At
<1>2. k \in Seat /\ t \in Train
  BY <1>1, Now DEF HandlerOK, Select, Chosen
<1>3. /\ \A u \in Train, j \in Seat : ~(u = t /\ j = k) => train_file'[u][j] = train_file[u][j]
      /\ train_file'[t][k] = 1 /\ train_file[t][k] = 2
  BY <1>0, <1>1, <1>2, NowShared, NowExcl DEF Backs, At
<1>c. /\ Chosen(c)' = Chosen(c) \ {k} /\ record'[c].train_fd = t
      /\ \A d \in Client : d # c => record'[d] = record[d]
  BY <1>0, <1>2, NowTypes DEF RecType, Chosen
<1>4. ASSUME NEW d \in Client, NEW u \in Train, NEW j \in Seat, ~(u = t /\ j = k)
      PROVE  Has(d, u, j)' <=> Has(d, u, j)
  <2>1. Cancels(d, j)' <=> Cancels(d, j)
    BY <1>1 DEF Cancels, At
  <2>2. CASE d = c
    BY <1>4, <1>c, <2>1, <2>2 DEF Has
  <2>3. CASE d # c
    BY <1>c, <2>1, <2>3 DEF Has, Chosen
  <2> QED BY <2>2, <2>3
<1>5. HolderOf[t][k] = c /\ HolderOf'[t][k] = None
  BY <1>2, <1>3, HolderStep DEF Has
<1>6. Sold' = Sold \cup {<<t, k>>}
  <2>1. \A x \in Train \X Seat :
          train_file'[x[1]][x[2]] = 1 <=> train_file[x[1]][x[2]] = 1 \/ x = <<t, k>>
    BY <1>3
  <2> QED BY <1>2, <2>1 DEF Sold
<1> HIDE DEF t
<1>7. HolderOf' = [HolderOf EXCEPT ![t][k] = None]
  BY <1>2, <1>3, <1>4, <1>5, OneSeatStep
<1>8. Booking!Buy(c, t, k)
  BY <1>5, <1>6, <1>7 DEF Booking!Buy, HolderOf, Sold, Open
<1> QED BY <1>2, <1>8

\* Every other step keeps the holders.
LEMMA SilentStep ==
  ASSUME Inv, Excl, Excl', OneWriter, NEW c \in Client,
         \/ Accept(c) \/ (\E t \in Train : ReadTrain(c, t) \/ Shift(c, t))
         \/ PayNothing(c) \/ Pay(c) \/ (\E k \in Seat : SeatNumber(c, k)) \/ ChooseMore(c)
         \/ ShiftSelected(c) \/ ShiftUnanswered(c) \/ PayReturn(c)
         \/ SayBooked(c) \/ NotBooked(c) \/ SayLocked(c)
  PROVE  HolderOf' = HolderOf /\ Sold' = Sold
<1>0. ServerOf[c] \in Server /\ handler \in [Server -> HandlerType]
  BY Now, NowTypes
<1>1. ASSUME train_file' = train_file, record' = record,
             handler[ServerOf[c]].at # "cancel", NEW h, h.at # "cancel",
             handler' = [handler EXCEPT ![ServerOf[c]] = h]
      PROVE  HolderOf' = HolderOf /\ Sold' = Sold
  <2>1. \A d \in Client, k \in Seat : Cancels(d, k)' <=> Cancels(d, k)
    BY <1>0, <1>1, SlotAssumption DEF Cancels, At
  <2>2. \A d \in Client, t \in Train, k \in Seat : Has(d, t, k)' <=> Has(d, t, k)
    BY <1>1, <2>1 DEF Has, Chosen
  <2> QED BY <1>1, <2>2, SameHolders
<1>2. CASE \/ Accept(c) \/ (\E t \in Train : ReadTrain(c, t) \/ ShiftFull(c, t))
           \/ PayNothing(c) \/ ChooseMore(c)
  <2>1. UNCHANGED <<train_file, record, handler>>
    BY <1>2 DEF Accept, ReadTrain, ShiftFull, PayNothing, ChooseMore
  <2>2. \A d \in Client, t \in Train, k \in Seat : Has(d, t, k)' <=> Has(d, t, k)
    BY <2>1 DEF Has, Chosen, Cancels, At
  <2> QED BY <2>1, <2>2, SameHolders
<1>3. CASE (\E t \in Train : ShiftFree(c, t)) \/ Pay(c) \/ \E k \in Seat : Taken(c, k)
  <2>0. PICK at \in {"occupied_again", "pay", "booked?"} : \E arg :
          handler' = [handler EXCEPT ![ServerOf[c]] = [at |-> at, c |-> c, arg |-> arg]]
    BY <1>3 DEF ShiftFree, Pay, Taken, Goto
  <2>1. PICK arg :
          handler' = [handler EXCEPT ![ServerOf[c]] = [at |-> at, c |-> c, arg |-> arg]]
    BY <2>0
  <2> DEFINE h == [at |-> at, c |-> c, arg |-> arg]
  <2>2. train_file' = train_file /\ record' = record /\ handler[ServerOf[c]].at # "cancel"
    BY <1>3 DEF ShiftFree, Pay, Taken, Handles, Select
  <2>3. h.at # "cancel" /\ handler' = [handler EXCEPT ![ServerOf[c]] = h]
    BY <2>1
  <2> HIDE DEF h
  <2> QED BY <1>1, <2>2, <2>3
<1>4. CASE PayReturn(c) \/ ShiftUnanswered(c) \/ SayBooked(c) \/ SayLocked(c)
  <2>1. /\ train_file' = train_file /\ record' = record /\ handler[ServerOf[c]].at # "cancel"
        /\ handler' = [handler EXCEPT ![ServerOf[c]] = Select] /\ Select.at # "cancel"
    BY <1>4 DEF PayReturn, ShiftUnanswered, SayBooked, SayLocked, Return, At, Select
  <2> QED BY <1>1, <2>1
<1>5. CASE NotBooked(c)
  <2> DEFINE h == [at |-> "locked?", c |-> c, arg |-> handler[ServerOf[c]].arg]
  <2>1. /\ train_file' = train_file /\ record' = record /\ handler[ServerOf[c]].at # "cancel"
        /\ handler' = [handler EXCEPT ![ServerOf[c]] = h] /\ h.at # "cancel"
    BY <1>5 DEF NotBooked, Goto, At
  <2> HIDE DEF h
  <2> QED BY <1>1, <2>1
<1>6. CASE ShiftSelected(c)
  <2>1. record[c] = FreeRecord
    BY <1>6, Now DEF ShiftSelected, HandlerOK, At, Select
  <2>2. /\ train_file' = train_file /\ \A d \in Client : d # c => record'[d] = record[d]
        /\ record'[c].seat_stat = record[c].seat_stat
        /\ handler' = [handler EXCEPT ![ServerOf[c]] = Select]
        /\ handler[ServerOf[c]].at = "occupied_again"
    BY <1>6, NowTypes DEF ShiftSelected, RecType, Return, At
  <2>3. Chosen(c)' = {} /\ Chosen(c) = {}
    BY <2>1, <2>2 DEF Chosen, FreeRecord
  <2>4. \A d \in Client, k \in Seat : /\ Cancels(d, k)' <=> Cancels(d, k)
                                      /\ ~Cancels(c, k)
    BY <1>0, <2>2, SlotAssumption DEF Cancels, At, Select
  <2>5. \A d \in Client, t \in Train, k \in Seat : Has(d, t, k)' <=> Has(d, t, k)
    BY <2>2, <2>3, <2>4 DEF Has, Chosen
  <2> QED BY <2>2, <2>5, SameHolders
<1>7. ASSUME NEW k \in Seat, Cancel(c, k)
      PROVE  HolderOf' = HolderOf /\ Sold' = Sold
  <2>1. /\ k \in Chosen(c) /\ handler[ServerOf[c]] = Select /\ train_file' = train_file
        /\ handler' = [handler EXCEPT ![ServerOf[c]] = [at |-> "cancel", c |-> c, arg |-> k]]
        /\ Chosen(c)' = Chosen(c) \ {k} /\ record'[c].train_fd = record[c].train_fd
        /\ \A d \in Client : d # c => record'[d] = record[d]
    BY <1>7, NowTypes DEF Cancel, Handles, Goto, RecType, Chosen
  <2>2. \A d \in Client, j \in Seat : d # c => (Cancels(d, j)' <=> Cancels(d, j))
    BY <1>0, <2>1, SlotAssumption DEF Cancels, At, Select
  <2>3. \A j \in Seat : ~Cancels(c, j) /\ (Cancels(c, j)' <=> j = k)
    BY <1>0, <2>1 DEF Cancels, At, Select
  <2>4. \A d \in Client, t \in Train, j \in Seat : Has(d, t, j)' <=> Has(d, t, j)
    BY <2>1, <2>2, <2>3 DEF Has, Chosen
  <2> QED BY <2>1, <2>4, SameHolders
<1>8. ASSUME NEW k \in Seat, Choose(c, k)
      PROVE  HolderOf' = HolderOf /\ Sold' = Sold
  <2>1. /\ handler[ServerOf[c]] = Select /\ train_file' = train_file
        /\ handler' = [handler EXCEPT ![ServerOf[c]] = [at |-> "lock_seat", c |-> c, arg |-> k]]
        /\ Chosen(c)' = Chosen(c) \cup {k} /\ record'[c].train_fd = record[c].train_fd
        /\ train_file[record[c].train_fd][k] = 0
        /\ \A d \in Client : d # c => record'[d] = record[d]
    BY <1>8, NowTypes DEF Choose, Handles, Goto, RecType, Chosen
  <2>2. \A d \in Client, j \in Seat : Cancels(d, j)' <=> Cancels(d, j)
    BY <1>0, <2>1, SlotAssumption DEF Cancels, At, Select
  <2>3. ASSUME NEW d \in Client, NEW t \in Train, NEW j \in Seat, train_file[t][j] = 2
        PROVE  Has(d, t, j)' <=> Has(d, t, j)
    <3>1. CASE d = c
      BY <2>1, <2>2, <2>3, <3>1 DEF Has
    <3>2. CASE d # c
      BY <2>1, <2>2, <3>2 DEF Has, Chosen
    <3> QED BY <3>1, <3>2
  <2> QED BY <2>1, <2>3, SameHolders
<1> QED BY <1>2, <1>3, <1>4, <1>5, <1>6, <1>7, <1>8 DEF Shift, SeatNumber

\* A server that waits for another one is running.
LEMMA WaitersRun ==
  ASSUME Inv, Runs, NEW s \in Server, Deadlock(s)
  PROVE  process[s] = "running"
<1>1. PICK r \in Server : WaitsFor(s, r)
  BY DEF Deadlock
<1>2. Writes(s) \in Train
  BY <1>1, NowShared DEF WaitsFor
<1>3. handler[s] # Select
  BY <1>2, NoneAssumption DEF Writes, Select
<1> QED BY <1>3 DEF Runs

\* A step in which nobody leaves with chosen seats is one of SeatBooking, or none.
LEMMA BookingStep ==
  ASSUME Inv, Runs, Excl, Excl', OneWriter, [Next]_vars, Tidy
  PROVE  [Booking!Next]_(Booking!bookingVars)
<1> DEFINE Silent == HolderOf' = HolderOf /\ Sold' = Sold /\ Open' = Open
<1>1. CASE UNCHANGED vars
  <2>1. \A d \in Client, t \in Train, k \in Seat : Has(d, t, k)' <=> Has(d, t, k)
    BY <1>1 DEF vars, Has, Chosen, Cancels, At
  <2>2. Silent
    BY <1>1, <2>1, SameHolders DEF vars, Open
  <2> QED BY <2>2 DEF Booking!bookingVars, HolderOf, Sold, Open
<1>2. ASSUME NEW c \in Client, Receive(c)
      PROVE  Silent \/ \E s \in Server : Booking!Crash(s)
  <2>1. CASE \/ Expire(c) \/ Exit(c) \/ InvalidShift(c) \/ InvalidSeat(c) \/ NegativeSeat(c)
             \/ InvalidBooked(c)
    <3>1. /\ Close(c) /\ train_file' = train_file /\ process' = process
          /\ request[c].status # "INVALID" /\ process[ServerOf[c]] = "running"
          /\ handler[ServerOf[c]] = Select /\ handler' = handler
      BY <2>1 DEF Expire, Exit, InvalidShift, InvalidSeat, NegativeSeat, InvalidBooked, Handles
    <3> QED BY <1>2, <3>1, CloseLeaves DEF Open
  <2>2. CASE IncompleteLine(c) \/ InvalidSeatExit(c) \/ \E t \in Train : ShiftCrash(c, t)
    <3>1. /\ ServerOf[c] \in Server /\ train_file' = train_file
          /\ process[ServerOf[c]] = "running"
          /\ \E why \in {"killed", "crashed", "exited", "overrun"} : Die(ServerOf[c], why)
      BY <2>2, SlotAssumption DEF IncompleteLine, InvalidSeatExit, ShiftCrash, Handles
    <3> QED BY <3>1, DieLeaves
  <2>3. CASE \/ Accept(c) \/ (\E t \in Train : ReadTrain(c, t) \/ Shift(c, t))
             \/ PayNothing(c) \/ Pay(c) \/ (\E k \in Seat : SeatNumber(c, k)) \/ ChooseMore(c)
    <3>1. process' = process
      BY <2>3 DEF Accept, ReadTrain, Shift, ShiftFull, ShiftFree, PayNothing, Pay, SeatNumber,
                  Cancel, Choose, Taken, ChooseMore
    <3> QED BY <2>3, <3>1, SilentStep DEF Open
  <2> QED BY <1>2, <2>1, <2>2, <2>3 DEF Receive, WriteLine
<1>3. ASSUME NEW c \in Client, Continue(c)
      PROVE  \/ Silent
             \/ \E t \in Train, k \in Seat :
                  Booking!Reserve(c, t, k) \/ Booking!Release(c, t, k) \/ Booking!Buy(c, t, k)
  <2>0. process' = process /\ handler[ServerOf[c]] # Select
    BY <1>3, Continues
  <2>1. CASE Neither(c)
    <3>1. /\ Close(c) /\ train_file' = train_file /\ Return(c)
          /\ handler[ServerOf[c]].c = c /\ handler[ServerOf[c]].at = "locked?"
      BY <2>1 DEF Neither, At
    <3>2. request[c].status # "INVALID" /\ process[ServerOf[c]] = "running"
      BY <2>0, <3>1, Now DEF HandlerOK, Runs
    <3> QED BY <1>3, <2>0, <3>1, <3>2, CloseLeaves DEF Open
  <2>2. CASE \/ ShiftSelected(c) \/ ShiftUnanswered(c) \/ PayReturn(c)
             \/ SayBooked(c) \/ NotBooked(c) \/ SayLocked(c)
    BY <2>0, <2>2, SilentStep DEF Open
  <2> QED BY <1>3, <2>0, <2>1, <2>2, FreeSeatReleases, LockSeatReserves, PaySeatBuys DEF Continue
<1>4. ASSUME NEW s \in Server, Kill(s) \/ Start(s) \/ Deadlock(s)
      PROVE  Booking!Crash(s) \/ Booking!Reopen(s)
  <2>1. CASE Kill(s) \/ Deadlock(s)
    <3>1. /\ train_file' = train_file
          /\ \E why \in {"killed", "crashed", "exited", "overrun"} : Die(s, why)
      BY <2>1 DEF Kill, Deadlock
    <3>2. process[s] = "running"
      BY <2>1, WaitersRun DEF Kill, Deadlock
    <3> QED BY <3>1, <3>2, DieLeaves
  <2>2. CASE Start(s)
    <3>1. UNCHANGED <<train_file, record, handler>>
      BY <2>2 DEF Start
    <3>2. \A d \in Client, t \in Train, k \in Seat : Has(d, t, k)' <=> Has(d, t, k)
      BY <3>1 DEF Has, Chosen, Cancels, At
    <3>3. HolderOf' = HolderOf /\ Sold' = Sold
      BY <3>1, <3>2, SameHolders
    <3>4. s \notin Open /\ Open' = Open \cup {s}
      BY <2>2, NowShared DEF Start, Open
    <3> QED BY <3>3, <3>4 DEF Booking!Reopen, HolderOf, Sold, Open
  <2> QED BY <1>4, <2>1, <2>2
<1>5. Silent => UNCHANGED Booking!bookingVars
  BY DEF Booking!bookingVars, HolderOf, Sold, Open
<1> HIDE DEF Silent
<1> QED BY <1>1, <1>2, <1>3, <1>4, <1>5 DEF Next, Booking!Next

\* ImplementsSeatBooking of the runs: with one write server, whatever clients do
\* and whenever servers die, a seat changes hands only as SeatBooking says, in
\* every step but one in which a client leaves with seats chosen and not paid.
THEOREM Implements == ASSUME OneWriter PROVE Spec => ImplementsSeatBooking
<1>1. Init => Runs
  BY DEF Init, Runs
<1>2. Spec => [](Inv /\ Excl /\ Runs)
  BY <1>1, NextRuns, OneWriterInvariance, PTL DEF Spec
<1>3. Inv /\ Runs /\ Excl /\ Excl' /\ [Next]_vars => [Tidy => Booking!Next]_(Booking!bookingVars)
  BY BookingStep
<1> QED BY <1>2, <1>3, BookingInit, PTL DEF Spec, ImplementsSeatBooking
=============================================================================
