SPECIFICATION Spec
CONSTANTS
  a = a
  b = b
  c1 = c1
  c2 = c2
  c3 = c3
  t1 = t1
  t2 = t2
  Server = {a, b}
  Reader = {b}
  Client = {c1, c2, c3}
  ServerOf <- ClientsOf
  Train = {t1}
  SEAT_NUM = 2
  None = None
  Left = Left
INVARIANTS
  TypeOK
  SeatHeldByOne
  FileBacksRecords
  CountsChosen
  ShownStaysBooked
PROPERTIES
  BookedStaysBooked
  ImplementsSeatBooking
