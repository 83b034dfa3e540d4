SPECIFICATION FairSpec
CONSTANTS
  a = a
  b = b
  c1 = c1
  c2 = c2
  c3 = c3
  t1 = t1
  t2 = t2
  Server = {a, b}
  Reader = {}
  Client = {c1, c3}
  ServerOf <- ClientsOf
  Train = {t1, t2}
  SEAT_NUM = 1
  None = None
  Left = Left
INVARIANT CountsChosen
PROPERTY HandlersReturn
