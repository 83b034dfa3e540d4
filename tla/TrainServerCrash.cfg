SPECIFICATION Spec
CONSTANTS
  a = a
  b = b
  c1 = c1
  c2 = c2
  c3 = c3
  t1 = t1
  t2 = t2
  Server = {a}
  Reader = {}
  Client = {c1, c2}
  ServerOf <- ClientsOf
  Train = {t1}
  SEAT_NUM = 1
  None = None
  Left = Left
INVARIANT NoLineEndsServer
