SPECIFICATION Spec
CONSTANTS
  a = a
  b = b
  m1 = m1
  m2 = m2
  m3 = m3
  x = x
  y = y
  o = o
  App = {a, b}
  Rel = {1, 2, 3}
  Remote = {m1, m2, m3}
  Address = {x, y}
  Override = {o}
  NoAddress = NoAddress
  NoName = NoName
  NoUnit = NoUnit
  AppOf <- Apps
  RelOf <- Relations
  NumOf <- Numbers
  Static <- Lists
  Lookaside <- Extras
  MaxEvents = 2
INVARIANTS TypeOK TargetsExact NamesDistinct AppsApart OnlyOffendersTold
CHECK_DEADLOCK FALSE
SYMMETRY Interchangeable
ACTION_CONSTRAINT Reduced
