SPECIFICATION Spec
CONSTANTS
  u1 = u1
  u2 = u2
  a = a
  c = c
  sl = sl
  sw = sw
  sc = sc
  ml = ml
  mw = mw
  mv = mv
  Unit = {u1}
  Sink = {sw}
  Remote = {mw, mv}
  Endpoint = {a, c}
  NoUrl = NoUrl
  KindOf <- WriteOnly
  SinkOf <- TwoWriters
  CloudData <- NoCloud
  MaxEvents = 3
PROPERTIES RewritesOnlyChanges
