SPECIFICATION Spec
CONSTANTS
  u1 = u1
  u2 = u2
  a = a
  c = c
  sl = sl
  sw = sw
  sc = sc
  ml = ml
  mw = mw
  mv = mv
  Unit = {u1, u2}
  Sink = {sl, sw, sc}
  Remote = {ml, mw}
  Endpoint = {a, c}
  NoUrl = NoUrl
  KindOf <- ThreeSinks
  SinkOf <- OneEach
  CloudData <- NoneOrBoth
  MaxEvents = 3
INVARIANTS TypeOK LibraryRulesHidden EndpointsCurrent ReadyMeansListening RulesReachReceivers
PROPERTIES StatusTellsTruth
ACTION_CONSTRAINT Reduced
