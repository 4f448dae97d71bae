SPECIFICATION FairSpec
CONSTANTS
  Sessions = {s1, s2}
  Codes = {c1, c2, c3, c4}
  Pairs = {p1, p2}
  TTL = 1
  Skew = 1
  MaxTime = 0
  NoSession = NoSession
  NoCode = NoCode
ACTION_CONSTRAINT FewArrivals
PROPERTIES ImplementsStore RequestsReturn
