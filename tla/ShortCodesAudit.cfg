CONSTANTS
  Sessions = {s1, s2}
  Codes = {c1, c2, c3}
  Pairs = {p1}
  TTL = 2
  Skew = 0
  MaxTime = 3
  NoSession = NoSession
  NoCode = NoCode
SPECIFICATION Spec
SYMMETRY Symmetry
PROPERTIES RedemptionStaysOnRecord
