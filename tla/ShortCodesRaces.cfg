CONSTANTS
  Sessions = {s1, s2}
  Codes = {c1, c2, c3, c4}
  Pairs = {p1}
  TTL = 2
  Skew = 0
  MaxTime = 2
  NoSession = NoSession
  NoCode = NoCode
SPECIFICATION Spec
SYMMETRY Symmetry
INVARIANTS OneLiveRow RedeemedOnce ConsumedMeansDone IInv RefusalInv
PROPERTIES OverrideLosesToNewer RefusedOnlyIfGone ExpiredNeverBlocks
