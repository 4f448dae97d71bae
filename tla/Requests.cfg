SPECIFICATION FairSpec
CONSTANTS
  Requests = {r1, r2, r3}
  Routes <- MCRoutes
  MaxOpenConns = 2
  NoCode = NoCode
  Nobody = Nobody
INVARIANTS RequestsInv HoldersNeverWait AnswersTruthful ServerErrorsExplained
PROPERTIES ImplementsStore Served
CHECK_DEADLOCK FALSE
