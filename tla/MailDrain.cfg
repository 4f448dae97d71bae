SPECIFICATION FairSpec
CONSTANTS
  r1 = r1
  r2 = r2
  r3 = r3
  register = register
  reset = reset
  Requests <- MCRequests
  Services <- MCServices
  ServiceOf <- MCServiceOf
  MaxConcurrent = 2
  SmtpTimeout = 2
  ShutdownTimeout = 3
INVARIANTS NoSilentLoss SendsOutliveSignal MailInv
PROPERTIES DrainedSetIsClosed Stops
CHECK_DEADLOCK FALSE
