SPECIFICATION Spec
CONSTANTS
  r1 = r1
  r2 = r2
  r3 = r3
  register = register
  reset = reset
  Requests <- MCRequests
  Services <- MCServices
  ServiceOf <- MCServiceOf
  MaxConcurrent = 2
  SmtpTimeout = 2
  ShutdownTimeout = 3
INVARIANTS StartedSendsFinish
CHECK_DEADLOCK FALSE
