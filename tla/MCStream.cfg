\* Two API threads, the code's minimum of four transfers, events handled by any thread; the liveness
\* properties and the API contract under the fairness of FairSpec.
CONSTANTS
  Threads = {t1, t2}
  NoThread = NoThread
  N = 4
  Faults <- Contained
  ForeignEvents = TRUE
SPECIFICATION FairSpec
INVARIANTS
  ExclusiveUse
  BusyIffOwned
  ListInSubmissionOrder
  HeadExists
  NoLostWakeup
  CleanWhenIdle
PROPERTIES
  StopReturns
  DataKeepsComing
  ImplementsAPI
