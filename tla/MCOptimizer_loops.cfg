CONSTANTS
  W = W
  NoWatchdog = NoWatchdog
  NoPatch = NoPatch
  NoLimit = NoLimit
  Watchdog = {W}
  Model <- MCModel
  Requests <- MCRequests
SPECIFICATION FairSpec
INVARIANTS TypeOK FixpointReached StepsRespected
PROPERTY Terminates
CHECK_DEADLOCK FALSE
