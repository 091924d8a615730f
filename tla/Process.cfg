SPECIFICATION FairSpec
CONSTANTS
  Enablings <- MCEnablings
  Window = 1
  Length = 2
  MaxTxSendRetries = 2
  Malformed <- OneMalformed
  Horizon <- MCHorizon
  MaxTime = 5
  MaxStarts = 2
INVARIANTS NoFutureEventSkipped
PROPERTIES CleanExit DeliveredOnce NoSpontaneousExit WindowServed RegistrationServed ShutdownCompletes
CHECK_DEADLOCK FALSE
