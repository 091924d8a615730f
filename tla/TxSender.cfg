SPECIFICATION FairSpec
CONSTANTS
  submit = submit
  relay = relay
  Call <- MCCalls
  Relays <- MCRelays
  Suggested <- MCSuggested
  GasConfigs <- MCGasConfigs
  MaxRetries = 2
INVARIANTS NoNonceGap CopiesExplained
PROPERTIES KeepsPromise CallsReport
CHECK_DEADLOCK FALSE
