SPECIFICATION MCSpec
CONSTANTS
  Enabled <- MCEnabled
  StartOffset <- MCStartOffset
  Period = 2
  RewardLength = 4
  MaxEpoch = 3
  MaxTime = 9
  NProtocols = 3
  MaxRounds = 3
  FetchRetries = 2
  TxSubmitRetries = 2
INVARIANTS NoPanic CounterIsOpen RevealAfterEpoch ToSendIsUnsent AnswersAreFresh InOrder
PROPERTIES NoneOpenOnReturn ShutdownCompletes EpochSubmitted RegisteredIsLetIn Returns
CHECK_DEADLOCK FALSE
