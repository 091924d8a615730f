SPECIFICATION Spec
CONSTANTS
  v1 = v1
  v2 = v2
  v3 = v3
  a = a
  b = b
  c = c
  p = p
  NoTx = NoTx
  Voter <- MCVoter
  Message <- PromptMessage
  RoundOf <- PromptRoundOf
  Protocol <- MCProtocol
  ProtocolOf <- MCProtocolOf
  RewardEpoch <- MCRewardEpoch
  StartVotingRound <- PromptStartVotingRound
  Threshold <- MCThreshold
  VotersOf <- MCVotersOf
  WeightOf <- MCWeightOf
  VotingPeriod = 1
  RewardStart = 2
  RewardPeriod = 2
  Transactions <- MCTransactions
  Scripts <- PromptScripts
  Unparsable = {}
  StartTimeOffset = 2
  StartingRewardEpoch = 0
  StartingVotingRound = 1
  ListenerBufferSize = 1
  PromptPolicies = TRUE
  InitTime = 2
  MaxLag = 1
  MaxTime = 8
  MaxRestarts = 0
INVARIANTS StoredUnderAnnouncedPolicy QuorumBehindQueue NoSignatureLost
PROPERTIES PolicyInUseKept
CHECK_DEADLOCK FALSE
