SPECIFICATION FairSpec
CONSTANTS
  v1 = v1
  v2 = v2
  v3 = v3
  a = a
  b = b
  c = c
  p = p
  NoTx = NoTx
  Voter <- MCVoter
  Message <- LagMessage
  RoundOf <- LagRoundOf
  Protocol <- MCProtocol
  ProtocolOf <- MCProtocolOf
  RewardEpoch <- MCRewardEpoch
  StartVotingRound <- LagStartVotingRound
  Threshold <- MCThreshold
  VotersOf <- MCVotersOf
  WeightOf <- MCWeightOf
  VotingPeriod = 1
  RewardStart = 2
  RewardPeriod = 2
  Transactions <- MCTransactions
  Scripts <- LagScripts
  Unparsable <- LagUnparsable
  StartTimeOffset = 3
  StartingRewardEpoch = 0
  StartingVotingRound = 1
  ListenerBufferSize = 1
  PromptPolicies = FALSE
  InitTime = 2
  MaxLag = 1
  MaxTime = 4
  MaxRestarts = 1
INVARIANTS WeightIsSum EnqueuedOnce NoPolicyLost
PROPERTIES SignaturesAccumulate QuorumIsQueued
CHECK_DEADLOCK FALSE
