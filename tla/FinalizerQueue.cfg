SPECIFICATION FairSpec
CONSTANTS
  v1 = v1
  v2 = v2
  v3 = v3
  a = a
  b = b
  p = p
  q = q
  Voter <- MCVoter
  Message <- MCMessage
  Protocol <- MCProtocol
  ProtocolOf <- MCProtocolOf
  Submissions <- MCSubmissions
  RoundOf <- MCRoundOf
  RewardEpoch <- MCRewardEpoch
  StartVotingRound <- MCStartVotingRound
  Threshold <- MCThreshold
  VotersOf <- MCVotersOf
  WeightOf <- MCWeightOf
  VotingPeriod = 1
  RewardStart = 0
  RewardPeriod = 2
  GracePeriodEndOffset = 1
  MaxTxSendRetries = 2
  MaxTime = 4
INVARIANTS InOnePlace SentQuorum GracePeriodKept
PROPERTIES QueuedIsDealtWith
CHECK_DEADLOCK FALSE
