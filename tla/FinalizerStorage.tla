--------------------------- MODULE FinalizerStorage ---------------------------
(***************************************************************************)
(* The two in-memory stores of the finalizer: the list of signing policies *)
(* (client/finalizer/signing_policy_storage.go) and the signatures seen so *)
(* far per message (client/finalizer/submission_storage.go), as operators  *)
(* on their values.                                                        *)
(*                                                                         *)
(* A signing policy is named by its reward epoch id; its contents are the  *)
(* constant tables below, as the chain publishes them.  A message (the 38  *)
(* signed bytes: protocol, voting round, quality bit, Merkle root) is a    *)
(* model value; its hash is injective, so it is also the storage key.      *)
(***************************************************************************)
EXTENDS Epoch, Sequences, FiniteSets

CONSTANTS
  Voter,             \* signing addresses, registered or not
  Message,           \* distinct signed messages
  RoundOf,           \* voting round signed in each message
  Protocol,          \* protocol ids
  ProtocolOf,        \* protocol id signed in each message
  RewardEpoch,       \* reward epoch ids that have a signing policy
  StartVotingRound,  \* first voting round of each policy
  Threshold,         \* weight each policy's messages must exceed
  VotersOf,          \* registered voters of each policy
  WeightOf,          \* weight of each set of registered voters of a policy
  VotingPeriod,      \* ticks per voting round; round 0 starts at tick 0
  RewardStart,       \* first voting round of reward epoch 0
  RewardPeriod       \* voting rounds per reward epoch

NoPolicy == -1
NewMessageData(sp) == [payload |-> {}, weight |-> 0, policy |-> sp, thresholdReached |-> FALSE]
NoData == NewMessageData(NoPolicy)
MaxUint16 == 65535

\* A payload item names its protocol and round beside the signed message, which
\* has its own; nothing makes them agree.
SubmitterPayloadItem ==
  [protocolId : Protocol, votingRoundId : Nat, message : Message, signer : Voter]

\* An item of the finalization queue, with the seed of the policy it was found with.
QueueItem == [protocolId : Protocol, votingRoundId : Nat, message : Message, seed : RewardEpoch]

\* What the smart contracts guarantee about policies: ids are numbers, policies
\* start later than their predecessors, the weights fit in a uint16.
ASSUME PolicyAssumption ==
  /\ RewardEpoch \subseteq Nat
  /\ RoundOf \in [Message -> Nat] /\ ProtocolOf \in [Message -> Protocol]
  /\ StartVotingRound \in [RewardEpoch -> Nat]
  /\ \A d, e \in RewardEpoch : d < e => StartVotingRound[d] < StartVotingRound[e]
  /\ Threshold \in [RewardEpoch -> 0 .. MaxUint16]
  /\ VotersOf \in [RewardEpoch -> SUBSET Voter]
  /\ VotingPeriod \in Nat \ {0}
  /\ RewardStart \in Nat
  /\ RewardPeriod \in Nat \ {0}

\* WeightOf is the sum of the voters' weights: additive, and at most a uint16.
ASSUME WeightAssumption ==
  /\ WeightOf \in [RewardEpoch -> [SUBSET Voter -> 0 .. MaxUint16]]
  /\ \A e \in RewardEpoch :
       /\ WeightOf[e][{}] = 0
       /\ \A S \in SUBSET Voter : \A v \in VotersOf[e] \ S :
            S \subseteq VotersOf[e]
              => WeightOf[e][S \cup {v}] = WeightOf[e][S] + WeightOf[e][{v}]

(***************************************************************************)
(* signingPolicyStorage.                                                   *)
(***************************************************************************)

\* Mutant: a policy is not found for the round it starts at.
FindStrictlyBefore(list, round) ==
  LET Before == {i \in DOMAIN list : StartVotingRound[list[i]] < round}
  IN  IF Before = {} THEN NoPolicy ELSE list[CHOOSE k \in Before : \A l \in Before : l <= k]

\* findByVotingRoundId: sort.Find gives the first policy that starts at or after
\* the round; unless it starts exactly there the one before it is the answer.
FindByVotingRoundId(list, round) ==
  LET Later == {i \in DOMAIN list : StartVotingRound[list[i]] >= round}
      i == IF Later = {} THEN Len(list) + 1
           ELSE CHOOSE k \in Later : \A l \in Later : k <= l
  IN  IF i <= Len(list) /\ StartVotingRound[list[i]] = round THEN list[i]
      ELSE IF i = 1 THEN NoPolicy
      ELSE list[i - 1]

\* The consistency checks of signingPolicyStorage.Add.
CanAddPolicy(list, e) ==
  list = <<>> \/ /\ list[Len(list)] = e - 1
                 /\ StartVotingRound[e] >= StartVotingRound[list[Len(list)]]

\* signingPolicyStorage.Add; the caller ignores the error.
AddPolicy(list, e) == IF CanAddPolicy(list, e) THEN Append(list, e) ELSE list

\* RemoveByVotingRound drops the policies at the front of the list that start
\* at or before the round: how many, and what remains.
RemovedCount(list, round) ==
  CHOOSE n \in 0 .. Len(list) :
    /\ \A i \in 1 .. n : StartVotingRound[list[i]] <= round
    /\ n < Len(list) => StartVotingRound[list[n + 1]] > round

RemoveByVotingRound(list, round) ==
  SubSeq(list, RemovedCount(list, round) + 1, Len(list))

\* The reward epoch ids RemoveByVotingRound returns.
RemovedEpochIds(list, round) ==
  {list[i] : i \in 1 .. RemovedCount(list, round)}

(***************************************************************************)
(* submissionStorage.                                                      *)
(***************************************************************************)

MessageData ==
  [payload : SUBSET Voter, weight : 0 .. MaxUint16,
   policy : RewardEpoch \cup {NoPolicy}, thresholdReached : BOOLEAN]

\* Mutants: a repeated signature counts again; reaching the threshold suffices.
AddPayloadAgain(md, signer, threshold) ==
  LET weight == (md.weight + WeightOf[md.policy][{signer}]) % (MaxUint16 + 1)
  IN  [md EXCEPT !.payload = @ \cup {signer}, !.weight = weight,
                 !.thresholdReached = @ \/ weight > threshold]

AddPayloadAtLeast(md, signer, threshold) ==
  LET weight == (md.weight + WeightOf[md.policy][{signer}]) % (MaxUint16 + 1)
  IN  IF signer \in md.payload THEN md
      ELSE [md EXCEPT !.payload = @ \cup {signer}, !.weight = weight,
                      !.thresholdReached = @ \/ weight >= threshold]

\* messageData.addPayload for a registered signer; a repeated one changes nothing.
AddPayload(md, signer, threshold) ==
  LET weight == (md.weight + WeightOf[md.policy][{signer}]) % (MaxUint16 + 1)
  IN  IF signer \in md.payload THEN md
      ELSE [md EXCEPT !.payload = @ \cup {signer},
                      !.weight = weight,
                      !.thresholdReached = @ \/ weight > threshold]

\* Mutant: an entry of another policy is thrown away.
AddUnderNewPolicy(md, signer, sp, threshold) ==
  LET entry == IF md.policy # sp THEN NewMessageData(sp) ELSE md
  IN  IF signer \in VotersOf[entry.policy] THEN AddPayload(entry, signer, threshold)
      ELSE entry

\* submissionStorage.Add: the entry it leaves for the message.  The entry is
\* created under policy sp even if the signer then is no voter of that policy.
AddSubmission(md, signer, sp, threshold) ==
  LET entry == IF md.policy = NoPolicy THEN NewMessageData(sp) ELSE md
  IN  IF signer \in VotersOf[entry.policy] THEN AddPayload(entry, signer, threshold)
      ELSE entry

\* Mutant: every signature over the threshold counts as crossing it.
ReachedNow(old, new) == new.thresholdReached

\* addPayloadResult.thresholdReached: this signature crossed the threshold.
CrossedThreshold(old, new) == new.thresholdReached /\ ~old.thresholdReached

\* submissionStorage.Get for the round, the protocol and the message of a queue
\* item: nothing unless they are the ones signed in the message.
Get(subs, item) ==
  IF item.votingRoundId = RoundOf[item.message] /\ item.protocolId = ProtocolOf[item.message]
  THEN subs[item.message] ELSE NoData

\* RemoveVotingRoundIds.
RemoveVotingRoundIds(subs, ids) ==
  [m \in Message |-> IF RoundOf[m] \in ids THEN NoData ELSE subs[m]]
==============================================================================
