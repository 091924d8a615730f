------------------------- MODULE FinalizerClientProofs -------------------------
(***************************************************************************)
(* Proofs about FinalizerClient for every number of voters, messages,      *)
(* policies, blocks and restarts.                                          *)
(***************************************************************************)
EXTENDS FinalizerClient, FinalizerStorageProofs

\* Leaves without a pragma are for Zenon; the others need arithmetic or records.
USE ZenonT(30)

\* Voting round numbers and cleanup rounds are integers.
LEMMA VotingRoundType ==
  ASSUME NEW t \in Int
  PROVE  VotingRoundAt(t) \in Int
<1>1. VotingPeriod \in Nat \ {0}
  BY PolicyAssumption DEF PolicyAssumption
<1>2. CASE t >= 0
  BY SMTT(30), <1>1, <1>2 DEF VotingRoundAt, EpochIndex, TruncDiv
<1>3. CASE t < 0
  <2>1. (-t) \div VotingPeriod \in Int
    BY SMTT(30), <1>1, <1>3
  <2>2. QED
    BY SMTT(30), <1>1, <1>3, <2>1 DEF VotingRoundAt, EpochIndex, TruncDiv
<1>4. QED
  BY SMTT(30), <1>2, <1>3

\* signingPolicyData returns no policy, or a policy that has started by the
\* voting round and a threshold that fits in a uint16.
LEMMA SigningPolicyDataSpec ==
  ASSUME spList \in Seq(RewardEpoch), NEW round \in Int
  PROVE  LET data == SigningPolicyData(round)
         IN  /\ data \in Lookup
             /\ data.sp # NoPolicy =>
                  data.sp \in RewardEpoch /\ StartVotingRound[data.sp] <= round
<1> DEFINE sp == FindByVotingRoundId(spList, round)
           total == WeightOf[sp][VotersOf[sp]]
<1>1. sp # NoPolicy => sp \in RewardEpoch /\ StartVotingRound[sp] <= round
  BY FindSpec
<1>2. SigningPolicyData(round) \in
        {NoLookup, [sp |-> sp, threshold |-> Threshold[sp]],
         [sp |-> sp, threshold |-> (total * 60) \div 100]}
  BY DEF SigningPolicyData
<1>3. sp = NoPolicy => SigningPolicyData(round) = NoLookup
  BY DEF SigningPolicyData
<1> HIDE DEF sp
<1>4. CASE sp = NoPolicy
  BY SMTT(30), <1>3, <1>4, MaxUint16Type DEF NoLookup, Lookup
<1>5. CASE sp # NoPolicy
  <2>1. Threshold[sp] \in 0 .. MaxUint16 /\ VotersOf[sp] \in SUBSET Voter
    BY <1>1, <1>5, PolicyAssumption DEF PolicyAssumption
  <2>2. total \in 0 .. MaxUint16
    BY SMTT(30), <1>1, <1>5, <2>1, WeightAssumption DEF WeightAssumption
  <2> HIDE DEF total
  <2>3. (total * 60) \div 100 \in 0 .. MaxUint16
    BY SMTT(30), <2>2, SixtyPercentBound, MaxUint16Type
  <2>4. QED
    BY SMTT(30), <1>1, <1>2, <1>5, <2>1, <2>3, MaxUint16Type DEF Lookup, NoLookup
<1>6. QED
  BY <1>4, <1>5

(***************************************************************************)
(* Type correctness.                                                       *)
(***************************************************************************)

\* The payload item at hand is a signature of a voter for a message.
LEMMA ItemType ==
  ASSUME TypeOK, subPc # "loop"
  PROVE  /\ Item \in SubmitterPayloadItem
         /\ Round \in Nat
<1>1. subTx \in DOMAIN blocks /\ blocks[subTx].tx # NoTx /\ subItem \in DOMAIN blocks[subTx].tx
  BY DEF TypeOK
<1>2. blocks[subTx] \in Block
  BY SMTT(30), <1>1 DEF TypeOK
<1>3. blocks[subTx].tx \in Seq(SubmitterPayloadItem)
  BY <1>1, <1>2, ClientAssumption DEF Block, ClientAssumption
<1>4. Item \in SubmitterPayloadItem
  BY SMTT(30), <1>1, <1>3 DEF Item
<1>5. QED
  BY <1>4 DEF SubmitterPayloadItem, Round

\* What the two listeners fetch are numbers of blocks with a log or transaction.
LEMMA FetchType ==
  ASSUME NEW from, NEW to
  PROVE  /\ PolicyLogs(from, to) \subseteq Published
         /\ SignatureTxs(from, to) \subseteq {i \in DOMAIN blocks : blocks[i].tx # NoTx}
  BY DEF PolicyLogs, SignatureTxs, Visible, Published

\* The blocks and what they publish.
LEMMA BlockType ==
  ASSUME TypeOK
  PROVE  /\ now \in Nat /\ Len(blocks) \in Nat /\ DOMAIN blocks = 1 .. Len(blocks)
         /\ \A i \in DOMAIN blocks : blocks[i].ts \in Nat
         /\ Published \subseteq DOMAIN blocks
         /\ \A i \in Published : /\ blocks[i].policy \in RewardEpoch
                                 /\ blocks[i].policy \in Nat
                                 /\ StartVotingRound[blocks[i].policy] \in Nat
<1>1. blocks \in Seq(Block) /\ now \in Nat
  BY DEF TypeOK
<1>2. \A i \in DOMAIN blocks : blocks[i] \in Block
  BY SMTT(30), <1>1
<1>3. \A i \in Published : blocks[i].policy \in RewardEpoch
  BY <1>2 DEF Published, Block
<1>4. \A i \in DOMAIN blocks : blocks[i].ts \in Nat
  BY <1>2 DEF Block
<1>5. \A e \in RewardEpoch : e \in Nat /\ StartVotingRound[e] \in Nat
  BY PolicyAssumption DEF PolicyAssumption
<1> QED
  BY SMTT(30), <1>1, <1>3, <1>4, <1>5 DEF Published

\* The transactions in the database carry signatures.
LEMMA TxSignatures ==
  ASSUME TypeOK, NEW i \in DOMAIN blocks, blocks[i].tx # NoTx
  PROVE  /\ blocks[i].tx \in Seq(SubmitterPayloadItem)
         /\ \A k \in DOMAIN blocks[i].tx : blocks[i].tx[k] \in SubmitterPayloadItem
<1>1. blocks[i] \in Block
  BY SMTT(30) DEF TypeOK
<1>2. blocks[i].tx \in Seq(SubmitterPayloadItem)
  BY <1>1, ClientAssumption DEF Block, ClientAssumption
<1> QED
  BY SMTT(30), <1>2

\* Where the listeners start to read: at the last policy fetched, if any.
LEMMA ListenFromLast ==
  ASSUME TypeOK, NEW from \in Int
  PROVE  LET logs == FetchSigningPolicies(from)
         IN  /\ logs \subseteq Published
             /\ \A i \in logs : from < blocks[i].ts /\ blocks[i].ts <= now
             /\ logs = {} => ListenFrom(from) = from
             /\ logs # {} => \E i \in logs : /\ ListenFrom(from) = blocks[i].ts
                                             /\ \A j \in logs : blocks[j].ts <= blocks[i].ts
<1> DEFINE logs == FetchSigningPolicies(from)
<1>1. logs \subseteq Published /\ logs \subseteq DOMAIN blocks
  BY FetchType DEF FetchSigningPolicies, Published
<1>2. \A i \in logs : from < blocks[i].ts /\ blocks[i].ts <= now
  BY DEF FetchSigningPolicies, PolicyLogs, Visible
<1>3. logs = {} => ListenFrom(from) = from
  BY DEF ListenFrom
<1>4. ASSUME logs # {}
      PROVE  \E i \in logs : ListenFrom(from) = blocks[i].ts /\ \A j \in logs : blocks[j].ts <= blocks[i].ts
  <2> DEFINE T == {now - blocks[i].ts : i \in logs}
  <2>1. \A i \in logs : i \in DOMAIN blocks /\ blocks[i].ts \in Nat /\ blocks[i].ts <= now
    BY <1>1, <1>2, BlockType
  <2>2. now \in Nat /\ T # {}
    BY <1>4 DEF TypeOK
  <2>3. T \in SUBSET Nat
    BY SMTT(30), <2>1, <2>2
  <2>4. PICK t \in T : \A u \in T : t <= u
    BY <2>2, <2>3, LeastElement
  <2>5. PICK i \in logs : t = now - blocks[i].ts
    BY <2>4
  <2>6. \A j \in logs : now - blocks[i].ts <= now - blocks[j].ts
    BY <2>4, <2>5
  <2>7. \A j \in logs : blocks[j].ts <= blocks[i].ts
    BY SMTT(30), <2>1, <2>2, <2>5, <2>6
  <2> DEFINE c == CHOOSE k \in logs : \A j \in logs : blocks[j].ts <= blocks[k].ts
  <2>8. ListenFrom(from) = blocks[c].ts
    BY <1>4 DEF ListenFrom
  <2>9. c \in logs /\ \A j \in logs : blocks[j].ts <= blocks[c].ts
    BY <2>5, <2>7
  <2> QED
    BY <2>8, <2>9
<1> QED
  BY <1>1, <1>2, <1>3, <1>4

\* A list of consecutive reward epochs.
Consecutive(list) == \A k \in DOMAIN list : list[k] = list[1] + (k - 1)

\* A list whose elements each follow on the one before is consecutive.
LEMMA AdjacentConsecutive ==
  ASSUME NEW n \in Nat, NEW s \in [1 .. n -> Nat], \A k \in 1 .. n - 1 : s[k + 1] = s[k] + 1
  PROVE  Consecutive(s)
<1> DEFINE Bad == {k \in 1 .. n : s[k] # s[1] + (k - 1)}
<1>1. SUFFICES Bad = {}
  BY DEF Consecutive
<1>2. SUFFICES ASSUME Bad # {} PROVE FALSE
  OBVIOUS
<1>3. Bad \in SUBSET Nat
  BY SMTT(30)
<1>4. PICK k \in Bad : \A l \in Bad : k <= l
  BY <1>2, <1>3, LeastElement
<1>5. k \in 1 .. n /\ s[k] # s[1] + (k - 1) /\ 1 \in 1 .. n
  BY SMTT(30), <1>4
<1>6. k # 1
  BY SMTT(30), <1>5
<1>7. k - 1 \in 1 .. n - 1 /\ k - 1 \in 1 .. n /\ (k - 1) + 1 = k /\ ~(k <= k - 1)
  BY SMTT(30), <1>5, <1>6
<1>8. s[k - 1] = s[1] + ((k - 1) - 1)
  BY <1>4, <1>7
<1>9. s[k] = s[k - 1] + 1
  BY <1>7
<1>10. s[1] \in Nat
  BY <1>5
<1> QED
  BY SMTT(30), <1>5, <1>7, <1>8, <1>9, <1>10

\* The policies a starting client fetches: all of them, one after the other.
LEMMA FetchedPolicies ==
  ASSUME TypeOK, NEW from \in Int, NEW s \in FetchExistingSigningPolicies(from)
  PROVE  LET logs == FetchSigningPolicies(from)
         IN  /\ s \in Seq(RewardEpoch)
             /\ Consecutive(s)
             /\ \A k \in DOMAIN s : /\ StartingRewardEpoch <= s[k]
                                    /\ \E i \in logs : blocks[i].policy = s[k]
             /\ \A i \in logs : StartingRewardEpoch <= blocks[i].policy =>
                                  \E k \in DOMAIN s : s[k] = blocks[i].policy
<1> DEFINE logs == FetchSigningPolicies(from)
           S == {blocks[i].policy : i \in logs} \ 0 .. StartingRewardEpoch - 1
<1>1. logs \subseteq Published
  BY FetchType DEF FetchSigningPolicies
<1>2. \A i \in logs : blocks[i].policy \in RewardEpoch /\ blocks[i].policy \in Nat
  BY <1>1, BlockType
<1>3. StartingRewardEpoch \in Nat
  BY ClientAssumption
<1>4. S \subseteq RewardEpoch /\ S \in SUBSET Nat
  BY <1>2
<1>5. /\ s \in UNION {[1 .. m -> S] : m \in 0 .. Len(blocks)}
      /\ \A e \in S : \E k \in DOMAIN s : s[k] = e
      /\ \A k \in 1 .. Len(s) - 1 : s[k] < s[k + 1] /\ CanAddPolicy(SubSeq(s, 1, k), s[k + 1])
  BY DEF FetchExistingSigningPolicies
<1>6. /\ \A e \in S : StartingRewardEpoch <= e /\ \E i \in logs : blocks[i].policy = e
      /\ \A i \in logs : StartingRewardEpoch <= blocks[i].policy => blocks[i].policy \in S
  BY SMTT(30), <1>2, <1>3
<1> HIDE DEF S, logs
<1>7. PICK n \in 0 .. Len(blocks) : s \in [1 .. n -> S]
  BY <1>5
<1>8. n \in Nat
  BY SMTT(30), <1>7
<1>9. s \in [1 .. n -> Nat] /\ s \in [1 .. n -> RewardEpoch]
  BY <1>4, <1>7
<1>10. s \in Seq(RewardEpoch) /\ Len(s) = n /\ DOMAIN s = 1 .. n
  BY SMTT(30), <1>8, <1>9
<1>11. ASSUME NEW k \in 1 .. n - 1 PROVE s[k + 1] = s[k] + 1
  <2>1. k \in 1 .. n /\ k + 1 \in 1 .. n
    BY SMTT(30), <1>8
  <2>2. SubSeq(s, 1, k) # <<>> /\ Len(SubSeq(s, 1, k)) = k /\ SubSeq(s, 1, k)[k] = s[k]
    BY SMTT(30), <1>10, <2>1
  <2>3. CanAddPolicy(SubSeq(s, 1, k), s[k + 1])
    BY <1>5, <1>10
  <2>4. s[k] = s[k + 1] - 1
    BY <2>2, <2>3 DEF CanAddPolicy
  <2>5. s[k] \in Nat /\ s[k + 1] \in Nat
    BY <1>9, <2>1
  <2> QED
    BY SMTT(30), <2>4, <2>5
<1>12. Consecutive(s)
  BY <1>8, <1>9, <1>11, AdjacentConsecutive
<1>13. \A k \in 1 .. n : s[k] \in S
  BY <1>7
<1> QED
  BY <1>5, <1>6, <1>10, <1>12, <1>13 DEF logs

\* fetchExistingSigningPolicies fills the store with policies, and the listeners
\* start to read at an integer time.
LEMMA StartType ==
  ASSUME TypeOK, NEW from \in Int
  PROVE  /\ FetchExistingSigningPolicies(from) \subseteq Seq(RewardEpoch)
         /\ ListenFrom(from) \in Int
<1>1. FetchExistingSigningPolicies(from) \subseteq Seq(RewardEpoch)
  BY FetchedPolicies
<1>2. PICK logs : logs = FetchSigningPolicies(from)
  OBVIOUS
<1>3. /\ logs \subseteq Published
      /\ logs = {} => ListenFrom(from) = from
      /\ logs # {} => \E i \in logs : ListenFrom(from) = blocks[i].ts
  BY <1>2, ListenFromLast
<1>4. \A i \in Published : blocks[i].ts \in Nat
  BY BlockType
<1> QED
  BY SMTT(30), <1>1, <1>3, <1>4

\* The parts of the state that an action of one goroutine leaves alone keep
\* their types; the blocks only grow.
EnvType ==
  /\ now \in Nat /\ script \in Scripts /\ blocks \in Seq(Block)

ProcType ==
  /\ running \in BOOLEAN /\ restarts \in Nat
  /\ startingVotingRound \in Int /\ startTime \in Int

PolicyType ==
  /\ spList \in Seq(RewardEpoch) /\ spPc \in {"wait", "cleanup", "remove"}
  /\ spRemoved \subseteq RewardEpoch
  /\ spCursor \in Int /\ spBatch \subseteq Published /\ spChan \in Seq(RewardEpoch)

TxType ==
  /\ subCursor \in Int /\ subPc \in {"loop", "lookup", "first", "add"}
  /\ subBatch \subseteq {i \in DOMAIN blocks : blocks[i].tx # NoTx}
  /\ subPc # "loop" => /\ subTx \in DOMAIN blocks /\ blocks[subTx].tx # NoTx
                       /\ subItem \in DOMAIN blocks[subTx].tx
  /\ subLookup \in Lookup /\ (subPc = "add" => subLookup.sp # NoPolicy)

StoreType ==
  /\ subs \in [Message -> MessageData]
  /\ queue \in Seq(QueueItem) /\ enqueued \in [Message -> Nat]

\* The type invariant falls into the types of the parts of the state.
LEMMA TypeParts ==
  /\ TypeOK <=> EnvType /\ ProcType /\ PolicyType /\ TxType /\ StoreType
  /\ TypeOK' <=> EnvType' /\ ProcType' /\ PolicyType' /\ TxType' /\ StoreType'
  BY DEF TypeOK, EnvType, ProcType, PolicyType, TxType, StoreType

\* FinishTx and NextItem keep the position of the transaction listener valid.
LEMMA NextItemType ==
  ASSUME TypeOK, subPc # "loop", NextItem, UNCHANGED blocks
  PROVE  TxType'
<1>1. subTx \in DOMAIN blocks /\ blocks[subTx].tx # NoTx /\ subItem \in DOMAIN blocks[subTx].tx
  BY DEF TypeOK
<1>2. blocks[subTx] \in Block
  BY SMTT(30), <1>1 DEF TypeOK
<1>3. blocks[subTx].tx \in Seq(SubmitterPayloadItem) /\ blocks[subTx].ts \in Nat
  BY <1>1, <1>2, ClientAssumption DEF Block, ClientAssumption
<1>4. NoLookup \in Lookup
  BY SMTT(30), MaxUint16Type DEF NoLookup, Lookup
<1>5. CASE subItem < Len(blocks[subTx].tx)
  <2>1. subItem + 1 \in DOMAIN blocks[subTx].tx
    BY SMTT(30), <1>1, <1>3, <1>5
  <2>2. QED
    BY <1>1, <1>4, <1>5, <2>1 DEF NextItem, TypeOK, TxType
<1>6. CASE ~(subItem < Len(blocks[subTx].tx))
  BY SMTT(30), <1>3, <1>4, <1>6 DEF NextItem, FinishTx, TypeOK, TxType
<1>7. QED
  BY <1>5, <1>6

\* The initial state is well typed.
LEMMA InitTypeOK == Init => TypeOK
<1>1. SUFFICES ASSUME Init PROVE TypeOK
  OBVIOUS
<1>2. EnvType /\ ProcType /\ PolicyType
  <2>1. EnvType
    BY SMTT(30), <1>1, ClientAssumption DEF Init, EnvType, ClientAssumption
  <2>2. ProcType
    <3>1. running \in BOOLEAN
      BY <1>1 DEF Init
    <3>2. restarts \in Nat /\ startingVotingRound \in Int /\ startTime \in Int
      BY SMTT(30), <1>1 DEF Init
    <3>3. QED
      BY <3>1, <3>2 DEF ProcType
  <2>3. PolicyType
    BY SMTT(30), <1>1 DEF Init, PolicyType
  <2>4. QED
    BY <2>1, <2>2, <2>3
<1>3. TxType
  BY SMTT(30), <1>1, MaxUint16Type DEF Init, TxType, NoLookup, Lookup
<1>4. StoreType
  BY SMTT(30), <1>1, MaxUint16Type DEF Init, StoreType, NoData, NewMessageData, MessageData
<1>5. QED
  BY <1>2, <1>3, <1>4, TypeParts

\* The environment keeps the state well typed.
LEMMA EnvironmentTypeOK == TypeOK /\ Environment => TypeOK'
<1>1. ASSUME TypeOK, Tick PROVE TypeOK'
  BY SMTT(30), <1>1 DEF Tick, TypeOK, Published, procVars, pollVars, policyVars, txVars, storeVars
<1>2. ASSUME TypeOK, NEW ts \in Int, IndexBlock(ts) PROVE TypeOK'
  <2> DEFINE next == script[Len(blocks) + 1]
             new == [ts |-> ts, policy |-> next.policy, tx |-> next.tx]
  <2>1. script \in Seq(Content)
    BY <1>2, ClientAssumption DEF TypeOK, ClientAssumption
  <2>2. next \in Content
    BY SMTT(30), <1>2, <2>1 DEF IndexBlock, TypeOK
  <2>3. new \in Block
    BY SMTT(30), <1>2, <2>2 DEF IndexBlock, Content, Block
  <2> HIDE DEF new
  <2>4. blocks' = Append(blocks, new) /\ blocks \in Seq(Block)
    BY <1>2 DEF IndexBlock, TypeOK, new
  <2>5. /\ blocks' \in Seq(Block)
        /\ DOMAIN blocks \subseteq DOMAIN blocks'
        /\ \A i \in DOMAIN blocks : blocks'[i] = blocks[i]
    BY SMTT(30), <2>3, <2>4
  <2>6. UNCHANGED <<now, script, procVars, pollVars, policyVars, txVars, storeVars>>
    BY <1>2 DEF IndexBlock
  <2>7. Published \subseteq Published'
    BY <2>5 DEF Published
  <2>8. EnvType' /\ ProcType' /\ PolicyType'
    BY <1>2, <2>5, <2>6, <2>7, TypeParts
       DEF EnvType, ProcType, PolicyType, procVars, pollVars, policyVars
  <2>9. TxType' /\ StoreType'
    BY <1>2, <2>5, <2>6, TypeParts DEF TxType, StoreType, txVars, storeVars
  <2>10. QED
    BY <2>8, <2>9, TypeParts
<1>3. ASSUME TypeOK PROVE \A ts \in now - MaxLag .. now : ts \in Int
  BY SMTT(30), <1>3, ClientAssumption DEF TypeOK, ClientAssumption
<1>4. QED
  BY <1>1, <1>2, <1>3 DEF Environment

\* Starting and stopping the process keeps the state well typed.
LEMMA ProcessTypeOK == TypeOK /\ (Start \/ Stop) => TypeOK'
<1>1. ASSUME TypeOK, Start PROVE TypeOK'
  <2> DEFINE from == now - StartTimeOffset
  <2>1. from \in Int
    BY SMTT(30), <1>1, ClientAssumption DEF TypeOK, ClientAssumption
  <2>2. /\ FetchExistingSigningPolicies(from) \subseteq Seq(RewardEpoch)
        /\ ListenFrom(from) \in Int
    BY <1>1, <2>1, StartType
  <2>3. FirstVotingRound \in Int
    BY SMTT(30), <1>1, VotingRoundType, ClientAssumption DEF FirstVotingRound, TypeOK, ClientAssumption
  <2>4. EnvType' /\ StoreType'
    BY <1>1, TypeParts DEF Start, EnvType, StoreType, envVars, storeVars
  <2>5. ProcType'
    <3>1. running' \in BOOLEAN
      BY <1>1 DEF Start
    <3>2. restarts' \in Nat /\ startingVotingRound' \in Int /\ startTime' \in Int
      BY <1>1, <2>2, <2>3 DEF Start, TypeOK
    <3>3. QED
      BY <3>1, <3>2 DEF ProcType
  <2>6. PolicyType' /\ TxType'
    BY <1>1, <2>2, TypeParts DEF Start, PolicyType, TxType, Published, envVars
  <2>7. QED
    BY <2>4, <2>5, <2>6, TypeParts
<1>2. ASSUME TypeOK, Stop PROVE TypeOK'
  <2>1. EnvType'
    BY <1>2, TypeParts DEF Stop, EnvType, envVars
  <2>2. ProcType'
    <3>1. running' \in BOOLEAN
      BY <1>2 DEF Stop
    <3>2. restarts' \in Nat /\ startingVotingRound' \in Int /\ startTime' \in Int
      BY SMTT(30), <1>2 DEF Stop, TypeOK
    <3>3. QED
      BY <3>1, <3>2 DEF ProcType
  <2>3. PolicyType'
    BY SMTT(30), <1>2 DEF Stop, PolicyType
  <2>4. TxType'
    BY SMTT(30), <1>2, MaxUint16Type DEF Stop, TxType, NoLookup, Lookup
  <2>5. StoreType'
    BY SMTT(30), <1>2, MaxUint16Type DEF Stop, StoreType, NoData, NewMessageData, MessageData
  <2>6. QED
    BY <2>1, <2>2, <2>3, <2>4, <2>5, TypeParts
<1>3. QED
  BY <1>1, <1>2

\* The poller and the consumer of policies keep the state well typed.
LEMMA PolicyListenerTypeOK == TypeOK /\ PolicyListener => TypeOK'
<1> SUFFICES ASSUME TypeOK, PolicyListener PROVE TypeOK'
  OBVIOUS
<1>1. EnvType' /\ ProcType' /\ TxType' /\ UNCHANGED blocks
  BY TypeParts DEF PolicyListener, FetchPolicyLogs, SendPolicy, PolicyParseError, ReceivePolicy,
     RewardEpochCleanup, RemoveSubmissions, EnvType, ProcType, TxType, envVars, procVars, txVars
<1>2. PolicyType' /\ StoreType'
  <2>1. CASE FetchPolicyLogs
    BY <2>1, TypeParts, FetchType
       DEF FetchPolicyLogs, PolicyType, StoreType, Published, envVars, policyVars, storeVars
  <2>2. CASE SendPolicy
    <3>1. PICK i \in Earliest(spBatch) :
             /\ spChan' = Append(spChan, blocks[i].policy)
             /\ spCursor' = blocks[i].ts
             /\ spBatch' = spBatch \ {i}
      BY <2>2 DEF SendPolicy
    <3>2. i \in Published
      BY <3>1, TypeParts DEF Earliest, PolicyType
    <3>3. blocks[i].policy \in RewardEpoch /\ blocks[i].ts \in Nat
      <4>1. i \in DOMAIN blocks /\ blocks[i].policy # NoPolicy
        BY <3>2 DEF Published
      <4>2. blocks[i] \in Block
        BY SMTT(30), <4>1 DEF TypeOK
      <4>3. QED
        BY <4>1, <4>2 DEF Block
    <3>4. QED
      BY SMTT(30), <2>2, <3>1, <3>3, TypeParts
         DEF SendPolicy, PolicyType, StoreType, Published, envVars, policyVars, storeVars
  <2>3. CASE PolicyParseError
    BY <2>3, TypeParts DEF PolicyParseError, PolicyType, StoreType, policyVars, storeVars
  <2>4. CASE ReceivePolicy
    <3>1. spChan \in Seq(RewardEpoch) /\ spChan # <<>> /\ spList \in Seq(RewardEpoch)
      BY <2>4 DEF ReceivePolicy, TypeOK
    <3>2. Head(spChan) \in RewardEpoch /\ Tail(spChan) \in Seq(RewardEpoch)
      BY SMTT(30), <3>1
    <3>3. AddPolicy(spList, Head(spChan)) \in Seq(RewardEpoch)
      BY SMTT(30), <3>1, <3>2 DEF AddPolicy
    <3>4. QED
      BY <2>4, <3>2, <3>3, TypeParts
         DEF ReceivePolicy, PolicyType, StoreType, Published, envVars, storeVars
  <2>5. CASE RewardEpochCleanup
    <3>1. CleanupRound \in Int
      BY SMTT(30), VotingRoundType, ClientAssumption DEF CleanupRound, TypeOK, ClientAssumption
    <3>2. /\ RemoveByVotingRound(spList, CleanupRound) \in Seq(RewardEpoch)
          /\ RemovedEpochIds(spList, CleanupRound) \subseteq RewardEpoch
      BY <3>1, RemoveSpec DEF TypeOK
    <3>3. QED
      BY <2>5, <3>2, TypeParts
         DEF RewardEpochCleanup, PolicyType, StoreType, Published, envVars, pollVars, storeVars
  <2>6. CASE RemoveSubmissions
    <3>1. NoData \in MessageData
      BY SMTT(30), MaxUint16Type DEF NoData, NewMessageData, MessageData
    <3>2. subs' \in [Message -> MessageData]
      BY <2>6, <3>1 DEF RemoveSubmissions, RemoveVotingRoundIds, TypeOK
    <3>3. QED
      BY <2>6, <3>2, TypeParts
         DEF RemoveSubmissions, PolicyType, StoreType, Published, envVars, pollVars
  <2>7. QED
    BY <2>1, <2>2, <2>3, <2>4, <2>5, <2>6 DEF PolicyListener
<1>3. QED
  BY <1>1, <1>2, TypeParts

\* The transaction listener keeps the state well typed.
LEMMA TxListenerTypeOK == TypeOK /\ TxListener => TypeOK'
<1> SUFFICES ASSUME TypeOK, TxListener PROVE TypeOK'
  OBVIOUS
<1>1. EnvType' /\ ProcType' /\ PolicyType' /\ UNCHANGED blocks
  BY TypeParts DEF TxListener, FetchTransactions, TakeTx, LookUpPolicy, CheckFirstPolicy, AddSignature,
     EnvType, ProcType, PolicyType, Published, envVars, procVars, pollVars, policyVars
<1>2. TxType' /\ StoreType'
  <2>1. CASE FetchTransactions
    BY <1>1, <2>1, TypeParts, FetchType DEF FetchTransactions, TxType, StoreType, storeVars
  <2>2. CASE TakeTx
    <3>1. PICK i \in Earliest(subBatch) :
             /\ subBatch' = subBatch \ {i}
             /\ IF blocks[i].tx = <<>> THEN FinishTx(i)
                ELSE /\ subTx' = i /\ subItem' = 1 /\ subPc' = "lookup"
                     /\ UNCHANGED subCursor
      BY <2>2 DEF TakeTx
    <3>2. i \in DOMAIN blocks /\ blocks[i].tx # NoTx
      BY <3>1, TypeParts DEF Earliest, TxType
    <3>3. blocks[i] \in Block
      BY SMTT(30), <3>2 DEF TypeOK
    <3>4. blocks[i].ts \in Nat /\ blocks[i].tx \in Seq(SubmitterPayloadItem)
      BY <3>2, <3>3, ClientAssumption DEF Block, ClientAssumption
    <3>5. blocks[i].tx # <<>> => 1 \in DOMAIN blocks[i].tx
      BY SMTT(30), <3>4
    <3>6. TxType'
      BY SMTT(30), <1>1, <2>2, <3>1, <3>2, <3>4, <3>5, TypeParts DEF TakeTx, FinishTx, TxType
    <3>7. QED
      BY <2>2, <3>6, TypeParts DEF TakeTx, StoreType, storeVars
  <2>3. CASE LookUpPolicy
    <3>1. StoreType'
      BY <2>3, TypeParts DEF LookUpPolicy, StoreType, storeVars
    <3>2. CASE NextItem
      BY <1>1, <2>3, <3>1, <3>2, NextItemType DEF LookUpPolicy
    <3>3. CASE ~NextItem
      <4>1. SigningPolicyData(Round) \in Lookup
        BY SMTT(30), <2>3, ItemType, SigningPolicyDataSpec DEF LookUpPolicy, TypeOK
      <4>2. TxType'
        BY <1>1, <2>3, <3>3, <4>1, TypeParts DEF LookUpPolicy, TxType
      <4>3. QED
        BY <3>1, <4>2
    <3>4. QED
      BY <3>2, <3>3
  <2>4. CASE CheckFirstPolicy
    <3>1. StoreType'
      BY <2>4, TypeParts DEF CheckFirstPolicy, StoreType, storeVars
    <3>2. CASE NextItem
      BY <1>1, <2>4, <3>1, <3>2, NextItemType DEF CheckFirstPolicy
    <3>3. CASE ~NextItem
      BY <1>1, <2>4, <3>1, <3>3, TypeParts DEF CheckFirstPolicy, TxType
    <3>4. QED
      BY <3>2, <3>3
  <2>5. CASE AddSignature
    <3>1. TxType'
      BY <1>1, <2>5, NextItemType DEF AddSignature
    <3>2. StoreType'
      <4> DEFINE m == Item.message
                 md == AddSubmission(subs[m], Item.signer, subLookup.sp, subLookup.threshold)
                 new == [protocolId |-> Item.protocolId, votingRoundId |-> Round,
                         message |-> m, seed |-> subLookup.sp]
      <4>1. m \in Message /\ Item.signer \in Voter /\ Item.protocolId \in Protocol /\ Round \in Nat
        BY ZenonT(30), <2>5, ItemType DEF AddSignature, SubmitterPayloadItem
      <4>2. subLookup.sp \in RewardEpoch /\ subLookup.threshold \in 0 .. MaxUint16
        BY <2>5 DEF AddSignature, TypeOK, Lookup
      <4>3. md \in MessageData
        BY <4>1, <4>2, AddSubmissionSpec DEF TypeOK
      <4>4. new \in QueueItem
        BY SMTT(30), <4>1, <4>2 DEF QueueItem
      <4> HIDE DEF m, md, new
      <4>5. /\ subs' = [subs EXCEPT ![m] = md]
            /\ \/ /\ queue' = Append(queue, new)
                  /\ enqueued' = [enqueued EXCEPT ![m] = @ + 1]
               \/ UNCHANGED <<queue, enqueued>>
        BY <2>5 DEF AddSignature, m, md, new
      <4>6. subs' \in [Message -> MessageData]
        BY <4>3, <4>5 DEF TypeOK
      <4>7. queue' \in Seq(QueueItem)
        <5>1. queue \in Seq(QueueItem)
          BY DEF TypeOK
        <5>2. QED
          BY SMTT(30), <4>4, <4>5, <5>1
      <4>8. enqueued' \in [Message -> Nat]
        <5>1. enqueued \in [Message -> Nat]
          BY DEF TypeOK
        <5>2. QED
          BY SMTT(30), <4>1, <4>5, <5>1
      <4>9. QED
        BY <4>6, <4>7, <4>8 DEF StoreType
    <3>3. QED
      BY <3>1, <3>2
  <2>6. QED
    BY <2>1, <2>2, <2>3, <2>4, <2>5 DEF TxListener
<1>3. QED
  BY <1>1, <1>2, TypeParts

\* The state is well typed; in particular the transaction listener never leaves
\* the payload of the transaction it is processing, and a signature is only
\* stored with the policy that was found for it.
THEOREM TypeCorrect == Spec => []TypeOK
<1>1. TypeOK /\ [Next]_vars => TypeOK'
  <2> SUFFICES ASSUME TypeOK, [Next]_vars PROVE TypeOK'
    OBVIOUS
  <2>1. CASE UNCHANGED vars
    BY <2>1 DEF vars, envVars, procVars, pollVars, policyVars, txVars, storeVars, TypeOK, Published
  <2>2. QED
    BY <2>1, EnvironmentTypeOK, ProcessTypeOK, PolicyListenerTypeOK, TxListenerTypeOK DEF Next
<1>2. QED
  BY <1>1, InitTypeOK, PTL DEF Spec

(***************************************************************************)
(* Weights and the queue.                                                  *)
(***************************************************************************)

\* The cleanup leaves every entry alone or takes it away as a whole, and only takes
\* away messages whose voting round is the number of a reward epoch.
LEMMA CleanupEntries ==
  ASSUME TypeOK, RemoveSubmissions
  PROVE  /\ \A m \in Message : subs'[m] = subs[m] \/ subs'[m] = NoData
         /\ \A m \in Message : Kept(m) => subs'[m] = subs[m]
         /\ enqueued' = enqueued
<1>1. subs' = [m \in Message |-> IF RoundOf[m] \in spRemoved THEN NoData ELSE subs[m]]
  BY DEF RemoveSubmissions, RemoveVotingRoundIds
<1>2. spRemoved \subseteq RewardEpoch /\ enqueued' = enqueued
  BY DEF TypeOK, RemoveSubmissions
<1>3. QED
  BY <1>1, <1>2 DEF Kept

\* What a step does to the stored submissions: it keeps them and their counts, it
\* ends the process, it cleans up, or it adds one signature.
LEMMA StoreSteps ==
  ASSUME [Next]_vars
  PROVE  UNCHANGED <<subs, enqueued>> \/ Stop \/ RemoveSubmissions \/ AddSignature
  BY DEF Next, Environment, Tick, IndexBlock, Start, PolicyListener, FetchPolicyLogs, SendPolicy,
         PolicyParseError, ReceivePolicy, RewardEpochCleanup, TxListener,
         FetchTransactions, TakeTx, LookUpPolicy, CheckFirstPolicy, vars, storeVars

\* One signature added to a state in which the counts are right: the entry of its
\* message stays right and only grows, every other entry stays as it is.
LEMMA AddSignatureCounts ==
  ASSUME CountInv, AddSignature
  PROVE  \E m \in Message : \E md \in MessageData :
           /\ subs' = [subs EXCEPT ![m] = md]
           /\ md.policy \in RewardEpoch
           /\ md.payload \subseteq VotersOf[md.policy]
           /\ md.weight = WeightOf[md.policy][md.payload]
           /\ Stored(m) => md.policy = subs[m].policy /\ subs[m].payload \subseteq md.payload
           /\ subs[m].thresholdReached => md.thresholdReached
           /\ enqueued' \in [Message -> Nat] /\ \A n \in Message \ {m} : enqueued'[n] = enqueued[n]
           /\ Kept(m) => enqueued'[m] = IF md.thresholdReached THEN 1 ELSE 0
<1> DEFINE m == Item.message
           md == AddSubmission(subs[m], Item.signer, subLookup.sp, subLookup.threshold)
<1>1. m \in Message /\ Item.signer \in Voter
  BY ItemType DEF AddSignature, CountInv, SubmitterPayloadItem
<1>2. subLookup.sp \in RewardEpoch /\ subLookup.threshold \in 0 .. MaxUint16
  BY DEF AddSignature, CountInv, TypeOK, Lookup
<1>3. subs[m] \in MessageData /\ subs \in [Message -> MessageData] /\ enqueued \in [Message -> Nat]
  BY <1>1 DEF CountInv, TypeOK
<1>4. /\ md \in MessageData
      /\ md.policy = IF subs[m].policy = NoPolicy THEN subLookup.sp ELSE subs[m].policy
      /\ Stored(m) => /\ subs[m].payload \subseteq md.payload
                      /\ subs[m].thresholdReached => md.thresholdReached
  BY <1>1, <1>2, <1>3, AddSubmissionSpec DEF Stored
<1>5. md.payload \subseteq VotersOf[md.policy] /\ md.weight = WeightOf[md.policy][md.payload]
  <2>1. Stored(m) => /\ subs[m].payload \subseteq VotersOf[subs[m].policy]
                     /\ subs[m].weight = WeightOf[subs[m].policy][subs[m].payload]
    BY <1>1 DEF CountInv, WeightIsSum
  <2>2. QED
    BY <1>1, <1>2, <1>3, <2>1, AddSubmissionWeight DEF Stored
<1>6. subs' = [subs EXCEPT ![m] = md]
  BY DEF AddSignature
<1>7. CrossedThreshold(subs[m], md) => enqueued' = [enqueued EXCEPT ![m] = @ + 1]
  BY DEF AddSignature
<1>8. ~CrossedThreshold(subs[m], md) => enqueued' = enqueued
  BY DEF AddSignature
<1> HIDE DEF m, md
<1>10. md.policy \in RewardEpoch
  BY <1>2, <1>3, <1>4 DEF MessageData
<1>11. subs[m].thresholdReached => md.thresholdReached
  <2>1. ~Stored(m) => subs[m] = NoData
    BY <1>1 DEF CountInv
  <2>2. ~NoData.thresholdReached
    BY DEF NoData, NewMessageData
  <2>3. QED
    BY <1>4, <2>1, <2>2
<1>9. enqueued' \in [Message -> Nat] /\ \A n \in Message \ {m} : enqueued'[n] = enqueued[n]
  BY SMTT(30), <1>1, <1>3, <1>7, <1>8
<1>12. ASSUME Kept(m) PROVE enqueued'[m] = IF md.thresholdReached THEN 1 ELSE 0
  <2>1. enqueued[m] = IF subs[m].thresholdReached THEN 1 ELSE 0
    BY <1>1, <1>12 DEF CountInv, EnqueuedOnce
  <2>2. CASE CrossedThreshold(subs[m], md)
    <3>1. enqueued[m] = 0 /\ md.thresholdReached
      BY <2>1, <2>2 DEF CrossedThreshold
    <3>2. QED
      BY SMTT(30), <1>1, <1>3, <1>7, <2>2, <3>1
  <2>3. CASE ~CrossedThreshold(subs[m], md)
    <3>1. enqueued[m] = IF md.thresholdReached THEN 1 ELSE 0
      BY <1>11, <2>1, <2>3 DEF CrossedThreshold
    <3>2. QED
      BY <1>3, <1>8, <2>3, <3>1
  <2>4. QED
    BY <2>2, <2>3
<1>13. Stored(m) => md.policy = subs[m].policy /\ subs[m].payload \subseteq md.payload
  BY <1>4 DEF Stored
<1>14. QED
  BY ZenonT(30), <1>1, <1>4, <1>5, <1>6, <1>9, <1>10, <1>11, <1>12, <1>13

\* CountInv is inductive.
LEMMA CountInvInit == Init => CountInv
<1>1. SUFFICES ASSUME Init PROVE CountInv
  OBVIOUS
<1>2. \A m \in Message : subs[m] = NoData /\ enqueued[m] = 0 /\ ~Stored(m)
  BY <1>1 DEF Init, Stored, NoData, NewMessageData
<1>3. ~NoData.thresholdReached
  BY DEF NoData, NewMessageData
<1>4. WeightIsSum
  BY <1>2 DEF WeightIsSum
<1>5. EnqueuedOnce
  BY <1>2, <1>3 DEF EnqueuedOnce
<1>6. QED
  BY <1>1, <1>2, <1>4, <1>5, InitTypeOK DEF CountInv

\* Every step of the client keeps the counts right: only AddSignature, the cleanup
\* and a stop change the stored submissions.
LEMMA CountInvStep ==
  ASSUME CountInv, [Next]_vars
  PROVE  WeightIsSum' /\ EnqueuedOnce' /\ \A m \in Message : Stored(m)' \/ subs'[m] = NoData
<1>1. NoData.policy = NoPolicy /\ ~NoData.thresholdReached
  BY DEF NoData, NewMessageData
<1>2. CASE UNCHANGED <<subs, enqueued>>
  BY <1>2 DEF CountInv, WeightIsSum, EnqueuedOnce, Stored
<1>3. CASE Stop
  <2>1. \A m \in Message : subs'[m] = NoData /\ enqueued'[m] = 0
    BY <1>3 DEF Stop
  <2>2. QED
    BY <1>1, <2>1 DEF WeightIsSum, EnqueuedOnce, Stored
<1>4. CASE RemoveSubmissions
  <2>1. /\ \A m \in Message : subs'[m] = subs[m] \/ subs'[m] = NoData
        /\ \A m \in Message : Kept(m) => subs'[m] = subs[m]
        /\ enqueued' = enqueued
    BY <1>4, CleanupEntries DEF CountInv
  <2>2. WeightIsSum'
    BY <1>1, <2>1 DEF CountInv, WeightIsSum, Stored
  <2>3. EnqueuedOnce'
    BY <2>1 DEF CountInv, EnqueuedOnce, Kept
  <2>4. QED
    BY <2>1, <2>2, <2>3 DEF CountInv, Stored
<1>5. CASE AddSignature
  <2>1. PICK m \in Message, md \in MessageData :
           /\ subs' = [subs EXCEPT ![m] = md]
           /\ md.policy \in RewardEpoch
           /\ md.payload \subseteq VotersOf[md.policy]
           /\ md.weight = WeightOf[md.policy][md.payload]
           /\ \A n \in Message \ {m} : enqueued'[n] = enqueued[n]
           /\ Kept(m) => enqueued'[m] = IF md.thresholdReached THEN 1 ELSE 0
    BY <1>5, AddSignatureCounts
  <2>2. subs \in [Message -> MessageData]
    BY DEF CountInv, TypeOK
  <2>3. subs'[m] = md /\ \A n \in Message \ {m} : subs'[n] = subs[n]
    BY <2>1, <2>2
  <2>4. md.policy # NoPolicy
    BY SMTT(30), <2>1, PolicyAssumption DEF PolicyAssumption, NoPolicy
  <2>5. \A n \in Message : Stored(n)' \/ subs'[n] = NoData
    BY <2>3, <2>4 DEF CountInv, Stored
  <2>6. WeightIsSum'
    BY <2>1, <2>3 DEF CountInv, WeightIsSum, Stored
  <2>7. EnqueuedOnce'
    BY <2>1, <2>3 DEF CountInv, EnqueuedOnce, Kept
  <2>8. QED
    BY <2>5, <2>6, <2>7
<1>6. QED
  BY <1>2, <1>3, <1>4, <1>5, StoreSteps

\* The inductive invariant behind WeightCorrect and QueuedOnce.
LEMMA CountInvariant == Spec => []CountInv
<1>1. CountInv /\ [Next]_vars /\ TypeOK' => CountInv'
  BY CountInvStep DEF CountInv
<1>2. QED
  BY <1>1, CountInvInit, TypeCorrect, PTL DEF Spec

\* Whatever the chain contains, however late policies come and however often the
\* process restarts, the weight of a message is the weight of its distinct
\* registered signers.
THEOREM WeightCorrect == Spec => []WeightIsSum
<1>1. CountInv => WeightIsSum
  BY DEF CountInv
<1>2. QED
  BY <1>1, CountInvariant, PTL

\* A message is put on the finalization queue once, when it crosses its threshold,
\* unless the cleanup takes its voting round for a reward epoch.
THEOREM QueuedOnce == Spec => []EnqueuedOnce
<1>1. CountInv => EnqueuedOnce
  BY DEF CountInv
<1>2. QED
  BY <1>1, CountInvariant, PTL

\* A running process keeps an entry that the cleanup cannot hit: under its policy,
\* with the signatures it has.
LEMMA EntryGrows ==
  ASSUME CountInv, [Next]_vars, running', NEW m \in Message, Kept(m), Stored(m)
  PROVE  /\ subs'[m].policy = subs[m].policy
         /\ subs[m].payload \subseteq subs'[m].payload
         /\ subs[m].thresholdReached => subs'[m].thresholdReached
<1>1. CASE UNCHANGED subs
  BY <1>1
<1>2. CASE Stop
  BY <1>2 DEF Stop
<1>3. CASE RemoveSubmissions
  <2>1. subs'[m] = subs[m]
    BY <1>3, CleanupEntries DEF CountInv
  <2>2. QED
    BY <2>1
<1>4. CASE AddSignature
  <2>1. PICK n \in Message, md \in MessageData :
           /\ subs' = [subs EXCEPT ![n] = md]
           /\ Stored(n) => md.policy = subs[n].policy /\ subs[n].payload \subseteq md.payload
           /\ subs[n].thresholdReached => md.thresholdReached
    BY <1>4, AddSignatureCounts
  <2>2. subs \in [Message -> MessageData]
    BY DEF CountInv, TypeOK
  <2>3. subs'[n] = md /\ \A k \in Message \ {n} : subs'[k] = subs[k]
    BY <2>1, <2>2
  <2>4. QED
    BY <2>1, <2>3
<1>5. QED
  BY <1>1, <1>2, <1>3, <1>4, StoreSteps

\* No step of the running client moves the stored signatures of a message to another
\* policy or takes them away, if the cleanup cannot take its round for a reward epoch.
THEOREM Accumulating == Spec => SignaturesAccumulate
<1> DEFINE Grow == \A m \in Message : (Kept(m) /\ Stored(m)) =>
             /\ subs'[m].policy = subs[m].policy
             /\ subs[m].payload \subseteq subs'[m].payload
             /\ subs[m].thresholdReached => subs'[m].thresholdReached
<1>1. CountInv /\ [Next]_vars => [running' => Grow]_vars
  BY EntryGrows
<1>2. QED
  BY <1>1, CountInvariant, PTL DEF Spec, SignaturesAccumulate

(***************************************************************************)
(* The blocks in the database.                                             *)
(***************************************************************************)

\* The blocks in the database: in the order of their timestamps, and with the
\* policies in the order of their reward epochs, none of them left out.
ChainInv ==
  /\ Len(blocks) <= Len(script)
  /\ \A i \in DOMAIN blocks : blocks[i].policy = script[i].policy /\ blocks[i].ts <= now
  /\ \A i, j \in DOMAIN blocks : i < j => blocks[i].ts <= blocks[j].ts
  /\ \A i, j \in Published :
       i < j => blocks[i].ts < blocks[j].ts /\ blocks[i].policy < blocks[j].policy
  /\ \A i, j \in Published : \A e \in blocks[i].policy .. blocks[j].policy :
       \E k \in Published : blocks[k].policy = e

\* Later times are in later voting rounds.
LEMMA RoundMonotone ==
  ASSUME NEW s \in Int, NEW t \in Int, s <= t
  PROVE  VotingRoundAt(s) <= VotingRoundAt(t)
<1>1. VotingPeriod \in Nat \ {0}
  BY PolicyAssumption DEF PolicyAssumption
<1>2. ASSUME NEW x \in Nat, NEW y \in Nat, x <= y PROVE x \div VotingPeriod <= y \div VotingPeriod
  BY SMTT(30), <1>1, <1>2
<1>3. VotingRoundAt(s) = TruncDiv(s, VotingPeriod) /\ VotingRoundAt(t) = TruncDiv(t, VotingPeriod)
  BY SMTT(30) DEF VotingRoundAt, EpochIndex
<1>4. CASE s >= 0
  <2>1. s \div VotingPeriod <= t \div VotingPeriod
    BY SMTT(30), <1>2, <1>4
  <2> QED
    BY SMTT(30), <1>3, <1>4, <2>1 DEF TruncDiv
<1>5. CASE s < 0 /\ t >= 0
  <2>1. t \div VotingPeriod \in Nat /\ (-s) \div VotingPeriod \in Nat
    BY SMTT(30), <1>1, <1>5
  <2> QED
    BY SMTT(30), <1>3, <1>5, <2>1 DEF TruncDiv
<1>6. CASE s < 0 /\ t < 0
  <2>1. (-t) \div VotingPeriod <= (-s) \div VotingPeriod
    BY SMTT(30), <1>2, <1>6
  <2>2. (-t) \div VotingPeriod \in Int /\ (-s) \div VotingPeriod \in Int
    BY SMTT(30), <1>1, <1>6
  <2> QED
    BY SMTT(30), <1>3, <1>6, <2>1, <2>2 DEF TruncDiv
<1> QED
  BY SMTT(30), <1>4, <1>5, <1>6

\* What the indexer adds.
LEMMA NewBlock ==
  ASSUME TypeOK, NEW ts \in Int, IndexBlock(ts), NEW n, n = Len(blocks) + 1
  PROVE  /\ DOMAIN blocks' = DOMAIN blocks \cup {n} /\ n \in Nat /\ n \notin DOMAIN blocks
         /\ \A i \in DOMAIN blocks : blocks'[i] = blocks[i] /\ i < n
         /\ n <= Len(script) /\ Len(blocks') = n
         /\ blocks'[n] = [ts |-> ts, policy |-> script[n].policy, tx |-> script[n].tx]
         /\ Published' = IF script[n].policy = NoPolicy THEN Published ELSE Published \cup {n}
         /\ now' = now /\ script' = script
<1>1. blocks \in Seq(Block) /\ script \in Seq(Content)
  BY ClientAssumption DEF TypeOK, ClientAssumption
<1>2. blocks' = Append(blocks, [ts |-> ts, policy |-> script[n].policy, tx |-> script[n].tx])
  BY DEF IndexBlock
<1>3. n <= Len(script)
  BY SMTT(30), <1>1 DEF IndexBlock
<1>4. /\ DOMAIN blocks' = DOMAIN blocks \cup {n} /\ n \in Nat /\ n \notin DOMAIN blocks
      /\ \A i \in DOMAIN blocks : blocks'[i] = blocks[i] /\ i < n
      /\ Len(blocks') = n
      /\ blocks'[n] = [ts |-> ts, policy |-> script[n].policy, tx |-> script[n].tx]
  BY SMTT(30), <1>1, <1>2
<1>5. blocks'[n].policy = script[n].policy
  BY SMTT(30), <1>4
<1>6. Published' = IF script[n].policy = NoPolicy THEN Published ELSE Published \cup {n}
  <2>1. Published' = {i \in DOMAIN blocks' : blocks'[i].policy # NoPolicy}
    BY DEF Published
  <2> QED
    BY <1>4, <1>5, <2>1 DEF Published
<1> QED
  BY <1>3, <1>4, <1>6 DEF IndexBlock

\* A database with a policy has a last one.
LEMMA LastPublished ==
  ASSUME TypeOK, Published # {}
  PROVE  \E l \in Published : \A i \in Published : i <= l
<1>1. Len(blocks) \in Nat /\ \A i \in Published : i \in 1 .. Len(blocks)
  BY BlockType
<1>2. {Len(blocks) - i : i \in Published} \in SUBSET Nat /\ {Len(blocks) - i : i \in Published} # {}
  BY SMTT(30), <1>1
<1>3. PICK d \in {Len(blocks) - i : i \in Published} : \A c \in {Len(blocks) - i : i \in Published} : d <= c
  BY <1>2, LeastElement
<1>4. PICK l \in Published : d = Len(blocks) - l
  BY <1>3
<1>5. \A i \in Published : Len(blocks) - l <= Len(blocks) - i
  BY <1>3, <1>4
<1> QED
  BY SMTT(30), <1>1, <1>5

\* A policy that the indexer adds follows on the last one it has.
LEMMA NextPolicy ==
  ASSUME TypeOK, ChainInv, NEW ts \in Int, IndexBlock(ts), NEW n, n = Len(blocks) + 1,
         script[n].policy # NoPolicy, NEW l \in Published, \A i \in Published : i <= l
  PROVE  script[n].policy = blocks[l].policy + 1
<1>1. l \in DOMAIN blocks /\ n \in Nat /\ l < n /\ n <= Len(script)
  BY NewBlock, BlockType
<1>2. script \in Scripts /\ script \in Seq(Content)
  BY ClientAssumption DEF TypeOK, ClientAssumption
<1>3. l \in DOMAIN script /\ n \in DOMAIN script
  BY SMTT(30), <1>1, <1>2, BlockType
<1>4. \A k \in DOMAIN blocks : script[k].policy = blocks[k].policy
  BY DEF ChainInv
<1>5. ASSUME NEW k \in l + 1 .. n - 1 PROVE script[k].policy = NoPolicy
  <2>1. k \in DOMAIN blocks /\ ~(k <= l)
    BY SMTT(30), <1>1, BlockType
  <2>2. k \notin Published
    BY <2>1
  <2> QED
    BY <1>4, <2>1, <2>2 DEF Published
<1>6. script[l].policy # NoPolicy /\ script[l].policy = blocks[l].policy
  BY <1>1, <1>4 DEF Published
<1>7. script[n].policy = script[l].policy + 1
  BY <1>1, <1>2, <1>3, <1>5, <1>6, ScriptAssumption DEF ScriptAssumption
<1> QED
  BY <1>6, <1>7

\* The database grows in the order of the chain.
LEMMA ChainStep ==
  ASSUME TypeOK, ChainInv, [Next]_vars
  PROVE  ChainInv'
<1>1. CASE UNCHANGED envVars
  BY SMTT(30), <1>1 DEF ChainInv, Published, envVars
<1>2. CASE Tick
  <2>1. now' = now + 1 /\ script' = script /\ blocks' = blocks /\ now \in Nat
    BY <1>2 DEF Tick, TypeOK
  <2>2. \A i \in DOMAIN blocks : blocks[i].ts <= now'
    BY SMTT(30), <2>1, BlockType DEF ChainInv
  <2> QED
    BY SMTT(30), <2>1, <2>2 DEF ChainInv, Published
<1>3. ASSUME NEW ts \in Int, IndexBlock(ts) PROVE ChainInv'
  <2>1. PICK n : n = Len(blocks) + 1
    OBVIOUS
  <2>2. /\ DOMAIN blocks' = DOMAIN blocks \cup {n} /\ n \in Nat /\ n \notin DOMAIN blocks
        /\ \A i \in DOMAIN blocks : blocks'[i] = blocks[i] /\ i < n
        /\ n <= Len(script) /\ Len(blocks') = n
        /\ blocks'[n] = [ts |-> ts, policy |-> script[n].policy, tx |-> script[n].tx]
        /\ Published' = IF script[n].policy = NoPolicy THEN Published ELSE Published \cup {n}
        /\ now' = now /\ script' = script
    BY <1>3, <2>1, NewBlock
  <2>3. blocks'[n].ts = ts /\ blocks'[n].policy = script[n].policy
    BY SMTT(30), <2>2
  <2>4. /\ ts <= now /\ \A i \in DOMAIN blocks : blocks[i].ts <= ts
        /\ script[n].policy # NoPolicy => \A i \in Published : blocks[i].ts < ts
    BY <1>3, <2>1 DEF IndexBlock
  <2>5. Published \subseteq DOMAIN blocks /\ \A i \in DOMAIN blocks : i \in Nat
    BY SMTT(30), BlockType
  <2>6. Len(blocks') <= Len(script')
    BY <2>2
  <2>7. \A i \in DOMAIN blocks' : blocks'[i].policy = script'[i].policy /\ blocks'[i].ts <= now'
    BY SMTT(30), <2>2, <2>3, <2>4 DEF ChainInv
  <2>8. \A i, j \in DOMAIN blocks' : i < j => blocks'[i].ts <= blocks'[j].ts
    <3> SUFFICES ASSUME NEW i \in DOMAIN blocks', NEW j \in DOMAIN blocks', i < j
                 PROVE  blocks'[i].ts <= blocks'[j].ts
      OBVIOUS
    <3>1. CASE j \in DOMAIN blocks
      <4>1. i \in DOMAIN blocks
        BY SMTT(30), <2>2, <2>5, <3>1
      <4> QED
        BY <2>2, <3>1, <4>1 DEF ChainInv
    <3>2. CASE j = n
      <4>1. i \in DOMAIN blocks
        BY SMTT(30), <2>2, <3>2
      <4> QED
        BY <2>2, <2>3, <2>4, <3>2, <4>1
    <3> QED
      BY <2>2, <3>1, <3>2
  <2>9. CASE script[n].policy = NoPolicy
    <3>1. Published' = Published /\ \A i \in Published : blocks'[i] = blocks[i]
      BY <2>2, <2>5, <2>9
    <3>2. /\ \A i, j \in Published' :
               i < j => blocks'[i].ts < blocks'[j].ts /\ blocks'[i].policy < blocks'[j].policy
          /\ \A i, j \in Published' : \A e \in blocks'[i].policy .. blocks'[j].policy :
               \E k \in Published' : blocks'[k].policy = e
      BY SMTT(30), <3>1 DEF ChainInv
    <3> QED
      BY <2>6, <2>7, <2>8, <3>2 DEF ChainInv
  <2>10. CASE script[n].policy # NoPolicy
    <3>0. script[n].policy \in Nat
      <4>1. script \in Seq(Content) /\ n \in 1 .. Len(script)
        BY SMTT(30), <2>1, <2>2, ClientAssumption, BlockType DEF TypeOK, ClientAssumption
      <4>2. script[n] \in Content
        BY SMTT(30), <4>1
      <4>3. script[n].policy \in RewardEpoch
        BY <2>10, <4>2 DEF Content
      <4> QED
        BY <4>3, PolicyAssumption DEF PolicyAssumption
    <3>1. Published' = Published \cup {n} /\ \A i \in Published : blocks'[i] = blocks[i] /\ i < n
      BY <2>2, <2>5, <2>10
    <3>2. \A i \in Published : blocks[i].policy < script[n].policy
      <4> SUFFICES ASSUME NEW i \in Published PROVE blocks[i].policy < script[n].policy
        OBVIOUS
      <4>1. PICK l \in Published : \A j \in Published : j <= l
        BY LastPublished
      <4>2. script[n].policy = blocks[l].policy + 1
        BY <1>3, <2>1, <2>10, <4>1, NextPolicy
      <4>3. i \in Nat /\ l \in Nat /\ i <= l /\ blocks[i].policy \in Nat /\ blocks[l].policy \in Nat
        BY <2>5, <4>1, BlockType
      <4>4. i = l \/ blocks[i].policy < blocks[l].policy
        BY SMTT(30), <4>3 DEF ChainInv
      <4> QED
        BY SMTT(30), <4>2, <4>3, <4>4
    <3>3. ASSUME NEW i \in Published', NEW j \in Published', i < j
          PROVE  blocks'[i].ts < blocks'[j].ts /\ blocks'[i].policy < blocks'[j].policy
      <4>1. CASE j = n
        <5>1. i \in Published
          BY SMTT(30), <2>2, <3>1, <3>3, <4>1
        <5> QED
          BY <2>3, <2>4, <2>10, <3>1, <3>2, <4>1, <5>1
      <4>2. CASE j \in Published
        <5>1. i \in Published
          BY SMTT(30), <2>2, <2>5, <3>1, <3>3, <4>2
        <5> QED
          BY <3>1, <3>3, <4>2, <5>1 DEF ChainInv
      <4> QED
        BY <3>1, <4>1, <4>2
    <3>4. ASSUME NEW i \in Published', NEW j \in Published',
                 NEW e \in blocks'[i].policy .. blocks'[j].policy
          PROVE  \E k \in Published' : blocks'[k].policy = e
      <4>0. \A k \in Published : blocks[k].policy \in Nat
        BY BlockType
      <4>1. CASE i = n \/ e = blocks'[n].policy
        <5>1. i = n => e = blocks'[n].policy
          <6> SUFFICES ASSUME i = n PROVE e = blocks'[n].policy
            OBVIOUS
          <6>1. CASE j = n
            BY SMTT(30), <2>3, <3>0, <3>4, <6>1
          <6>2. CASE j \in Published
            <7>1. blocks[j].policy < script[n].policy
              BY <3>2, <6>2
            <7>2. e \in script[n].policy .. blocks[j].policy
              BY <2>3, <3>1, <3>4, <6>2
            <7>3. script[n].policy <= e /\ e <= blocks[j].policy /\ e \in Int
              BY SMTT(30), <7>2
            <7> QED
              BY SMTT(30), <3>0, <4>0, <6>2, <7>1, <7>3
          <6> QED
            BY <3>1, <6>1, <6>2
        <5>2. e = blocks'[n].policy
          BY <4>1, <5>1
        <5> QED
          BY <3>1, <5>2
      <4>2. CASE i \in Published /\ j \in Published
        <5>1. e \in blocks[i].policy .. blocks[j].policy
          BY <3>1, <3>4, <4>2
        <5>2. PICK k \in Published : blocks[k].policy = e
          BY SMTT(30), <4>2, <5>1 DEF ChainInv
        <5> QED
          BY <3>1, <5>2
      <4>3. CASE i \in Published /\ j = n /\ e # blocks'[n].policy
        <5>1. PICK l \in Published : \A k \in Published : k <= l
          BY <4>3, LastPublished
        <5>2. script[n].policy = blocks[l].policy + 1
          BY <1>3, <2>1, <2>10, <5>1, NextPolicy
        <5>3. blocks[i].policy \in Nat /\ blocks[l].policy \in Nat
          BY <4>0, <4>3, <5>1
        <5>4. e \in blocks[i].policy .. blocks[l].policy
          <6>1. e \in blocks[i].policy .. script[n].policy /\ e # script[n].policy
            BY <2>3, <3>1, <3>4, <4>3
          <6> QED
            BY SMTT(30), <5>2, <5>3, <6>1
        <5>5. PICK k \in Published : blocks[k].policy = e
          BY SMTT(30), <4>3, <5>1, <5>4 DEF ChainInv
        <5> QED
          BY <3>1, <5>5
      <4> QED
        BY <3>1, <4>1, <4>2, <4>3
    <3> QED
      BY <2>6, <2>7, <2>8, <3>3, <3>4 DEF ChainInv
  <2> QED
    BY <2>9, <2>10
<1>4. \A ts \in now - MaxLag .. now : ts \in Int
  BY SMTT(30), ClientAssumption DEF TypeOK, ClientAssumption
<1>5. Next => Environment \/ UNCHANGED envVars
  BY DEF Next, Start, Stop, PolicyListener, FetchPolicyLogs, SendPolicy, PolicyParseError,
         ReceivePolicy, RewardEpochCleanup, RemoveSubmissions, TxListener, FetchTransactions,
         TakeTx, LookUpPolicy, CheckFirstPolicy, AddSignature
<1> QED
  BY <1>1, <1>2, <1>3, <1>4, <1>5 DEF Environment, vars

\* The order of the database holds of every behaviour.
LEMMA ChainInvariant == Spec => []ChainInv
<1>1. Init => ChainInv
  <2> SUFFICES ASSUME Init PROVE ChainInv
    OBVIOUS
  <2>1. blocks = <<>> /\ Len(script) \in Nat
    BY SMTT(30), ClientAssumption DEF Init, ClientAssumption
  <2>2. DOMAIN blocks = {} /\ Published = {} /\ Len(blocks) = 0
    BY SMTT(30), <2>1 DEF Published
  <2> QED
    BY SMTT(30), <2>1, <2>2 DEF ChainInv
<1>2. TypeOK /\ ChainInv /\ [Next]_vars => ChainInv'
  BY ChainStep
<1> QED
  BY <1>1, <1>2, TypeCorrect, PTL DEF Spec

=============================================================================
