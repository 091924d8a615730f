----------------------- MODULE FinalizerPolicyProofs -----------------------
(***************************************************************************)
(* Proofs about the policies in FinalizerClient: none is lost between the  *)
(* chain and the store, and, when every policy reaches the database before *)
(* it starts, the cleanup leaves the ones in use.                          *)
(***************************************************************************)
EXTENDS FinalizerClientProofs

\* Leaves without a pragma are for Zenon; the others need arithmetic or records.
USE ZenonT(30)

(***************************************************************************)
(* Policies on their way from the chain to the store.                      *)
(***************************************************************************)

\* The poller: its cursor is where it started, or a policy it has sent, and its
\* batch holds the policies that follow, up to some block.
PollInv ==
  /\ ~running => spList = <<>> /\ spChan = <<>> /\ spBatch = {} /\ spPc = "wait"
  /\ running => startTime <= spCursor
  /\ startTime < spCursor \/ spList # <<>> \/ spChan # <<>> =>
       \E i \in Published : blocks[i].ts = spCursor
  /\ \A i \in spBatch :
       /\ spCursor < blocks[i].ts
       /\ \A j \in Published : spCursor < blocks[j].ts /\ blocks[j].ts < blocks[i].ts => j \in spBatch

\* Every element is a published policy that the poller has read.
Read(list) ==
  \A k \in DOMAIN list : \E i \in Published : blocks[i].policy = list[k] /\ blocks[i].ts <= spCursor

\* The last element is the last policy that the poller has read.
EndsWithLast(list) ==
  \A i \in Published : blocks[i].ts <= spCursor => blocks[i].policy <= list[Len(list)]

\* The store followed by the channel is one list of consecutive reward epochs, up
\* to the last policy read: that is why Add never refuses one.
ListInv ==
  /\ Consecutive(spList) /\ Consecutive(spChan)
  /\ spList # <<>> /\ spChan # <<>> => spChan[1] = spList[Len(spList)] + 1
  /\ \A k \in DOMAIN spList : StartingRewardEpoch <= spList[k]
  /\ Read(spList) /\ Read(spChan)
  /\ spChan # <<>> => EndsWithLast(spChan)
  /\ spChan = <<>> /\ spList # <<>> => EndsWithLast(spList)

\* The store and the channel hold reward epochs.
LEMMA ListType ==
  ASSUME TypeOK
  PROVE  /\ spList \in Seq(RewardEpoch) /\ spChan \in Seq(RewardEpoch)
         /\ Len(spList) \in Nat /\ DOMAIN spList = 1 .. Len(spList)
         /\ Len(spChan) \in Nat /\ DOMAIN spChan = 1 .. Len(spChan)
         /\ \A k \in DOMAIN spList : spList[k] \in RewardEpoch /\ spList[k] \in Nat
         /\ \A k \in DOMAIN spChan : spChan[k] \in RewardEpoch /\ spChan[k] \in Nat
         /\ spList # <<>> <=> Len(spList) # 0
         /\ spChan # <<>> <=> Len(spChan) # 0
         /\ spCursor \in Int /\ startTime \in Int /\ spBatch \subseteq Published
         /\ running \in BOOLEAN
<1>1. spList \in Seq(RewardEpoch) /\ spChan \in Seq(RewardEpoch)
  BY DEF TypeOK
<1>2. RewardEpoch \subseteq Nat
  BY PolicyAssumption DEF PolicyAssumption
<1>3. /\ \A k \in DOMAIN spList : spList[k] \in RewardEpoch
      /\ \A k \in DOMAIN spChan : spChan[k] \in RewardEpoch
  BY SMTT(30), <1>1
<1>4. /\ \A k \in DOMAIN spList : spList[k] \in Nat
      /\ \A k \in DOMAIN spChan : spChan[k] \in Nat
  BY <1>2, <1>3
<1>5. /\ Len(spList) \in Nat /\ DOMAIN spList = 1 .. Len(spList)
      /\ Len(spChan) \in Nat /\ DOMAIN spChan = 1 .. Len(spChan)
  BY SMTT(30), <1>1
<1>6. (spList # <<>> <=> Len(spList) # 0) /\ (spChan # <<>> <=> Len(spChan) # 0)
  BY SMTT(30), <1>1
<1>7. spCursor \in Int /\ startTime \in Int /\ spBatch \subseteq Published /\ running \in BOOLEAN
  BY DEF TypeOK
<1> QED
  BY <1>1, <1>3, <1>4, <1>5, <1>6, <1>7

\* The path of a policy: its parts together.
PathInv == PollInv /\ ListInv /\ NoPolicyLost

\* Nothing happens to the policies but that time may pass.
LEMMA QuietPath ==
  ASSUME TypeOK, TypeOK', PathInv,
         blocks' = blocks, running' = running, startTime' = startTime, spList' = spList,
         spChan' = spChan, spCursor' = spCursor, spBatch' = spBatch,
         spPc' = spPc \/ running, now <= now'
  PROVE  PathInv'
<1>1. PollInv'
  BY DEF PathInv, PollInv, Published
<1>2. ListInv'
  BY DEF PathInv, ListInv, Consecutive, Read, EndsWithLast, Published
<1>3. CleanupRound <= CleanupRound' /\ CleanupRound \in Int /\ CleanupRound' \in Int
  <2>0. now \in Nat /\ now' \in Nat /\ StartTimeOffset \in Nat
    BY ClientAssumption DEF ClientAssumption, TypeOK
  <2>1. now - 2 * StartTimeOffset \in Int /\ now' - 2 * StartTimeOffset \in Int
    BY SMTT(30), <2>0
  <2>2. now - 2 * StartTimeOffset <= now' - 2 * StartTimeOffset
    <3>1. \A x, y, d \in Int : x <= y => x - d <= y - d
      BY SMTT(30)
    <3>2. now \in Int /\ now' \in Int /\ 2 * StartTimeOffset \in Int /\ now <= now'
      BY SMTT(30), <2>0
    <3> QED
      BY <3>1, <3>2
  <2>3. /\ CleanupRound = VotingRoundAt(now - 2 * StartTimeOffset)
        /\ CleanupRound' = VotingRoundAt(now' - 2 * StartTimeOffset)
    BY DEF CleanupRound, VotingRoundAt
  <2> QED
    BY <2>1, <2>2, <2>3, RoundMonotone, VotingRoundType
<1>4. NoPolicyLost'
  <2> SUFFICES ASSUME running', NEW i \in DOMAIN blocks', blocks'[i].policy # NoPolicy,
                      blocks'[i].policy >= StartingRewardEpoch, startTime' < blocks'[i].ts,
                      blocks'[i].ts <= spCursor'
               PROVE  \/ \E k \in DOMAIN spChan' : spChan'[k] = blocks'[i].policy
                      \/ \E k \in DOMAIN spList' : spList'[k] = blocks'[i].policy
                      \/ StartVotingRound[blocks'[i].policy] <= CleanupRound'
    BY DEF NoPolicyLost
  <2>1. \/ \E k \in DOMAIN spChan : spChan[k] = blocks[i].policy
        \/ \E k \in DOMAIN spList : spList[k] = blocks[i].policy
        \/ StartVotingRound[blocks[i].policy] <= CleanupRound
    BY DEF PathInv, NoPolicyLost
  <2>2. StartVotingRound[blocks[i].policy] \in Nat
    BY BlockType DEF Published
  <2> QED
    BY SMTT(30), <1>3, <2>1, <2>2
<1> QED
  BY <1>1, <1>2, <1>4 DEF PathInv

\* The indexer adds a block, whose policy the poller has yet to read.
LEMMA IndexPath ==
  ASSUME TypeOK, TypeOK', ChainInv, PathInv, NEW ts \in Int, IndexBlock(ts)
  PROVE  PathInv'
<1>0. /\ running' = running /\ startTime' = startTime /\ spList' = spList /\ spChan' = spChan
      /\ spCursor' = spCursor /\ spBatch' = spBatch /\ spPc' = spPc /\ now' = now
  BY DEF IndexBlock, procVars, pollVars, policyVars
<1>1. PICK n : n = Len(blocks) + 1
  OBVIOUS
<1>2. /\ DOMAIN blocks' = DOMAIN blocks \cup {n} /\ n \in Nat /\ n \notin DOMAIN blocks
      /\ \A i \in DOMAIN blocks : blocks'[i] = blocks[i] /\ i < n
      /\ blocks'[n] = [ts |-> ts, policy |-> script[n].policy, tx |-> script[n].tx]
      /\ Published' = IF script[n].policy = NoPolicy THEN Published ELSE Published \cup {n}
  BY <1>1, NewBlock
<1>3. /\ blocks'[n].ts = ts /\ blocks'[n].policy = script[n].policy
      /\ script[n].policy # NoPolicy => \A i \in Published : blocks[i].ts < ts
  BY SMTT(30), <1>1, <1>2 DEF IndexBlock
<1>4. /\ Published \subseteq DOMAIN blocks /\ \A i \in DOMAIN blocks : blocks[i].ts \in Nat
      /\ spBatch \subseteq Published /\ spCursor \in Int
      /\ startTime \in Int
  BY BlockType, ListType
<1>5. \A i \in Published : i \in Published' /\ blocks'[i] = blocks[i]
  BY <1>2, <1>4
<1>6. \A i \in Published' : i \in Published \/ (i = n /\ \A j \in Published : blocks[j].ts < ts)
  BY <1>2, <1>3
<1>7. PollInv'
  <2>1. /\ ~running' => spList' = <<>> /\ spChan' = <<>> /\ spBatch' = {} /\ spPc' = "wait"
        /\ running' => startTime' <= spCursor'
    BY <1>0 DEF PathInv, PollInv
  <2>2. startTime' < spCursor' \/ spList' # <<>> \/ spChan' # <<>> =>
          \E i \in Published' : blocks'[i].ts = spCursor'
    BY <1>0, <1>5 DEF PathInv, PollInv
  <2>3. ASSUME NEW i \in spBatch'
        PROVE  /\ spCursor' < blocks'[i].ts
               /\ \A j \in Published' :
                    spCursor' < blocks'[j].ts /\ blocks'[j].ts < blocks'[i].ts => j \in spBatch'
    <3>1. i \in spBatch /\ i \in Published /\ blocks'[i] = blocks[i]
      BY <1>0, <1>4, <1>5
    <3>2. spCursor < blocks[i].ts
      BY <3>1 DEF PathInv, PollInv
    <3>3. ASSUME NEW j \in Published', spCursor' < blocks'[j].ts, blocks'[j].ts < blocks'[i].ts
          PROVE  j \in spBatch'
      <4>1. CASE j \in Published
        BY <1>0, <1>5, <3>1, <3>3, <4>1 DEF PathInv, PollInv
      <4>2. CASE j = n /\ \A k \in Published : blocks[k].ts < ts
        BY SMTT(30), <1>3, <1>4, <3>1, <3>3, <4>2
      <4> QED
        BY <1>6, <4>1, <4>2
    <3> QED
      BY <1>0, <3>1, <3>2, <3>3
  <2> QED
    BY <2>1, <2>2, <2>3 DEF PollInv
<1>8. \A i \in Published' : blocks'[i].ts <= spCursor' /\ (spList # <<>> \/ spChan # <<>> \/ startTime < spCursor) => i \in Published
  <2> SUFFICES ASSUME NEW i \in Published', blocks'[i].ts <= spCursor',
                      spList # <<>> \/ spChan # <<>> \/ startTime < spCursor
               PROVE  i \in Published
    OBVIOUS
  <2>1. PICK j \in Published : blocks[j].ts = spCursor
    BY DEF PathInv, PollInv
  <2> QED
    BY SMTT(30), <1>0, <1>3, <1>4, <1>6, <2>1
<1>9. ListInv'
  <2>1. /\ Consecutive(spList') /\ Consecutive(spChan')
        /\ spList' # <<>> /\ spChan' # <<>> => spChan'[1] = spList'[Len(spList')] + 1
        /\ \A k \in DOMAIN spList' : StartingRewardEpoch <= spList'[k]
    BY <1>0 DEF PathInv, ListInv
  <2>2. Read(spList)' /\ Read(spChan)'
    BY SMTT(30), <1>0, <1>5 DEF PathInv, ListInv, Read
  <2>3. (spChan # <<>> => EndsWithLast(spChan))'
    BY <1>0, <1>5, <1>8 DEF PathInv, ListInv, EndsWithLast
  <2>4. (spChan = <<>> /\ spList # <<>> => EndsWithLast(spList))'
    BY <1>0, <1>5, <1>8 DEF PathInv, ListInv, EndsWithLast
  <2> QED
    BY <2>1, <2>2, <2>3, <2>4 DEF ListInv, Consecutive
<1>10. NoPolicyLost'
  <2> SUFFICES ASSUME running', NEW i \in DOMAIN blocks', blocks'[i].policy # NoPolicy,
                      blocks'[i].policy >= StartingRewardEpoch, startTime' < blocks'[i].ts,
                      blocks'[i].ts <= spCursor'
               PROVE  \/ \E k \in DOMAIN spChan' : spChan'[k] = blocks'[i].policy
                      \/ \E k \in DOMAIN spList' : spList'[k] = blocks'[i].policy
                      \/ StartVotingRound[blocks'[i].policy] <= CleanupRound'
    BY DEF NoPolicyLost
  <2>1. i \in Published' /\ blocks'[i].ts \in Nat
    <3>1. i \in Published'
      BY DEF Published
    <3>2. ts \in Nat
      BY SMTT(30) DEF IndexBlock
    <3> QED
      BY <1>2, <1>3, <1>4, <3>1, <3>2
  <2>2. startTime < spCursor
    BY SMTT(30), <1>0, <1>4, <2>1
  <2>3. i \in Published
    BY <1>8, <2>1, <2>2
  <2>4. i \in DOMAIN blocks /\ blocks'[i] = blocks[i] /\ CleanupRound' = CleanupRound
    BY <1>0, <1>4, <1>5, <2>3 DEF CleanupRound
  <2> QED
    BY <1>0, <2>4 DEF PathInv, NoPolicyLost
<1> QED
  BY <1>7, <1>9, <1>10 DEF PathInv

\* The poller sends the next policy: the one that follows on the last one read.
LEMMA SendFollows ==
  ASSUME TypeOK, ChainInv, PathInv, NEW i \in Earliest(spBatch), NEW j \in Published,
         blocks[j].ts <= spCursor,
         \A k \in Published : blocks[k].ts <= spCursor => blocks[k].policy <= blocks[j].policy
  PROVE  blocks[i].policy = blocks[j].policy + 1
<1>1. i \in spBatch /\ i \in Published /\ \A k \in spBatch : blocks[i].ts <= blocks[k].ts
  BY ListType DEF Earliest
<1>2. spCursor < blocks[i].ts
  BY <1>1 DEF PathInv, PollInv
<1>3. /\ \A k \in Published : blocks[k].ts \in Nat /\ blocks[k].policy \in Nat /\ k \in Nat
      /\ spCursor \in Int
  BY SMTT(30), BlockType, ListType
<1>4. j < i
  <2>1. ~(i < j) /\ i # j
    BY SMTT(30), <1>1, <1>2, <1>3 DEF ChainInv
  <2> QED
    BY SMTT(30), <1>1, <1>3, <2>1
<1>5. blocks[j].policy < blocks[i].policy
  BY <1>1, <1>4 DEF ChainInv
<1>6. ASSUME blocks[j].policy + 1 < blocks[i].policy PROVE FALSE
  <2>1. blocks[j].policy + 1 \in blocks[j].policy .. blocks[i].policy
    BY SMTT(30), <1>1, <1>3, <1>6
  <2>2. PICK k \in Published : blocks[k].policy = blocks[j].policy + 1
    BY <1>1, <2>1 DEF ChainInv
  <2>3. ~(blocks[k].ts <= spCursor)
    BY SMTT(30), <1>3, <2>2
  <2>4. k < i
    <3>1. i < k => blocks[i].policy < blocks[k].policy
      BY <1>1, <2>2 DEF ChainInv
    <3> QED
      BY SMTT(30), <1>1, <1>3, <1>6, <2>2, <3>1
  <2>5. blocks[k].ts < blocks[i].ts
    BY <1>1, <2>4 DEF ChainInv
  <2>6. spCursor < blocks[k].ts
    BY SMTT(30), <1>3, <2>3
  <2>7. k \in spBatch
    BY <1>1, <2>5, <2>6 DEF PathInv, PollInv
  <2> QED
    BY SMTT(30), <1>1, <1>3, <2>5, <2>7
<1> QED
  BY SMTT(30), <1>1, <1>3, <1>5, <1>6

\* SendPolicy passes on the earliest policy of the batch, the one after the last sent.
LEMMA SendPath ==
  ASSUME TypeOK, TypeOK', ChainInv, PathInv, SendPolicy
  PROVE  PathInv'
<1>0. /\ running /\ running' = running /\ startTime' = startTime /\ spList' = spList
      /\ blocks' = blocks /\ spPc' = spPc /\ now' = now
  BY DEF SendPolicy, envVars, procVars, policyVars
<1>1. PICK i \in Earliest(spBatch) :
        /\ spChan' = Append(spChan, blocks[i].policy)
        /\ spCursor' = blocks[i].ts
        /\ spBatch' = spBatch \ {i}
  BY DEF SendPolicy
<1>2. i \in spBatch /\ i \in Published /\ \A k \in spBatch : blocks[i].ts <= blocks[k].ts
  BY <1>1, ListType DEF Earliest
<1>3. spCursor < blocks[i].ts
  BY <1>2 DEF PathInv, PollInv
<1>4. /\ \A k \in Published : /\ blocks[k].ts \in Nat /\ blocks[k].policy \in Nat /\ k \in Nat
                              /\ blocks[k].policy \in RewardEpoch /\ k \in DOMAIN blocks
      /\ spCursor \in Int /\ startTime \in Int /\ spBatch \subseteq Published
      /\ spChan \in Seq(RewardEpoch) /\ Len(spChan) \in Nat /\ DOMAIN spChan = 1 .. Len(spChan)
  BY SMTT(30), BlockType, ListType
<1>5. /\ Len(spChan') = Len(spChan) + 1 /\ spChan' # <<>>
      /\ DOMAIN spChan' = 1 .. Len(spChan) + 1
      /\ spChan'[Len(spChan) + 1] = blocks[i].policy
      /\ \A k \in DOMAIN spChan : spChan'[k] = spChan[k]
  BY SMTT(30), <1>1, <1>2, <1>4
<1>6. Published' = Published
  BY <1>0 DEF Published
<1>7. \A k \in Published : k # i => blocks[k].ts # blocks[i].ts
  BY SMTT(30), <1>2, <1>4 DEF ChainInv
<1>8. PollInv'
  <2>1. running' => startTime' <= spCursor'
    BY SMTT(30), <1>0, <1>1, <1>2, <1>3, <1>4 DEF PathInv, PollInv
  <2>2. \E k \in Published' : blocks'[k].ts = spCursor'
    BY <1>0, <1>1, <1>2, <1>6
  <2>3. ASSUME NEW k \in spBatch'
        PROVE  /\ spCursor' < blocks'[k].ts
               /\ \A j \in Published' :
                    spCursor' < blocks'[j].ts /\ blocks'[j].ts < blocks'[k].ts => j \in spBatch'
    <3>1. k \in spBatch /\ k # i /\ k \in Published
      BY <1>1, <1>4
    <3>2. blocks[i].ts < blocks[k].ts
      BY SMTT(30), <1>2, <1>4, <1>7, <3>1
    <3>3. ASSUME NEW j \in Published, blocks[i].ts < blocks[j].ts, blocks[j].ts < blocks[k].ts
          PROVE  j \in spBatch /\ j # i
      <4>1. spCursor < blocks[j].ts
        BY SMTT(30), <1>2, <1>3, <1>4, <3>3
      <4>2. j # i
        BY SMTT(30), <1>4, <3>3
      <4> QED
        BY <3>1, <3>3, <4>1, <4>2 DEF PathInv, PollInv
    <3> QED
      BY <1>0, <1>1, <1>6, <3>2, <3>3
  <2> QED
    BY <1>0, <2>1, <2>2, <2>3 DEF PollInv
<1>9. \A k \in Published : blocks[k].ts <= spCursor' => k = i \/ blocks[k].ts <= spCursor
  <2> SUFFICES ASSUME NEW k \in Published, blocks[k].ts <= blocks[i].ts, k # i, ~(blocks[k].ts <= spCursor)
               PROVE  FALSE
    BY <1>1
  <2>1. blocks[k].ts < blocks[i].ts /\ spCursor < blocks[k].ts
    BY SMTT(30), <1>2, <1>4, <1>7
  <2>2. k \in spBatch
    BY <1>2, <2>1 DEF PathInv, PollInv
  <2> QED
    BY SMTT(30), <1>2, <1>4, <2>1, <2>2
<1>10. \A k \in Published : blocks[k].ts <= spCursor => blocks[k].ts <= spCursor'
  BY SMTT(30), <1>1, <1>2, <1>3, <1>4
<1>11. ASSUME NEW e \in Nat, NEW j \in Published, blocks[j].policy = e, blocks[j].ts <= spCursor,
              \A k \in Published : blocks[k].ts <= spCursor => blocks[k].policy <= e
       PROVE  blocks[i].policy = e + 1
  BY <1>1, <1>11, SendFollows
<1>12. ListInv'
  <2>1. Consecutive(spList') /\ \A k \in DOMAIN spList' : StartingRewardEpoch <= spList'[k]
    BY <1>0 DEF PathInv, ListInv
  <2>2. spChan # <<>> => blocks[i].policy = spChan[Len(spChan)] + 1
    <3> SUFFICES ASSUME spChan # <<>> PROVE blocks[i].policy = spChan[Len(spChan)] + 1
      OBVIOUS
    <3>1. Len(spChan) \in DOMAIN spChan
      BY SMTT(30), ListType
    <3>2. spChan[Len(spChan)] \in Nat
      BY <3>1, ListType
    <3>3. PICK j \in Published : blocks[j].policy = spChan[Len(spChan)] /\ blocks[j].ts <= spCursor
      BY <3>1 DEF PathInv, ListInv, Read
    <3>4. \A k \in Published : blocks[k].ts <= spCursor => blocks[k].policy <= spChan[Len(spChan)]
      BY DEF PathInv, ListInv, EndsWithLast
    <3> QED
      BY <1>11, <3>2, <3>3, <3>4
  <2>3. spChan = <<>> /\ spList # <<>> => blocks[i].policy = spList[Len(spList)] + 1
    <3> SUFFICES ASSUME spChan = <<>>, spList # <<>> PROVE blocks[i].policy = spList[Len(spList)] + 1
      OBVIOUS
    <3>1. Len(spList) \in DOMAIN spList
      BY SMTT(30), ListType
    <3>2. spList[Len(spList)] \in Nat
      BY <3>1, ListType
    <3>3. PICK j \in Published : blocks[j].policy = spList[Len(spList)] /\ blocks[j].ts <= spCursor
      BY <3>1 DEF PathInv, ListInv, Read
    <3>4. \A k \in Published : blocks[k].ts <= spCursor => blocks[k].policy <= spList[Len(spList)]
      BY DEF PathInv, ListInv, EndsWithLast
    <3> QED
      BY <1>11, <3>2, <3>3, <3>4
  <2>4. \A k \in DOMAIN spChan : spChan[k] = spChan[1] + (k - 1)
    BY DEF PathInv, ListInv, Consecutive
  <2>5. Consecutive(spChan')
    <3> SUFFICES ASSUME NEW k \in DOMAIN spChan' PROVE spChan'[k] = spChan'[1] + (k - 1)
      BY DEF Consecutive
    <3>1. CASE spChan = <<>>
      <4>1. k = 1 /\ spChan'[1] = blocks[i].policy
        BY SMTT(30), <1>4, <1>5, <3>1
      <4> QED
        BY SMTT(30), <1>2, <1>4, <4>1
    <3>2. CASE spChan # <<>>
      <4>1. 1 \in DOMAIN spChan /\ Len(spChan) \in DOMAIN spChan /\ spChan[1] \in Nat
        BY SMTT(30), <3>2, ListType
      <4>2. CASE k \in DOMAIN spChan
        BY <1>5, <2>4, <4>1, <4>2
      <4>3. CASE k = Len(spChan) + 1
        <5>1. spChan[Len(spChan)] = spChan[1] + (Len(spChan) - 1)
          BY <2>4, <4>1
        <5>2. spChan'[k] = spChan[1] + (Len(spChan) - 1) + 1 /\ spChan'[1] = spChan[1]
          BY <1>5, <2>2, <3>2, <4>1, <4>3, <5>1
        <5> QED
          BY SMTT(30), <1>4, <4>1, <4>3, <5>2
      <4> QED
        BY SMTT(30), <1>4, <1>5, <4>2, <4>3
    <3> QED
      BY <3>1, <3>2
  <2>6. spList' # <<>> => spChan'[1] = spList'[Len(spList')] + 1
    <3>1. CASE spChan = <<>>
      BY SMTT(30), <1>0, <1>4, <1>5, <2>3, <3>1
    <3>2. CASE spChan # <<>>
      <4>1. 1 \in DOMAIN spChan
        BY SMTT(30), <3>2, ListType
      <4> QED
        BY <1>0, <1>5, <3>2, <4>1 DEF PathInv, ListInv
    <3> QED
      BY <3>1, <3>2
  <2>7. Read(spList)'
    BY <1>0, <1>6, <1>10 DEF PathInv, ListInv, Read
  <2>8. Read(spChan)'
    <3> SUFFICES ASSUME NEW k \in DOMAIN spChan'
                 PROVE  \E j \in Published : blocks[j].policy = spChan'[k] /\ blocks[j].ts <= spCursor'
      BY <1>0, <1>6 DEF Read
    <3>1. CASE k \in DOMAIN spChan
      BY SMTT(30), <1>5, <1>10, <3>1 DEF PathInv, ListInv, Read
    <3>2. CASE k = Len(spChan) + 1
      BY <1>1, <1>2, <1>4, <1>5, <3>2
    <3> QED
      BY SMTT(30), <1>4, <1>5, <3>1, <3>2
  <2>9. EndsWithLast(spChan)'
    <3> SUFFICES ASSUME NEW k \in Published, blocks[k].ts <= spCursor'
                 PROVE  blocks[k].policy <= blocks[i].policy
      BY <1>0, <1>5, <1>6 DEF EndsWithLast
    <3>1. CASE k = i
      BY SMTT(30), <1>2, <1>4, <3>1
    <3>2. CASE k # i
      <4>1. blocks[k].ts <= spCursor /\ blocks[k].ts < blocks[i].ts
        BY SMTT(30), <1>2, <1>3, <1>4, <1>9, <3>2
      <4>2. k < i
        <5>1. ~(i < k)
          BY SMTT(30), <1>2, <1>4, <4>1 DEF ChainInv
        <5> QED
          BY SMTT(30), <1>2, <1>4, <3>2, <5>1
      <4>3. blocks[k].policy < blocks[i].policy
        BY <1>2, <4>2 DEF ChainInv
      <4> QED
        BY SMTT(30), <1>2, <1>4, <4>3
    <3> QED
      BY <3>1, <3>2
  <2> QED
    BY <1>5, <2>1, <2>5, <2>6, <2>7, <2>8, <2>9 DEF ListInv, Consecutive
<1>13. NoPolicyLost'
  <2> SUFFICES ASSUME NEW k \in DOMAIN blocks, blocks[k].policy # NoPolicy,
                      blocks[k].policy >= StartingRewardEpoch, startTime < blocks[k].ts,
                      blocks[k].ts <= spCursor'
               PROVE  \/ \E n \in DOMAIN spChan' : spChan'[n] = blocks[k].policy
                      \/ \E n \in DOMAIN spList : spList[n] = blocks[k].policy
                      \/ StartVotingRound[blocks[k].policy] <= CleanupRound
    BY <1>0 DEF NoPolicyLost, CleanupRound
  <2>1. k \in Published
    BY DEF Published
  <2>2. CASE k = i
    BY SMTT(30), <1>4, <1>5, <2>2
  <2>3. CASE blocks[k].ts <= spCursor
    <3>1. \/ \E n \in DOMAIN spChan : spChan[n] = blocks[k].policy
          \/ \E n \in DOMAIN spList : spList[n] = blocks[k].policy
          \/ StartVotingRound[blocks[k].policy] <= CleanupRound
      BY <1>0, <2>3 DEF PathInv, NoPolicyLost
    <3>2. DOMAIN spChan \subseteq DOMAIN spChan'
      BY SMTT(30), <1>4, <1>5
    <3> QED
      BY <1>5, <3>1, <3>2
  <2> QED
    BY <1>9, <2>1, <2>2, <2>3
<1> QED
  BY <1>8, <1>12, <1>13 DEF PathInv

\* A query returns what follows the cursor; a log that does not parse drops it.
LEMMA FetchPath ==
  ASSUME TypeOK, ChainInv, PathInv, FetchPolicyLogs \/ PolicyParseError
  PROVE  PathInv'
<1>1. /\ running /\ running' = running /\ startTime' = startTime /\ spList' = spList /\ now' = now
      /\ blocks' = blocks /\ spPc' = spPc /\ spCursor' = spCursor /\ spChan' = spChan
  BY DEF FetchPolicyLogs, PolicyParseError, envVars, procVars, policyVars
<1>2. spBatch' = {} \/ spBatch' = PolicyLogs(spCursor, now)
  BY DEF FetchPolicyLogs, PolicyParseError
<1>3. Published' = Published
  BY <1>1 DEF Published
<1>4. ASSUME NEW i \in spBatch', spBatch' = PolicyLogs(spCursor, now)
      PROVE  /\ spCursor < blocks[i].ts
             /\ \A j \in Published : spCursor < blocks[j].ts /\ blocks[j].ts < blocks[i].ts => j \in spBatch'
  <2>1. i \in DOMAIN blocks /\ spCursor < blocks[i].ts /\ blocks[i].ts <= now
    BY <1>4 DEF PolicyLogs, Visible
  <2>2. \A j \in Published : j \in DOMAIN blocks /\ blocks[j].ts <= now /\ blocks[j].policy # NoPolicy
    BY BlockType DEF ChainInv, Published
  <2> QED
    BY <1>4, <2>1, <2>2 DEF PolicyLogs, Visible
<1>5. PollInv'
  BY <1>1, <1>2, <1>3, <1>4 DEF PathInv, PollInv
<1>6. ListInv'
  BY <1>1 DEF PathInv, ListInv, Consecutive, Read, EndsWithLast, Published
<1>7. NoPolicyLost'
  BY <1>1 DEF PathInv, NoPolicyLost, CleanupRound, VotingRoundAt
<1> QED
  BY <1>5, <1>6, <1>7 DEF PathInv

\* Add accepts the policy at the head of the channel.
LEMMA ReceiveAccepts ==
  ASSUME TypeOK, PathInv, spChan # <<>>
  PROVE  /\ Head(spChan) < StartingRewardEpoch => spList = <<>>
         /\ AddPolicy(spList, Head(spChan)) = Append(spList, Head(spChan))
<1>1. Head(spChan) = spChan[1] /\ 1 \in DOMAIN spChan
  BY SMTT(30), ListType
<1>2. CASE spList = <<>>
  BY <1>2 DEF AddPolicy, CanAddPolicy
<1>3. CASE spList # <<>>
  <2>1. PICK e : e = spList[Len(spList)]
    OBVIOUS
  <2>2. Len(spList) \in DOMAIN spList
    BY SMTT(30), <1>3, ListType
  <2>3. e \in RewardEpoch /\ e \in Nat /\ StartingRewardEpoch <= e /\ StartingRewardEpoch \in Nat
    BY <2>1, <2>2, ListType, ClientAssumption DEF PathInv, ListInv, ClientAssumption
  <2>4. spChan[1] = e + 1 /\ spChan[1] \in RewardEpoch
    BY <1>1, <1>3, <2>1, ListType DEF PathInv, ListInv
  <2>5. StartVotingRound[e] < StartVotingRound[spChan[1]] /\ StartVotingRound[e] \in Nat
        /\ StartVotingRound[spChan[1]] \in Nat
    BY SMTT(30), <2>3, <2>4, PolicyAssumption DEF PolicyAssumption
  <2>6. CanAddPolicy(spList, spChan[1])
    BY SMTT(30), <2>1, <2>3, <2>4, <2>5 DEF CanAddPolicy
  <2> QED
    BY SMTT(30), <1>1, <2>3, <2>4, <2>6 DEF AddPolicy
<1> QED
  BY <1>2, <1>3

\* ReceivePolicy appends the policy it receives: Add of the storage accepts it.
LEMMA ReceivePath ==
  ASSUME TypeOK, PathInv, ReceivePolicy
  PROVE  PathInv'
<1>0. /\ running /\ running' = running /\ startTime' = startTime /\ now' = now
      /\ blocks' = blocks /\ spCursor' = spCursor /\ spBatch' = spBatch /\ spChan # <<>>
  BY DEF ReceivePolicy, envVars, procVars
<1>1. PICK h : h = Head(spChan)
  OBVIOUS
<1>2. h = spChan[1] /\ h \in RewardEpoch /\ h \in Nat /\ 1 \in DOMAIN spChan
  BY SMTT(30), <1>0, <1>1, ListType
<1>3. PICK n : n = Len(spChan)
  OBVIOUS
<1>4. /\ n \in Nat /\ n # 0 /\ DOMAIN spChan = 1 .. n
      /\ spChan' \in Seq(RewardEpoch) /\ Len(spChan') = n - 1 /\ DOMAIN spChan' = 1 .. n - 1
      /\ \A k \in 1 .. n - 1 : spChan'[k] = spChan[k + 1]
      /\ spChan' # <<>> <=> n - 1 # 0
  <2>1. spChan' = Tail(spChan)
    BY DEF ReceivePolicy
  <2>2. n \in Nat /\ n # 0 /\ DOMAIN spChan = 1 .. n /\ spChan \in Seq(RewardEpoch)
    BY <1>0, <1>3, ListType
  <2>3. /\ spChan' \in Seq(RewardEpoch) /\ Len(spChan') = n - 1
        /\ \A k \in 1 .. Len(spChan') : spChan'[k] = spChan[k + 1]
    BY SMTT(30), <1>0, <1>3, <2>1, <2>2
  <2> QED
    BY SMTT(30), <2>2, <2>3
<1>5. Published' = Published
  BY <1>0 DEF Published
<1>6. \A k \in 1 .. n : spChan[k] = h + (k - 1)
  BY <1>2, <1>4 DEF PathInv, ListInv, Consecutive
<1>7. /\ \A k \in 1 .. n - 1 : spChan'[k] = h + k
      /\ Consecutive(spChan')
  <2>1. \A k \in 1 .. n - 1 : k + 1 \in 1 .. n /\ (k + 1) - 1 = k
    BY SMTT(30), <1>4
  <2>2. \A k \in 1 .. n - 1 : spChan'[k] = h + k
    BY <1>4, <1>6, <2>1
  <2> QED
    BY SMTT(30), <1>2, <1>4, <2>2 DEF Consecutive
<1>8. Read(spChan)'
  BY SMTT(30), <1>0, <1>4, <1>5 DEF PathInv, ListInv, Read
<1>9. EndsWithLast(spChan) /\ Read(spChan)
  BY <1>0 DEF PathInv, ListInv
<1>10. spChan' # <<>> => EndsWithLast(spChan)'
  <2>1. n - 1 # 0 => spChan'[n - 1] = spChan[n]
    BY SMTT(30), <1>4
  <2> QED
    BY <1>0, <1>3, <1>4, <1>5, <1>9, <2>1 DEF EndsWithLast
<1>11. ASSUME NEW i \in DOMAIN blocks, blocks[i].policy # NoPolicy,
              blocks[i].policy >= StartingRewardEpoch, startTime < blocks[i].ts,
              blocks[i].ts <= spCursor
       PROVE  \/ blocks[i].policy = h
              \/ \E k \in DOMAIN spChan' : spChan'[k] = blocks[i].policy
              \/ \E k \in DOMAIN spList : spList[k] = blocks[i].policy
              \/ StartVotingRound[blocks[i].policy] <= CleanupRound
  <2>1. \/ \E k \in DOMAIN spChan : spChan[k] = blocks[i].policy
        \/ \E k \in DOMAIN spList : spList[k] = blocks[i].policy
        \/ StartVotingRound[blocks[i].policy] <= CleanupRound
    BY <1>0, <1>11 DEF PathInv, NoPolicyLost
  <2>2. ASSUME NEW k \in DOMAIN spChan, k # 1 PROVE \E l \in DOMAIN spChan' : spChan'[l] = spChan[k]
    <3>1. k - 1 \in 1 .. n - 1 /\ (k - 1) + 1 = k
      BY SMTT(30), <1>4, <2>2
    <3> QED
      BY <1>4, <3>1
  <2> QED
    BY <1>2, <2>1, <2>2
<1>12. CleanupRound' = CleanupRound
  BY <1>0 DEF CleanupRound, VotingRoundAt
<1>13. CASE h < StartingRewardEpoch
  <2>1. spList = <<>> /\ spList' = spList /\ spPc' = spPc
    BY <1>0, <1>1, <1>13, ReceiveAccepts DEF ReceivePolicy
  <2>2. PollInv'
    BY <1>0, <1>5, <2>1 DEF PathInv, PollInv
  <2>3. ListInv'
    BY <1>0, <1>5, <1>7, <1>8, <1>10, <2>1 DEF PathInv, ListInv, Read, Consecutive
  <2>4. NoPolicyLost'
    <3>1. \A i \in Published : blocks[i].policy >= StartingRewardEpoch => blocks[i].policy # h
      BY SMTT(30), <1>2, <1>13, BlockType, ClientAssumption DEF ClientAssumption
    <3> QED
      BY <1>0, <1>11, <1>12, <2>1, <3>1 DEF NoPolicyLost, Published
  <2> QED
    BY <2>2, <2>3, <2>4 DEF PathInv
<1>14. CASE ~(h < StartingRewardEpoch)
  <2>1. spList' = Append(spList, h) /\ spPc' = "cleanup"
    BY <1>0, <1>1, <1>14, ReceiveAccepts DEF ReceivePolicy
  <2>2. PICK p : p = Len(spList)
    OBVIOUS
  <2>3. /\ p \in Nat /\ DOMAIN spList = 1 .. p /\ spList' # <<>>
        /\ Len(spList') = p + 1 /\ DOMAIN spList' = 1 .. p + 1
        /\ \A k \in 1 .. p : spList'[k] = spList[k]
        /\ spList'[p + 1] = h
        /\ spList # <<>> <=> p # 0
    <3>1. spList \in Seq(RewardEpoch)
      BY ListType
    <3> QED
      BY SMTT(30), <1>2, <2>1, <2>2, <3>1
  <2>4. PollInv'
    <3>1. spChan # <<>> => \E i \in Published : blocks[i].ts = spCursor
      BY DEF PathInv, PollInv
    <3> QED
      BY <1>0, <1>5, <3>1 DEF PathInv, PollInv
  <2>5. Consecutive(spList')
    <3> SUFFICES ASSUME NEW k \in 1 .. p + 1 PROVE spList'[k] = spList'[1] + (k - 1)
      BY <2>3 DEF Consecutive
    <3>1. CASE p = 0
      <4>1. k = 1 /\ spList'[k] = h
        BY SMTT(30), <2>3, <3>1
      <4> QED
        BY SMTT(30), <1>2, <4>1
    <3>2. CASE p # 0
      <4>1. 1 \in 1 .. p /\ p \in 1 .. p
        BY SMTT(30), <2>3, <3>2
      <4>2. \A l \in 1 .. p : spList[l] = spList[1] + (l - 1)
        BY <2>3 DEF PathInv, ListInv, Consecutive
      <4>3. spList[1] \in Nat /\ h = spList[p] + 1
        BY <1>0, <1>2, <2>2, <2>3, <3>2, <4>1, ListType DEF PathInv, ListInv
      <4>4. spList[p] = spList[1] + (p - 1)
        BY <4>1, <4>2
      <4>5. CASE k = p + 1
        <5>1. spList'[k] = h /\ spList'[1] = spList[1]
          BY <2>3, <4>1, <4>5
        <5> QED
          BY SMTT(30), <2>3, <4>3, <4>4, <4>5, <5>1
      <4>6. CASE k \in 1 .. p
        BY <2>3, <4>1, <4>2, <4>6
      <4> QED
        BY SMTT(30), <2>3, <4>5, <4>6
    <3> QED
      BY <3>1, <3>2
  <2>6. ListInv'
    <3>1. spChan' # <<>> => spChan'[1] = spList'[Len(spList')] + 1
      BY SMTT(30), <1>4, <1>7, <2>3
    <3>2. \A k \in DOMAIN spList' : StartingRewardEpoch <= spList'[k]
      <4>1. StartingRewardEpoch <= h
        BY SMTT(30), <1>2, <1>14, ClientAssumption DEF ClientAssumption
      <4>2. \A k \in 1 .. p : StartingRewardEpoch <= spList[k]
        BY <2>3 DEF PathInv, ListInv
      <4> QED
        BY SMTT(30), <2>3, <4>1, <4>2
    <3>3. Read(spList)'
      <4>1. \E i \in Published : blocks[i].policy = h /\ blocks[i].ts <= spCursor
        BY <1>2, <1>9 DEF Read
      <4>2. \A k \in 1 .. p : \E i \in Published : blocks[i].policy = spList[k] /\ blocks[i].ts <= spCursor
        BY <2>3 DEF PathInv, ListInv, Read
      <4>3. \A k \in 1 .. p + 1 : k \in 1 .. p \/ k = p + 1
        BY SMTT(30), <2>3
      <4> QED
        BY SMTT(30), <1>0, <1>5, <2>3, <4>1, <4>2, <4>3 DEF Read
    <3>4. spChan' = <<>> => EndsWithLast(spList)'
      <4>1. spChan' = <<>> => spChan[n] = h
        BY SMTT(30), <1>2, <1>4
      <4> QED
        BY <1>0, <1>3, <1>5, <1>9, <2>3, <4>1 DEF EndsWithLast
    <3> QED
      BY <1>7, <1>8, <1>10, <2>5, <3>1, <3>2, <3>3, <3>4 DEF ListInv, Consecutive
  <2>7. NoPolicyLost'
    <3>1. p + 1 \in DOMAIN spList' /\ \A k \in DOMAIN spList : k \in DOMAIN spList'
      BY SMTT(30), <2>3
    <3> QED
      BY SMTT(30), <1>0, <1>11, <1>12, <2>3, <3>1 DEF NoPolicyLost
  <2> QED
    BY <2>4, <2>6, <2>7 DEF PathInv
<1> QED
  BY <1>13, <1>14

\* The cleanup leaves the end of the list, and what it drops is old.
LEMMA CleanupSuffix ==
  ASSUME TypeOK, RewardEpochCleanup
  PROVE  \E n \in 0 .. Len(spList) :
           /\ Len(spList') = Len(spList) - n /\ DOMAIN spList' = 1 .. Len(spList) - n
           /\ \A k \in 1 .. Len(spList) - n : spList'[k] = spList[n + k]
           /\ \A k \in 1 .. n : StartVotingRound[spList[k]] <= CleanupRound
           /\ n # 0 => CleanupRound >= 0
           /\ spList' # <<>> <=> n # Len(spList)
<1>1. CleanupRound \in Int /\ spList \in Seq(RewardEpoch) /\ Len(spList) \in Nat
  <2>1. now - 2 * StartTimeOffset \in Int
    BY SMTT(30), ClientAssumption DEF ClientAssumption, TypeOK
  <2> QED
    BY <2>1, ListType, VotingRoundType DEF CleanupRound
<1>2. CASE CleanupRound < 0
  <2>1. spList' = spList
    BY <1>2 DEF RewardEpochCleanup
  <2>2. 0 \in 0 .. Len(spList) /\ Len(spList) - 0 = Len(spList)
    BY SMTT(30), <1>1
  <2>3. \A k \in 1 .. Len(spList) : 0 + k = k
    BY SMTT(30), <1>1
  <2>4. \A k \in 1 .. 0 : FALSE
    BY SMTT(30)
  <2>5. /\ Len(spList') = Len(spList) - 0 /\ DOMAIN spList' = 1 .. Len(spList) - 0
        /\ \A k \in 1 .. Len(spList) - 0 : spList'[k] = spList[0 + k]
        /\ spList' # <<>> <=> 0 # Len(spList)
    BY <2>1, <2>2, <2>3, ListType
  <2> QED
    BY <2>2, <2>4, <2>5
<1>3. CASE ~(CleanupRound < 0)
  <2>1. spList' = RemoveByVotingRound(spList, CleanupRound)
    BY <1>3 DEF RewardEpochCleanup
  <2>2. PICK n : n = RemovedCount(spList, CleanupRound)
    OBVIOUS
  <2>3. /\ n \in 0 .. Len(spList)
        /\ \A k \in 1 .. n : StartVotingRound[spList[k]] <= CleanupRound
        /\ spList' \in Seq(RewardEpoch)
        /\ Len(spList') = Len(spList) - n
        /\ \A k \in 1 .. Len(spList) - n : spList'[k] = spList[n + k]
    BY <1>1, <2>1, <2>2, RemoveSpec
  <2>4. CleanupRound >= 0
    BY SMTT(30), <1>1, <1>3
  <2>5. /\ DOMAIN spList' = 1 .. Len(spList) - n
        /\ spList' # <<>> <=> n # Len(spList)
    <3>1. DOMAIN spList' = 1 .. Len(spList') /\ (spList' # <<>> <=> Len(spList') # 0)
      BY SMTT(30), <2>3
    <3> QED
      BY SMTT(30), <1>1, <2>3, <3>1
  <2> QED
    BY <2>3, <2>4, <2>5
<1> QED
  BY <1>2, <1>3

\* The cleanup leaves a suffix of the list of policies.
LEMMA CleanupPath ==
  ASSUME TypeOK, PathInv, RewardEpochCleanup
  PROVE  PathInv'
<1>0. /\ running /\ running' = running /\ startTime' = startTime /\ now' = now /\ spChan' = spChan
      /\ blocks' = blocks /\ spCursor' = spCursor /\ spBatch' = spBatch
  BY DEF RewardEpochCleanup, envVars, procVars, pollVars
<1>1. PICK p : p = Len(spList)
  OBVIOUS
<1>2. p \in Nat /\ DOMAIN spList = 1 .. p /\ (spList # <<>> <=> p # 0)
  BY <1>1, ListType
<1>3. PICK n \in 0 .. p :
           /\ Len(spList') = p - n /\ DOMAIN spList' = 1 .. p - n
           /\ \A k \in 1 .. p - n : spList'[k] = spList[n + k]
           /\ \A k \in 1 .. n : StartVotingRound[spList[k]] <= CleanupRound
           /\ spList' # <<>> <=> n # p
  BY <1>1, CleanupSuffix
<1>4. Published' = Published /\ CleanupRound' = CleanupRound
  BY <1>0 DEF Published, CleanupRound, VotingRoundAt
<1>5. \A k \in 1 .. p - n : n + k \in 1 .. p
  BY SMTT(30), <1>2, <1>3
<1>6. spList' # <<>> => spList # <<>> /\ spList'[Len(spList')] = spList[Len(spList)]
  <2> SUFFICES ASSUME n # p PROVE p # 0 /\ spList'[p - n] = spList[p]
    BY <1>1, <1>2, <1>3
  <2>1. p - n \in 1 .. p - n /\ n + (p - n) = p
    BY SMTT(30), <1>2, <1>3
  <2> QED
    BY SMTT(30), <1>2, <1>3, <2>1
<1>7. PollInv'
  BY <1>0, <1>4, <1>6 DEF PathInv, PollInv
<1>8. ListInv'
  <2>1. Consecutive(spList')
    <3> SUFFICES ASSUME NEW k \in 1 .. p - n PROVE spList'[k] = spList'[1] + (k - 1)
      BY <1>3 DEF Consecutive
    <3>1. 1 \in 1 .. p - n /\ 1 \in 1 .. p
      BY SMTT(30), <1>2, <1>3
    <3>2. spList'[k] = spList[n + k] /\ spList'[1] = spList[n + 1] /\ spList[1] \in Nat
      BY <1>2, <1>3, <3>1, ListType
    <3>3. spList[n + k] = spList[1] + (n + k - 1) /\ spList[n + 1] = spList[1] + (n + 1 - 1)
      BY SMTT(30), <1>2, <1>5, <3>1 DEF PathInv, ListInv, Consecutive
    <3> QED
      BY SMTT(30), <1>2, <1>3, <3>2, <3>3
  <2>2. Consecutive(spChan') /\ (spList' # <<>> /\ spChan' # <<>> => spChan'[1] = spList'[Len(spList')] + 1)
    BY <1>0, <1>6 DEF PathInv, ListInv
  <2>3. Read(spList)' /\ \A k \in DOMAIN spList' : StartingRewardEpoch <= spList'[k]
    BY SMTT(30), <1>0, <1>2, <1>3, <1>4, <1>5 DEF PathInv, ListInv, Read
  <2>4. Read(spChan)' /\ (spChan' # <<>> => EndsWithLast(spChan)')
    BY <1>0, <1>4 DEF PathInv, ListInv, Read, EndsWithLast
  <2>5. spChan' = <<>> /\ spList' # <<>> => EndsWithLast(spList)'
    BY <1>0, <1>4, <1>6 DEF PathInv, ListInv, EndsWithLast
  <2> QED
    BY <2>1, <2>2, <2>3, <2>4, <2>5 DEF ListInv, Consecutive
<1>9. NoPolicyLost'
  <2>1. ASSUME NEW k \in DOMAIN spList
        PROVE  \/ \E l \in DOMAIN spList' : spList'[l] = spList[k]
               \/ StartVotingRound[spList[k]] <= CleanupRound
    <3>1. CASE k \in 1 .. n
      BY <1>3, <3>1
    <3>2. CASE k \notin 1 .. n
      <4>1. k - n \in 1 .. p - n /\ n + (k - n) = k
        BY SMTT(30), <1>2, <1>3, <3>2
      <4> QED
        BY <1>3, <4>1
    <3> QED
      BY <3>1, <3>2
  <2> QED
    BY SMTT(30), <1>0, <1>4, <2>1 DEF PathInv, NoPolicyLost
<1> QED
  BY <1>7, <1>8, <1>9 DEF PathInv

\* Without a process nothing is kept.
LEMMA EmptyPath ==
  ASSUME spList = <<>>, spChan = <<>>, spBatch = {}, spPc = "wait", ~running,
         startTime = 0, spCursor = 0
  PROVE  PathInv
<1>1. DOMAIN spList = {} /\ DOMAIN spChan = {}
  BY SMTT(30)
<1> QED
  BY SMTT(30), <1>1 DEF PathInv, PollInv, ListInv, NoPolicyLost, Read, Consecutive

\* Nothing is on the way before the first start.
LEMMA InitPath == Init => PathInv
  BY EmptyPath DEF Init

\* A process that stops forgets its policies.
LEMMA StopPath ==
  ASSUME Stop
  PROVE  PathInv'
<1>1. /\ spList' = <<>> /\ spChan' = <<>> /\ spBatch' = {} /\ spPc' = "wait" /\ ~running'
      /\ startTime' = 0 /\ spCursor' = 0
  BY DEF Stop
<1>2. DOMAIN spList' = {} /\ DOMAIN spChan' = {}
  BY SMTT(30), <1>1
<1> QED
  BY SMTT(30), <1>1, <1>2 DEF PathInv, PollInv, ListInv, NoPolicyLost, Read, Consecutive

\* A process that starts stores the policies it finds, and listens from the last.
LEMMA StartPath ==
  ASSUME TypeOK, ChainInv, PathInv, Start
  PROVE  PathInv'
<1>0. /\ ~running /\ running' /\ blocks' = blocks /\ now' = now
      /\ spChan' = spChan /\ spBatch' = spBatch /\ spPc' = spPc
      /\ startTime' = spCursor'
  BY DEF Start, envVars
<1>1. spChan = <<>> /\ spBatch = {} /\ DOMAIN spChan = {}
  BY SMTT(30), <1>0 DEF PathInv, PollInv
<1>2. PICK from : from = now - StartTimeOffset
  OBVIOUS
<1>3. from \in Int
  BY SMTT(30), <1>2, ClientAssumption DEF ClientAssumption, TypeOK
<1>4. spList' \in FetchExistingSigningPolicies(from) /\ spCursor' = ListenFrom(from)
  BY <1>2 DEF Start
<1>5. PICK logs : logs = FetchSigningPolicies(from)
  OBVIOUS
<1>6. PICK s : s = spList'
  OBVIOUS
<1>7. /\ s \in Seq(RewardEpoch)
      /\ Consecutive(s)
      /\ \A k \in DOMAIN s : StartingRewardEpoch <= s[k] /\ \E i \in logs : blocks[i].policy = s[k]
      /\ \A i \in logs : StartingRewardEpoch <= blocks[i].policy => \E k \in DOMAIN s : s[k] = blocks[i].policy
  BY SMTT(30), <1>3, <1>4, <1>5, <1>6, FetchedPolicies
<1>8. /\ logs \subseteq Published
      /\ \A i \in logs : from < blocks[i].ts /\ blocks[i].ts <= now
      /\ logs # {} => \E i \in logs : spCursor' = blocks[i].ts /\ \A j \in logs : blocks[j].ts <= blocks[i].ts
  BY <1>3, <1>4, <1>5, ListenFromLast
<1>9. Published' = Published
  BY <1>0 DEF Published
<1>10. s # <<>> => logs # {}
  BY SMTT(30), <1>7
<1>11. spCursor' \in Int /\ spCursor' <= spCursor'
  BY SMTT(30), <1>3, <1>4, StartType
<1>12. PollInv'
  <2>1. startTime' < spCursor' \/ spList' # <<>> \/ spChan' # <<>> => logs # {}
    BY SMTT(30), <1>0, <1>1, <1>6, <1>10, <1>11
  <2>2. spBatch' = {}
    BY <1>0, <1>1
  <2> QED
    BY <1>0, <1>8, <1>9, <1>11, <2>1, <2>2 DEF PollInv
<1>13. Consecutive(spList') /\ Consecutive(spChan') /\ Read(spChan)'
  BY <1>0, <1>1, <1>6, <1>7 DEF Consecutive, Read
<1>14. Read(spList)'
  <2> SUFFICES ASSUME NEW k \in DOMAIN s
               PROVE  \E i \in Published : blocks[i].policy = s[k] /\ blocks[i].ts <= spCursor'
    BY <1>0, <1>6, <1>9 DEF Read
  <2>1. PICK i \in logs : blocks[i].policy = s[k]
    BY <1>7
  <2> QED
    BY <1>8, <2>1
<1>15. s # <<>> => EndsWithLast(spList)'
  <2> SUFFICES ASSUME s # <<>>, NEW j \in Published, blocks[j].ts <= spCursor'
               PROVE  blocks[j].policy <= s[Len(s)]
    BY <1>0, <1>6, <1>9 DEF EndsWithLast
  <2>1. PICK i \in logs : spCursor' = blocks[i].ts /\ \A l \in logs : blocks[l].ts <= blocks[i].ts
    BY <1>8, <1>10
  <2>2. i \in Published
    BY <1>8
  <2>3. \A l \in Published : blocks[l].ts <= blocks[i].ts => blocks[l].policy <= blocks[i].policy
    <3> SUFFICES ASSUME NEW l \in Published, blocks[l].ts <= blocks[i].ts
                 PROVE  blocks[l].policy <= blocks[i].policy
      OBVIOUS
    <3>1. ~(i < l)
      BY SMTT(30), <2>2, BlockType DEF ChainInv
    <3>2. i \in Nat /\ l \in Nat /\ blocks[l].policy \in Nat /\ blocks[i].policy \in Nat
      BY SMTT(30), <2>2, BlockType
    <3>3. CASE l = i
      BY SMTT(30), <3>2, <3>3
    <3>4. CASE l < i
      BY SMTT(30), <2>2, <3>2, <3>4 DEF ChainInv
    <3> QED
      BY SMTT(30), <3>1, <3>2, <3>3, <3>4
  <2>4. DOMAIN s = 1 .. Len(s) /\ Len(s) \in Nat /\ Len(s) # 0
    BY SMTT(30), <1>7
  <2>5. 1 \in DOMAIN s /\ Len(s) \in DOMAIN s
    BY SMTT(30), <2>4
  <2>6. PICK k \in logs : blocks[k].policy = s[1] /\ StartingRewardEpoch <= s[1]
    BY <1>7, <2>5
  <2>7. StartingRewardEpoch <= blocks[i].policy
    <3>1. blocks[k].policy <= blocks[i].policy
      BY <1>8, <2>1, <2>3
    <3>2. blocks[k].policy \in Nat /\ blocks[i].policy \in Nat /\ StartingRewardEpoch \in Nat
      BY <1>8, BlockType, ClientAssumption DEF ClientAssumption
    <3> QED
      BY SMTT(30), <2>6, <3>1, <3>2
  <2>8. PICK n \in DOMAIN s : s[n] = blocks[i].policy
    BY <1>7, <2>7
  <2>9. s[n] <= s[Len(s)]
    <3>1. s[n] = s[1] + (n - 1) /\ s[Len(s)] = s[1] + (Len(s) - 1)
      BY <1>7, <2>5 DEF Consecutive
    <3>2. s[1] \in Nat
      BY <1>8, <2>6, BlockType
    <3>3. n \in 1 .. Len(s)
      BY <2>4
    <3> QED
      BY SMTT(30), <2>4, <3>1, <3>2, <3>3
  <2>10. blocks[j].policy <= blocks[i].policy
    BY <2>1, <2>3
  <2>11. blocks[j].policy \in Nat /\ blocks[i].policy \in Nat /\ s[Len(s)] \in Nat
    <3>1. s[Len(s)] \in RewardEpoch
      BY SMTT(30), <1>7, <2>5
    <3> QED
      BY <2>2, <3>1, BlockType, PolicyAssumption DEF PolicyAssumption
  <2> QED
    BY SMTT(30), <2>8, <2>9, <2>10, <2>11
<1>16. ListInv'
  BY <1>0, <1>1, <1>6, <1>7, <1>13, <1>14, <1>15 DEF ListInv, Consecutive
<1>17. NoPolicyLost'
  <2>1. \A i \in DOMAIN blocks' : ~(startTime' < blocks'[i].ts /\ blocks'[i].ts <= spCursor')
    BY SMTT(30), <1>0, <1>11, BlockType
  <2> QED
    BY <2>1 DEF NoPolicyLost
<1> QED
  BY <1>12, <1>16, <1>17 DEF PathInv

\* Every step keeps the path of the policies.
LEMMA PathStep ==
  ASSUME TypeOK, TypeOK', ChainInv, PathInv, [Next]_vars
  PROVE  PathInv'
<1>1. now \in Nat /\ now <= now
  BY SMTT(30), BlockType
<1>2. CASE UNCHANGED vars
  BY <1>1, <1>2, QuietPath DEF vars, envVars, procVars, pollVars, policyVars
<1>3. CASE Tick
  <2>1. now <= now'
    BY SMTT(30), <1>1, <1>3 DEF Tick
  <2> QED
    BY <1>3, <2>1, QuietPath DEF Tick, procVars, pollVars, policyVars
<1>4. ASSUME NEW ts \in now - MaxLag .. now, IndexBlock(ts) PROVE PathInv'
  <2>1. ts \in Int
    BY SMTT(30), ClientAssumption DEF TypeOK, ClientAssumption
  <2> QED
    BY <1>4, <2>1, IndexPath
<1>5. CASE Start \/ Stop
  BY <1>5, StartPath, StopPath
<1>6. CASE RemoveSubmissions
  BY <1>1, <1>6, QuietPath DEF RemoveSubmissions, envVars, procVars, pollVars
<1>7. CASE PolicyListener /\ ~RemoveSubmissions
  BY <1>7, FetchPath, SendPath, ReceivePath, CleanupPath DEF PolicyListener
<1>8. CASE TxListener
  <2>1. UNCHANGED <<envVars, procVars, pollVars, policyVars>>
    BY <1>8 DEF TxListener, FetchTransactions, TakeTx, LookUpPolicy, CheckFirstPolicy, AddSignature
  <2> QED
    BY <1>1, <2>1, QuietPath DEF envVars, procVars, pollVars, policyVars
<1> QED
  BY <1>2, <1>3, <1>4, <1>5, <1>6, <1>7, <1>8 DEF Next, Environment

\* The path of the policies holds of every behaviour.
LEMMA PathInvariant == Spec => []PathInv
<1>1. TypeOK /\ TypeOK' /\ ChainInv /\ PathInv /\ [Next]_vars => PathInv'
  BY PathStep
<1> QED
  BY <1>1, InitPath, TypeCorrect, ChainInvariant, PTL DEF Spec

\* However late the policies are, however often a query or a parse fails and
\* however often the process restarts, every policy the poller has left behind is
\* in the channel or in the store, or old enough for the cleanup: the channel
\* always goes on where the store ends, so signingPolicyStorage.Add refuses none.
THEOREM NoPolicyLostTheorem == Spec => []NoPolicyLost
<1>1. PathInv => NoPolicyLost
  BY DEF PathInv
<1> QED
  BY <1>1, PathInvariant, PTL

(***************************************************************************)
(* Prompt policies: what is published is delivered before it starts.       *)
(***************************************************************************)

\* With prompt policies, every policy that has started is out of the channel, and
\* the one whose arrival caused the cleanup has not started.
PromptInv ==
  PromptPolicies /\ running =>
    /\ \A i \in Published :
         StartVotingRound[blocks[i].policy] <= VotingRoundAt(now) => Delivered(i)
    /\ spPc = "cleanup" =>
         spList # <<>> /\ StartVotingRound[spList[Len(spList)]] > VotingRoundAt(now)

\* A starting client reads on behind every policy in the database.
LEMMA StartReads ==
  ASSUME TypeOK, ChainInv, Start
  PROVE  \A i \in Published : blocks[i].ts <= spCursor'
<1>1. PICK from : from = now - StartTimeOffset
  OBVIOUS
<1>2. from \in Int
  BY SMTT(30), <1>1, ClientAssumption DEF ClientAssumption, TypeOK
<1>3. spCursor' = ListenFrom(from)
  BY <1>1 DEF Start
<1>4. PICK logs : logs = FetchSigningPolicies(from)
  OBVIOUS
<1>5. /\ logs \subseteq Published
      /\ \A i \in logs : from < blocks[i].ts
      /\ logs = {} => spCursor' = from
      /\ logs # {} => \E i \in logs : spCursor' = blocks[i].ts /\ \A j \in logs : blocks[j].ts <= blocks[i].ts
  BY <1>2, <1>3, <1>4, ListenFromLast
<1>6. \A i \in Published : i \in logs \/ ~(from < blocks[i].ts)
  <2>1. \A i \in Published : i \in DOMAIN blocks /\ blocks[i].policy # NoPolicy /\ blocks[i].ts <= now
    BY BlockType DEF Published, ChainInv
  <2> QED
    BY <1>4, <2>1 DEF FetchSigningPolicies, PolicyLogs, Visible
<1>7. \A i \in Published : blocks[i].ts \in Nat
  BY BlockType
<1>8. CASE logs = {}
  BY SMTT(30), <1>2, <1>5, <1>6, <1>7, <1>8
<1>9. CASE logs # {}
  <2>1. PICK i \in logs : spCursor' = blocks[i].ts /\ \A j \in logs : blocks[j].ts <= blocks[i].ts
    BY <1>5, <1>9
  <2>2. from < blocks[i].ts /\ blocks[i].ts \in Nat
    BY <1>5, <1>7
  <2> QED
    BY SMTT(30), <1>2, <1>6, <1>7, <2>1, <2>2
<1> QED
  BY <1>8, <1>9

\* The current voting round is a number.
LEMMA RoundNow ==
  ASSUME TypeOK
  PROVE  VotingRoundAt(now) \in Int
<1>1. now \in Int
  BY SMTT(30), BlockType
<1> QED
  BY <1>1, VotingRoundType

\* The policy of a new block is one of the reward epochs.
LEMMA NewPolicy ==
  ASSUME TypeOK, NEW ts \in Int, IndexBlock(ts), NEW n, n = Len(blocks) + 1,
         script[n].policy # NoPolicy
  PROVE  script[n].policy \in RewardEpoch /\ StartVotingRound[script[n].policy] \in Nat
<1>1. n <= Len(script) /\ n \in Nat
  BY NewBlock
<1>2. Len(blocks) \in Nat
  BY BlockType
<1>3. n # 0
  BY SMTT(30), <1>2
<1>4. script \in Seq(Content)
  BY ClientAssumption DEF TypeOK, ClientAssumption
<1>5. n \in DOMAIN script
  BY SMTT(30), <1>1, <1>3, <1>4
<1>6. script[n] \in Content
  BY SMTT(30), <1>4, <1>5
<1>7. script[n].policy \in RewardEpoch
  BY <1>6 DEF Content
<1> QED
  BY <1>7, PolicyAssumption DEF PolicyAssumption

\* With prompt policies, a policy that has started has been delivered.
LEMMA PromptStep ==
  ASSUME TypeOK, ChainInv, PathInv, PromptInv, [Next]_vars
  PROVE  PromptInv'
<1> SUFFICES ASSUME PromptPolicies, running'
             PROVE  /\ \A i \in Published' :
                         StartVotingRound[blocks'[i].policy] <= VotingRoundAt(now') => Delivered(i)'
                    /\ spPc' = "cleanup" =>
                         spList' # <<>> /\ StartVotingRound[spList'[Len(spList')]] > VotingRoundAt(now')
  BY DEF PromptInv, VotingRoundAt
<1>1. ASSUME running
      PROVE  /\ \A i \in Published :
                  StartVotingRound[blocks[i].policy] <= VotingRoundAt(now) => Delivered(i)
             /\ spPc = "cleanup" =>
                  spList # <<>> /\ StartVotingRound[spList[Len(spList)]] > VotingRoundAt(now)
  BY <1>1 DEF PromptInv
<1>2. ASSUME running, UNCHANGED <<envVars, pollVars>>, spPc' # "cleanup" \/ UNCHANGED <<spPc, spList>>
      PROVE  PromptInv'
  BY <1>1, <1>2 DEF PromptInv, Delivered, Published, envVars, pollVars, VotingRoundAt
<1>3. CASE Tick
  <2>1. now' = now + 1 /\ running /\ UNCHANGED <<blocks, pollVars, policyVars>>
    BY <1>3 DEF Tick, procVars
  <2>2. /\ spPc = "wait"
        /\ \A i \in Published : StartVotingRound[blocks[i].policy] <= VotingRoundAt(now') => Delivered(i)
    BY <1>3, <2>1 DEF Tick
  <2> QED
    BY <2>1, <2>2 DEF Delivered, Published, pollVars, policyVars
<1>4. ASSUME NEW ts \in now - MaxLag .. now, IndexBlock(ts) PROVE PromptInv'
  <2>0. ts \in Int
    BY SMTT(30), ClientAssumption DEF TypeOK, ClientAssumption
  <2>1. running /\ UNCHANGED <<now, pollVars, policyVars>>
    BY <1>4 DEF IndexBlock, procVars
  <2>2. PICK n : n = Len(blocks) + 1
    OBVIOUS
  <2>3. /\ \A i \in DOMAIN blocks : blocks'[i] = blocks[i]
        /\ blocks'[n] = [ts |-> ts, policy |-> script[n].policy, tx |-> script[n].tx]
        /\ Published' = IF script[n].policy = NoPolicy THEN Published ELSE Published \cup {n}
    BY <1>4, <2>0, <2>2, NewBlock
  <2>4. script[n].policy # NoPolicy => VotingRoundAt(now) < StartVotingRound[script[n].policy]
    BY <1>4, <2>2 DEF IndexBlock
  <2>5. VotingRoundAt(now) \in Int /\ Published \subseteq DOMAIN blocks
    BY BlockType, RoundNow
  <2>6. ASSUME script[n].policy # NoPolicy PROVE StartVotingRound[script[n].policy] \in Nat
    BY <1>4, <2>0, <2>2, <2>6, NewPolicy
  <2>7. ASSUME NEW i \in Published', StartVotingRound[blocks'[i].policy] <= VotingRoundAt(now')
        PROVE  Delivered(i)'
    <3>1. blocks'[n].policy = script[n].policy
      BY SMTT(30), <2>3
    <3>2. i \in Published
      BY SMTT(30), <2>1, <2>3, <2>4, <2>5, <2>6, <2>7, <3>1
    <3>3. blocks'[i] = blocks[i] /\ Delivered(i)
      BY <1>1, <2>1, <2>3, <2>5, <2>7, <3>2
    <3> QED
      BY <2>1, <3>3 DEF Delivered, pollVars
  <2> QED
    BY <1>1, <2>1, <2>7 DEF PromptInv, policyVars, VotingRoundAt
<1>5. CASE Start
  <2>1. /\ blocks' = blocks /\ Published' = Published /\ spPc' = spPc /\ ~running
        /\ spChan' = spChan
    BY <1>5 DEF Start, envVars, Published
  <2>2. spPc = "wait" /\ spChan = <<>> /\ DOMAIN spChan = {}
    BY SMTT(30), <2>1 DEF PathInv, PollInv
  <2> QED
    BY <1>5, <2>1, <2>2, StartReads DEF Delivered
<1>6. CASE Stop
  BY <1>6 DEF Stop
<1>7. CASE FetchPolicyLogs \/ PolicyParseError
  BY <1>1, <1>7 DEF FetchPolicyLogs, PolicyParseError, Delivered, Published, envVars, policyVars, VotingRoundAt
<1>8. CASE SendPolicy
  <2>1. running /\ UNCHANGED <<envVars, policyVars>> /\ Published' = Published
    BY <1>8 DEF SendPolicy, envVars, Published
  <2>2. PICK i \in Earliest(spBatch) :
          /\ spChan' = Append(spChan, blocks[i].policy)
          /\ spCursor' = blocks[i].ts
    BY <1>8 DEF SendPolicy
  <2>3. i \in Published /\ spCursor < blocks[i].ts
    BY <2>2, ListType DEF Earliest, PathInv, PollInv
  <2>4. ASSUME NEW j \in Published, Delivered(j)
        PROVE  blocks[j].ts <= spCursor' /\ blocks[j].policy \notin {spChan'[k] : k \in DOMAIN spChan'}
    <3>1. blocks[j].ts <= spCursor /\ \A k \in DOMAIN spChan : spChan[k] # blocks[j].policy
      BY <2>4 DEF Delivered
    <3>2. /\ blocks[j].ts \in Nat /\ blocks[i].ts \in Nat /\ spCursor \in Int /\ i \in Nat /\ j \in Nat
          /\ blocks[j].policy \in Nat /\ blocks[i].policy \in Nat /\ blocks[i].policy \in RewardEpoch
      BY SMTT(30), <2>3, BlockType, ListType
    <3>3. blocks[j].ts < blocks[i].ts
      BY SMTT(30), <2>3, <3>1, <3>2
    <3>4. i # j /\ (j < i \/ i < j)
      BY SMTT(30), <3>2, <3>3
    <3>5. blocks[j].policy # blocks[i].policy
      BY SMTT(30), <2>3, <3>2, <3>4 DEF ChainInv
    <3>6. \A k \in DOMAIN spChan' :
            (k \in DOMAIN spChan /\ spChan'[k] = spChan[k]) \/ spChan'[k] = blocks[i].policy
      <4>1. spChan \in Seq(RewardEpoch)
        BY ListType
      <4> QED
        BY SMTT(30), <2>2, <3>2, <4>1
    <3>7. blocks[j].ts <= spCursor'
      BY SMTT(30), <2>2, <3>2, <3>3
    <3>8. \A k \in DOMAIN spChan' : spChan'[k] # blocks[j].policy
      BY <3>1, <3>5, <3>6
    <3> QED
      BY <3>7, <3>8
  <2> QED
    BY <1>1, <2>1, <2>4 DEF Delivered, envVars, policyVars
<1>9. CASE ReceivePolicy
  <2>1. running /\ UNCHANGED <<envVars, spCursor>> /\ Published' = Published /\ spChan # <<>> /\ spPc = "wait"
    BY <1>9 DEF ReceivePolicy, envVars, Published
  <2>2. \A k \in DOMAIN spChan' : \E l \in DOMAIN spChan : spChan'[k] = spChan[l]
    <3>1. spChan' = Tail(spChan) /\ spChan \in Seq(RewardEpoch)
      BY <1>9, ListType DEF ReceivePolicy
    <3>2. \A k \in DOMAIN spChan' : k + 1 \in DOMAIN spChan /\ spChan'[k] = spChan[k + 1]
      BY SMTT(30), <2>1, <3>1
    <3> QED
      BY <3>2
  <2>3. \A i \in Published : Delivered(i) => Delivered(i)'
    BY <2>1, <2>2 DEF Delivered, envVars
  <2>4. PICK h : h = Head(spChan)
    OBVIOUS
  <2>5. h = spChan[1] /\ 1 \in DOMAIN spChan /\ h \in RewardEpoch
    BY SMTT(30), <2>1, <2>4, ListType
  <2>6. StartVotingRound[h] > VotingRoundAt(now)
    <3>1. PICK i \in Published : blocks[i].policy = h
      BY <2>5 DEF PathInv, ListInv, Read
    <3>2. ~Delivered(i)
      BY <2>5, <3>1 DEF Delivered
    <3>3. ~(StartVotingRound[h] <= VotingRoundAt(now))
      BY <1>1, <2>1, <3>1, <3>2
    <3>4. StartVotingRound[h] \in Nat /\ VotingRoundAt(now) \in Int
      BY <3>1, BlockType, RoundNow
    <3> QED
      BY SMTT(30), <3>3, <3>4
  <2>7. spPc' = "cleanup" => spList' # <<>> /\ spList'[Len(spList')] = h
    <3> SUFFICES ASSUME spPc' = "cleanup" PROVE spList' # <<>> /\ spList'[Len(spList')] = h
      OBVIOUS
    <3>1. spList' = Append(spList, h) /\ spList \in Seq(RewardEpoch)
      BY <1>9, <2>1, <2>4, ReceiveAccepts, ListType DEF ReceivePolicy
    <3> QED
      BY SMTT(30), <2>5, <3>1
  <2> QED
    BY <1>1, <2>1, <2>3, <2>6, <2>7 DEF envVars
<1>10. CASE RewardEpochCleanup \/ RemoveSubmissions
  <2>1. running /\ UNCHANGED <<envVars, pollVars>> /\ spPc' # "cleanup"
    BY <1>10 DEF RewardEpochCleanup, RemoveSubmissions
  <2> QED
    BY <1>2, <2>1 DEF PromptInv
<1>11. CASE UNCHANGED <<envVars, procVars, pollVars, policyVars>>
  BY <1>2, <1>11 DEF procVars, policyVars, PromptInv
<1>12. TxListener \/ UNCHANGED vars => UNCHANGED <<envVars, procVars, pollVars, policyVars>>
  BY DEF vars, TxListener, FetchTransactions, TakeTx, LookUpPolicy, CheckFirstPolicy, AddSignature
<1>13. PromptInv' => /\ \A i \in Published' :
                         StartVotingRound[blocks'[i].policy] <= VotingRoundAt(now') => Delivered(i)'
                     /\ spPc' = "cleanup" =>
                         spList' # <<>> /\ StartVotingRound[spList'[Len(spList')]] > VotingRoundAt(now')
  BY DEF PromptInv, VotingRoundAt
<1> QED
  BY <1>3, <1>4, <1>5, <1>6, <1>7, <1>8, <1>9, <1>10, <1>11, <1>12, <1>13 DEF Next, Environment, PolicyListener

\* Policies are prompt in every behaviour that is meant to have prompt policies.
LEMMA PromptInvariant == Spec => []PromptInv
<1>1. Init => PromptInv
  BY DEF Init, PromptInv
<1>2. TypeOK /\ ChainInv /\ PathInv /\ PromptInv /\ [Next]_vars => PromptInv'
  BY PromptStep
<1> QED
  BY <1>1, <1>2, TypeCorrect, ChainInvariant, PathInvariant, PTL DEF Spec

(***************************************************************************)
(* The cleanup keeps the policies in use.                                  *)
(***************************************************************************)

\* A reward epoch, and one voting round, are over within two start offsets: the
\* default offset is seven days.
ShortRewardEpochs ==
  \A e \in RewardEpoch : e + 1 \in RewardEpoch =>
    (StartVotingRound[e + 1] - StartVotingRound[e] + 1) * VotingPeriod <= 2 * StartTimeOffset

\* The time a voting round spans.
LEMMA RoundSpan ==
  ASSUME NEW t \in Nat
  PROVE  /\ VotingRoundAt(t) \in Nat
         /\ VotingRoundAt(t) * VotingPeriod <= t
         /\ t < (VotingRoundAt(t) + 1) * VotingPeriod
<1>1. VotingPeriod \in Nat \ {0}
  BY PolicyAssumption DEF PolicyAssumption
<1>2. VotingRoundAt(t) = t \div VotingPeriod
  BY SMTT(30), <1>1 DEF VotingRoundAt, EpochIndex, TruncDiv
<1>3. PICK q, p : q = t \div VotingPeriod /\ p = VotingPeriod
  OBVIOUS
<1>4. p \in Nat \ {0} /\ q = t \div p
  BY <1>1, <1>3
<1>5. q \in Nat /\ p * q <= t /\ t < p * (q + 1)
  BY SMTT(30), <1>4
<1>6. p * q = q * p /\ p * (q + 1) = (q + 1) * p
  BY SMTT(30), <1>4, <1>5
<1> QED
  BY <1>2, <1>3, <1>5, <1>6

\* Policies are published before they start, so none of them starts at round 0.
AheadInv == \A i \in Published : StartVotingRound[blocks[i].policy] # 0

LEMMA AheadStep ==
  ASSUME TypeOK, AheadInv, [Next]_vars
  PROVE  AheadInv'
<1>1. CASE UNCHANGED blocks
  BY <1>1 DEF AheadInv, Published
<1>2. ASSUME NEW ts \in now - MaxLag .. now, IndexBlock(ts) PROVE AheadInv'
  <2>0. ts \in Int
    BY SMTT(30), ClientAssumption DEF TypeOK, ClientAssumption
  <2>1. PICK n : n = Len(blocks) + 1
    OBVIOUS
  <2>2. /\ \A i \in DOMAIN blocks : blocks'[i] = blocks[i]
        /\ blocks'[n] = [ts |-> ts, policy |-> script[n].policy, tx |-> script[n].tx]
        /\ Published' = IF script[n].policy = NoPolicy THEN Published ELSE Published \cup {n}
    BY <1>2, <2>0, <2>1, NewBlock
  <2>3. blocks'[n].policy = script[n].policy /\ \A i \in Published : blocks'[i] = blocks[i]
    BY SMTT(30), <2>2 DEF Published
  <2>4. ASSUME script[n].policy # NoPolicy PROVE StartVotingRound[script[n].policy] # 0
    <3>1. PICK t \in {now, ts} : VotingRoundAt(t) < StartVotingRound[script[n].policy]
      BY <1>2, <2>1, <2>4 DEF IndexBlock
    <3>2. t \in Nat
      BY SMTT(30), <1>2, <2>0 DEF IndexBlock, TypeOK
    <3>3. VotingRoundAt(t) \in Nat
      BY <3>2, RoundSpan
    <3> QED
      BY SMTT(30), <3>1, <3>3
  <2> QED
    BY <2>2, <2>3, <2>4 DEF AheadInv
<1> QED
  BY <1>1, <1>2
     DEF Next, Environment, Tick, Start, Stop, PolicyListener, FetchPolicyLogs, SendPolicy,
         PolicyParseError, ReceivePolicy, RewardEpochCleanup, RemoveSubmissions, TxListener,
         FetchTransactions, TakeTx, LookUpPolicy, CheckFirstPolicy, AddSignature, vars, envVars

LEMMA AheadInvariant == Spec => []AheadInv
<1>1. Init => AheadInv
  <2> SUFFICES ASSUME Init PROVE AheadInv
    OBVIOUS
  <2>1. DOMAIN blocks = {}
    BY SMTT(30) DEF Init
  <2> QED
    BY <2>1 DEF AheadInv, Published
<1> QED
  BY <1>1, AheadStep, TypeCorrect, PTL DEF Spec

\* A policy that the cleanup may drop does not precede one that has yet to start.
LEMMA TooOldToPrecede ==
  ASSUME TypeOK, ShortRewardEpochs, NEW e \in RewardEpoch, e + 1 \in RewardEpoch,
         StartVotingRound[e] # 0, StartVotingRound[e] <= CleanupRound,
         VotingRoundAt(now) <= StartVotingRound[e + 1]
  PROVE  FALSE
<1>1. PICK a, b, p, t, r, c, w :
         /\ a = StartVotingRound[e] /\ b = StartVotingRound[e + 1] /\ p = VotingPeriod
         /\ t = now - 2 * StartTimeOffset /\ r = VotingRoundAt(now) /\ c = VotingRoundAt(t)
         /\ w = 2 * StartTimeOffset
  OBVIOUS
<1>2. a \in Nat /\ b \in Nat /\ p \in Nat \ {0} /\ a # 0
  <2>1. StartVotingRound[e] \in Nat /\ StartVotingRound[e + 1] \in Nat /\ VotingPeriod \in Nat \ {0}
    BY PolicyAssumption DEF PolicyAssumption
  <2> QED
    BY <1>1, <2>1
<1>3. now \in Nat /\ w \in Nat /\ t \in Int /\ t = now - w
  <2>1. now \in Nat /\ StartTimeOffset \in Nat
    BY ClientAssumption DEF ClientAssumption, TypeOK
  <2> QED
    BY SMTT(30), <1>1, <2>1
<1>4. a <= c /\ r <= b /\ (b - a + 1) * p <= w
  <2>1. a <= c /\ r <= b
    BY <1>1 DEF CleanupRound
  <2>2. (StartVotingRound[e + 1] - StartVotingRound[e] + 1) * VotingPeriod <= 2 * StartTimeOffset
    BY DEF ShortRewardEpochs
  <2> QED
    BY <1>1, <2>1, <2>2
<1>5. CASE t < 0
  <2>1. c = -((-t) \div p)
    BY SMTT(30), <1>1, <1>3, <1>5 DEF VotingRoundAt, EpochIndex, TruncDiv
  <2>2. (-t) \div p \in Nat
    BY SMTT(30), <1>2, <1>3, <1>5
  <2> QED
    BY SMTT(30), <1>2, <1>4, <2>1, <2>2
<1>6. CASE t >= 0
  <2>1. t \in Nat
    BY SMTT(30), <1>3, <1>6
  <2>2. c \in Nat /\ c * p <= t
    BY <1>1, <2>1, RoundSpan
  <2>3. r \in Nat /\ now < (r + 1) * p
    BY <1>1, <1>3, RoundSpan
  <2>4. \A x, y \in Nat : x <= y => x * p <= y * p
    BY SMTT(30), <1>2
  <2>5. a * p <= c * p /\ (r + 1) * p <= (b + 1) * p
    <3>1. r + 1 \in Nat /\ b + 1 \in Nat /\ r + 1 <= b + 1
      BY SMTT(30), <1>2, <1>4, <2>3
    <3> QED
      BY <1>2, <1>4, <2>2, <2>4, <3>1
  <2>6. PICK A, B : A = a * p /\ B = (b + 1) * p
    OBVIOUS
  <2>7. (b - a + 1) * p = B - A /\ A \in Nat /\ B \in Nat
    BY SMTT(30), <1>2, <2>6
  <2>8. c * p \in Nat /\ (r + 1) * p \in Nat
    BY SMTT(30), <1>2, <2>2, <2>3
  <2>9. A <= t
    BY SMTT(30), <1>3, <2>2, <2>5, <2>6, <2>7, <2>8
  <2>10. now < B
    BY SMTT(30), <1>3, <2>3, <2>5, <2>6, <2>7, <2>8
  <2>11. B - A <= w
    BY <1>4, <2>7
  <2> QED
    BY SMTT(30), <1>3, <2>7, <2>9, <2>10, <2>11
<1> QED
  BY SMTT(30), <1>3, <1>5, <1>6

\* The cleanup keeps the policy in use: another one follows it in the store, which
\* starts later than the current round.
LEMMA CleanupKeepsInUse ==
  ASSUME TypeOK, PathInv, PromptInv, AheadInv, PromptPolicies, ShortRewardEpochs, RewardEpochCleanup,
         NEW k \in DOMAIN spList,
         Governs(spList[k], VotingRoundAt(now)) \/ Governs(spList[k], VotingRoundAt(now) - 1)
  PROVE  \E l \in DOMAIN spList' : spList'[l] = spList[k]
<1>1. PICK p : p = Len(spList)
  OBVIOUS
<1>2. p \in Nat /\ DOMAIN spList = 1 .. p /\ p \in DOMAIN spList
  BY SMTT(30), <1>1, ListType
<1>3. PICK n \in 0 .. p :
           /\ DOMAIN spList' = 1 .. p - n
           /\ \A l \in 1 .. p - n : spList'[l] = spList[n + l]
           /\ \A l \in 1 .. n : StartVotingRound[spList[l]] <= CleanupRound
  BY <1>1, CleanupSuffix
<1>4. CASE k \notin 1 .. n
  <2>1. k - n \in 1 .. p - n /\ n + (k - n) = k
    BY SMTT(30), <1>2, <1>3, <1>4
  <2> QED
    BY <1>3, <2>1
<1>5. CASE k \in 1 .. n
  <2>1. PICK e : e = spList[k]
    OBVIOUS
  <2>2. e \in RewardEpoch /\ e \in Nat /\ StartVotingRound[e] \in Nat /\ VotingRoundAt(now) \in Int
    BY <2>1, ListType, RoundNow, PolicyAssumption DEF PolicyAssumption
  <2>3. StartVotingRound[e] <= VotingRoundAt(now)
    BY SMTT(30), <2>1, <2>2 DEF Governs
  <2>4. k # p
    <3>1. running /\ spPc = "cleanup"
      BY DEF RewardEpochCleanup
    <3>2. StartVotingRound[spList[p]] > VotingRoundAt(now)
      BY <1>1, <3>1 DEF PromptInv
    <3>3. k = p => StartVotingRound[e] > VotingRoundAt(now)
      BY <2>1, <3>2
    <3> QED
      BY SMTT(30), <2>2, <2>3, <3>3
  <2>5. k + 1 \in DOMAIN spList
    BY SMTT(30), <1>2, <2>4
  <2>6. spList[k + 1] = e + 1
    <3>1. spList[k] = spList[1] + (k - 1) /\ spList[k + 1] = spList[1] + ((k + 1) - 1)
      BY <2>5 DEF PathInv, ListInv, Consecutive
    <3>2. 1 \in DOMAIN spList /\ k \in Nat
      BY SMTT(30), <1>2
    <3>3. spList[1] \in Nat
      BY <3>2, ListType
    <3> QED
      BY SMTT(30), <2>1, <3>1, <3>2, <3>3
  <2>7. e + 1 \in RewardEpoch
    BY <2>5, <2>6, ListType
  <2>8. PICK i \in Published : blocks[i].policy = e + 1
    BY <2>5, <2>6 DEF PathInv, ListInv, Read
  <2>9. e + 1 > e /\ StartVotingRound[e + 1] \in Nat
    BY SMTT(30), <2>2, <2>8, BlockType
  <2>10. StartVotingRound[e + 1] > VotingRoundAt(now) \/ StartVotingRound[e + 1] > VotingRoundAt(now) - 1
    BY <2>1, <2>8, <2>9 DEF Governs
  <2>11. VotingRoundAt(now) <= StartVotingRound[e + 1]
    BY SMTT(30), <2>2, <2>9, <2>10
  <2>12. StartVotingRound[e] <= CleanupRound
    BY <1>3, <1>5, <2>1
  <2>13. StartVotingRound[e] # 0
    BY <2>1 DEF PathInv, ListInv, Read, AheadInv
  <2> QED
    BY <2>2, <2>7, <2>11, <2>12, <2>13, TooOldToPrecede
<1> QED
  BY <1>4, <1>5

\* Every other step of the running process keeps the policies in the store.
LEMMA PoliciesKept ==
  ASSUME TypeOK, PathInv, [Next]_vars, ~RewardEpochCleanup, running', NEW k \in DOMAIN spList
  PROVE  \E l \in DOMAIN spList' : spList'[l] = spList[k]
<1>1. CASE spList' = spList
  BY <1>1
<1>2. CASE Start
  <2>1. spList = <<>>
    BY <1>2 DEF Start, PathInv, PollInv
  <2>2. DOMAIN spList = {}
    BY SMTT(30), <2>1
  <2> QED
    BY <2>2
<1>3. CASE Stop
  BY <1>3 DEF Stop
<1>4. CASE ReceivePolicy
  <2>1. spList' = spList \/ (spList' = Append(spList, Head(spChan)) /\ spChan # <<>>)
    BY <1>4, ReceiveAccepts DEF ReceivePolicy
  <2>2. spList \in Seq(RewardEpoch)
    BY ListType
  <2>3. CASE spList' = Append(spList, Head(spChan)) /\ spChan # <<>>
    <3>1. Head(spChan) \in RewardEpoch
      BY SMTT(30), <2>3, ListType
    <3>2. k \in DOMAIN spList' /\ spList'[k] = spList[k]
      BY SMTT(30), <2>2, <2>3, <3>1
    <3> QED
      BY <3>2
  <2> QED
    BY <1>1, <2>1, <2>3
<1> QED
  BY <1>1, <1>2, <1>3, <1>4
     DEF Next, Environment, Tick, IndexBlock, PolicyListener, FetchPolicyLogs, SendPolicy,
         PolicyParseError, RemoveSubmissions, TxListener, FetchTransactions, TakeTx, LookUpPolicy,
         CheckFirstPolicy, AddSignature, policyVars, vars

\* When policies are prompt and reward epochs are short against the start offset,
\* no step of the running process forgets the policy that governs the current or
\* the previous voting round: rewardEpochCleanup runs when a later policy arrives,
\* and that one has not started.
THEOREM InUseTheorem ==
  ASSUME PromptPolicies, ShortRewardEpochs
  PROVE  Spec => PolicyInUseKept
<1> DEFINE Keep == \A k \in DOMAIN spList :
             (Governs(spList[k], VotingRoundAt(now)) \/ Governs(spList[k], VotingRoundAt(now) - 1))
               => \E l \in DOMAIN spList' : spList'[l] = spList[k]
<1>1. TypeOK /\ PathInv /\ PromptInv /\ AheadInv /\ [Next]_vars => [running' => Keep]_vars
  BY CleanupKeepsInUse, PoliciesKept
<1> QED
  BY <1>1, TypeCorrect, PathInvariant, PromptInvariant, AheadInvariant, PTL DEF Spec, PolicyInUseKept

=============================================================================
