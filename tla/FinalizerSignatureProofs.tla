---------------------- MODULE FinalizerSignatureProofs ----------------------
(***************************************************************************)
(* Proofs about the signatures in FinalizerClient when every policy is in  *)
(* the store before it starts: each meets the policy of the round its      *)
(* payload item gives, a queued message outweighs the threshold of such a  *)
(* policy, and no signature is lost.                                       *)
(***************************************************************************)
EXTENDS FinalizerPolicyProofs

\* Leaves without a pragma are for Zenon; the others need arithmetic or records.
USE ZenonT(30)

(***************************************************************************)
(* Signatures are stored under the policy that governs their round.        *)
(***************************************************************************)

\* A payload item on the chain gives round r for message m.
Announced(m, r) ==
  \E i \in DOMAIN blocks :
    /\ blocks[i].tx # NoTx
    /\ \E k \in DOMAIN blocks[i].tx :
         blocks[i].tx[k].message = m /\ blocks[i].tx[k].votingRoundId = r

\* With prompt policies, messages are stored under the policy that governs a round
\* announced for them, and no later policy can take the round over; the lookup at
\* hand is for the round of the item.
GovernInv ==
  PromptPolicies =>
    /\ \A m \in Message : Stored(m) =>
         \E r \in Nat : Announced(m, r) /\ Governs(subs[m].policy, r) /\ r <= VotingRoundAt(now)
    /\ subPc = "add" => Governs(subLookup.sp, Round)
    /\ subPc \in {"first", "add"} => Round <= VotingRoundAt(now)

\* What governs, and what is announced, after a step.
GovernsNext(e, round) ==
  /\ StartVotingRound[e] <= round
  /\ \E i \in Published' : blocks'[i].policy = e
  /\ \A i \in Published' : blocks'[i].policy > e => StartVotingRound[blocks'[i].policy] > round

AnnouncedNext(m, r) ==
  \E i \in DOMAIN blocks' :
    /\ blocks'[i].tx # NoTx
    /\ \E k \in DOMAIN blocks'[i].tx :
         blocks'[i].tx[k].message = m /\ blocks'[i].tx[k].votingRoundId = r

\* The payload items on the chain are those of its transactions.
LEMMA OnChain ==
  ASSUME NEW i \in DOMAIN blocks, blocks[i].tx # NoTx, NEW k \in DOMAIN blocks[i].tx
  PROVE  blocks[i].tx[k] \in ItemsOnChain
<1>1. PICK S : S = {blocks[i].tx[l] : l \in DOMAIN blocks[i].tx}
  OBVIOUS
<1>2. blocks[i].tx[k] \in S
  BY <1>1
<1>3. i \in {j \in DOMAIN blocks : blocks[j].tx # NoTx}
  OBVIOUS
<1>4. S \in {{blocks[j].tx[l] : l \in DOMAIN blocks[j].tx} : j \in {h \in DOMAIN blocks : blocks[h].tx # NoTx}}
  BY <1>1, <1>3
<1> QED
  BY <1>2, <1>4 DEF ItemsOnChain

\* The announced rounds are those of the items on the chain.
LEMMA AnnouncedIn ==
  ASSUME NEW m, NEW r
  PROVE  Announced(m, r) => r \in AnnouncedRounds(m)
<1> SUFFICES ASSUME Announced(m, r) PROVE r \in AnnouncedRounds(m)
  OBVIOUS
<1>1. PICK i \in {j \in DOMAIN blocks : blocks[j].tx # NoTx} : \E k \in DOMAIN blocks[i].tx :
         blocks[i].tx[k].message = m /\ blocks[i].tx[k].votingRoundId = r
  BY DEF Announced
<1>2. PICK k \in DOMAIN blocks[i].tx :
         blocks[i].tx[k].message = m /\ blocks[i].tx[k].votingRoundId = r
  BY <1>1
<1>3. blocks[i].tx[k] \in ItemsOnChain
  BY OnChain
<1> QED
  BY <1>2, <1>3 DEF AnnouncedRounds

\* The database only grows: what is announced stays so.
LEMMA AnnouncedStep ==
  ASSUME TypeOK, [Next]_vars, NEW m, NEW r, Announced(m, r)
  PROVE  AnnouncedNext(m, r)
<1>1. CASE blocks' = blocks
  BY <1>1 DEF Announced, AnnouncedNext
<1>2. ASSUME NEW ts \in now - MaxLag .. now, IndexBlock(ts)
      PROVE  AnnouncedNext(m, r)
  <2>1. ts \in Int
    BY SMTT(30), ClientAssumption DEF TypeOK, ClientAssumption
  <2>2. PICK n : n = Len(blocks) + 1
    OBVIOUS
  <2>3. DOMAIN blocks \subseteq DOMAIN blocks' /\ \A i \in DOMAIN blocks : blocks'[i] = blocks[i]
    BY <1>2, <2>1, <2>2, NewBlock
  <2> QED
    BY <2>3 DEF Announced, AnnouncedNext
<1>3. Next => blocks' = blocks \/ \E ts \in now - MaxLag .. now : IndexBlock(ts)
  BY DEF Next, Environment, Tick, Start, Stop, PolicyListener, FetchPolicyLogs, SendPolicy,
         PolicyParseError, ReceivePolicy, RewardEpochCleanup, RemoveSubmissions, TxListener,
         FetchTransactions, TakeTx, LookUpPolicy, CheckFirstPolicy, AddSignature, envVars
<1> QED
  BY <1>1, <1>2, <1>3 DEF vars, envVars

\* The item at hand is on the chain.
LEMMA ItemAnnounced ==
  ASSUME TypeOK, subPc # "loop"
  PROVE  Announced(Item.message, Round) /\ Round \in Nat
<1>1. subTx \in DOMAIN blocks /\ blocks[subTx].tx # NoTx /\ subItem \in DOMAIN blocks[subTx].tx
  BY DEF TypeOK
<1> QED
  BY <1>1, ItemType DEF Announced, Item, Round

\* With prompt policies no later block changes which policy governs a round that
\* has begun.
LEMMA GovernsStable ==
  ASSUME TypeOK, PromptPolicies, [Next]_vars, NEW e, NEW round \in Nat, round <= VotingRoundAt(now)
  PROVE  Governs(e, round)' <=> Governs(e, round)
<1>1. CASE blocks' = blocks
  BY <1>1 DEF Governs, Published
<1>2. ASSUME NEW ts \in now - MaxLag .. now, IndexBlock(ts)
      PROVE  Governs(e, round)' <=> Governs(e, round)
  <2>0. ts \in Int
    BY SMTT(30), ClientAssumption DEF TypeOK, ClientAssumption
  <2>1. PICK n : n = Len(blocks) + 1
    OBVIOUS
  <2>2. /\ \A i \in DOMAIN blocks : blocks'[i] = blocks[i]
        /\ blocks'[n] = [ts |-> ts, policy |-> script[n].policy, tx |-> script[n].tx]
        /\ Published' = IF script[n].policy = NoPolicy THEN Published ELSE Published \cup {n}
    BY <1>2, <2>0, <2>1, NewBlock
  <2>3. Published \subseteq DOMAIN blocks /\ VotingRoundAt(now) \in Int
    BY BlockType, RoundNow
  <2>4. /\ \A i \in Published : i \in Published' /\ blocks'[i] = blocks[i]
        /\ \A i \in Published' : i \in Published \/ (i = n /\ script[n].policy # NoPolicy)
        /\ blocks'[n].policy = script[n].policy
    BY SMTT(30), <2>2, <2>3
  <2>5. ASSUME script[n].policy # NoPolicy PROVE ~(StartVotingRound[script[n].policy] <= round)
                                                 /\ StartVotingRound[script[n].policy] > round
    <3>1. VotingRoundAt(now) < StartVotingRound[script[n].policy]
      BY <1>2, <2>1, <2>5 DEF IndexBlock
    <3>2. StartVotingRound[script[n].policy] \in Nat
      BY <1>2, <2>0, <2>1, <2>5, NewPolicy
    <3> QED
      BY SMTT(30), <2>3, <3>1, <3>2
  <2> QED
    BY <2>4, <2>5 DEF Governs
<1>3. Next => blocks' = blocks \/ \E ts \in now - MaxLag .. now : IndexBlock(ts)
  BY DEF Next, Environment, Tick, Start, Stop, PolicyListener, FetchPolicyLogs, SendPolicy,
         PolicyParseError, ReceivePolicy, RewardEpochCleanup, RemoveSubmissions, TxListener,
         FetchTransactions, TakeTx, LookUpPolicy, CheckFirstPolicy, AddSignature, envVars
<1> QED
  BY <1>1, <1>2, <1>3 DEF vars, envVars

\* What governs after a step is what governed before it, for rounds that have begun.
LEMMA GovernsBefore ==
  ASSUME TypeOK, PromptPolicies, [Next]_vars, NEW e, NEW round \in Nat, round <= VotingRoundAt(now)
  PROVE  GovernsNext(e, round) <=> Governs(e, round)
<1>1. Governs(e, round)' <=> GovernsNext(e, round)
  BY DEF Governs, GovernsNext
<1> QED
  BY <1>1, GovernsStable

\* Time and with it the voting round go on.
LEMMA TimeStep ==
  ASSUME TypeOK, [Next]_vars
  PROVE  now <= now' /\ now' \in Nat /\ VotingRoundAt(now) <= VotingRoundAt(now')
         /\ VotingRoundAt(now') \in Int
<1>1. now \in Nat
  BY BlockType
<1>2. now' = now \/ now' = now + 1
  BY DEF Next, Environment, Tick, IndexBlock, Start, Stop, PolicyListener, FetchPolicyLogs, SendPolicy,
         PolicyParseError, ReceivePolicy, RewardEpochCleanup, RemoveSubmissions, TxListener,
         FetchTransactions, TakeTx, LookUpPolicy, CheckFirstPolicy, AddSignature, envVars, vars
<1>3. now <= now' /\ now' \in Int /\ now \in Int /\ now' \in Nat
  BY SMTT(30), <1>1, <1>2
<1> QED
  BY <1>3, RoundMonotone, VotingRoundType

\* The store is in ascending order, and behind a policy in it follow all the later
\* ones that have been delivered.
LEMMA StoreComplete ==
  ASSUME TypeOK, PathInv
  PROVE  /\ \A j, k \in DOMAIN spList : j < k =>
              spList[j] < spList[k] /\ StartVotingRound[spList[j]] < StartVotingRound[spList[k]]
         /\ \A p \in DOMAIN spList : \A i \in Published :
              Delivered(i) /\ blocks[i].policy > spList[p] =>
                \E q \in DOMAIN spList : spList[q] = blocks[i].policy /\ p < q
<1>1. PICK n : n = Len(spList)
  OBVIOUS
<1>2. n \in Nat /\ DOMAIN spList = 1 .. n /\ \A k \in 1 .. n : spList[k] \in Nat /\ spList[k] \in RewardEpoch
  BY <1>1, ListType
<1>3. \A k \in 1 .. n : spList[k] = spList[1] + (k - 1)
  BY <1>2 DEF PathInv, ListInv, Consecutive
<1>4. ASSUME NEW j \in DOMAIN spList, NEW k \in DOMAIN spList, j < k
      PROVE  spList[j] < spList[k] /\ StartVotingRound[spList[j]] < StartVotingRound[spList[k]]
  <2>1. spList[j] = spList[1] + (j - 1) /\ spList[k] = spList[1] + (k - 1) /\ spList[1] \in Nat
        /\ j \in Nat /\ k \in Nat
    BY SMTT(30), <1>2, <1>3
  <2>2. spList[j] < spList[k]
    BY SMTT(30), <1>4, <2>1
  <2> QED
    BY <1>2, <2>2, PolicyAssumption DEF PolicyAssumption
<1>5. ASSUME NEW p \in DOMAIN spList, NEW i \in Published, Delivered(i), blocks[i].policy > spList[p]
      PROVE  \E q \in DOMAIN spList : spList[q] = blocks[i].policy /\ p < q
  <2>1. PICK e : e = blocks[i].policy
    OBVIOUS
  <2>2. e \in Nat /\ p \in 1 .. n /\ n # 0 /\ 1 \in 1 .. n /\ n \in 1 .. n
    BY SMTT(30), <1>2, <2>1, BlockType
  <2>3. /\ spList[p] = spList[1] + (p - 1) /\ spList[n] = spList[1] + (n - 1)
        /\ spList[1] \in Nat /\ spList[p] < e
    BY <1>2, <1>3, <1>5, <2>1, <2>2
  <2>4. e <= spList[n]
    <3>1. blocks[i].ts <= spCursor /\ \A k \in DOMAIN spChan : spChan[k] # e
      BY <1>5, <2>1 DEF Delivered
    <3>2. CASE spChan = <<>>
      <4>1. spList # <<>>
        BY <1>1, <2>2, ListType
      <4> QED
        BY <1>1, <2>1, <3>1, <3>2, <4>1 DEF PathInv, ListInv, EndsWithLast
    <3>3. CASE spChan # <<>>
      <4>1. PICK c : c = Len(spChan)
        OBVIOUS
      <4>2. c \in Nat /\ c # 0 /\ DOMAIN spChan = 1 .. c
        BY <3>3, <4>1, ListType
      <4>3. \A k \in 1 .. c : spChan[k] = spChan[1] + (k - 1)
        BY <4>2 DEF PathInv, ListInv, Consecutive
      <4>4. e <= spChan[c]
        BY <2>1, <3>1, <3>3, <4>1 DEF PathInv, ListInv, EndsWithLast
      <4>5. spChan[1] = spList[n] + 1
        <5>1. spList # <<>>
          BY <1>1, <2>2, ListType
        <5> QED
          BY <1>1, <3>3, <5>1 DEF PathInv, ListInv
      <4>6. spChan[c] = spList[n] + 1 + (c - 1)
        BY SMTT(30), <4>2, <4>3, <4>5
      <4>7. ASSUME ~(e <= spList[n]) PROVE FALSE
        <5>1. e - spList[n] \in 1 .. c
          <6>1. \A x, y, d \in Int : x <= y + 1 + (d - 1) /\ ~(x <= y) => x - y \in 1 .. d
            BY SMTT(30)
          <6>2. e \in Int /\ spList[n] \in Int /\ c \in Int
            BY SMTT(30), <1>2, <2>2, <4>2
          <6>3. e <= spList[n] + 1 + (c - 1)
            BY <4>4, <4>6
          <6> QED
            BY <4>7, <6>1, <6>2, <6>3
        <5>2. spChan[e - spList[n]] = spList[n] + 1 + ((e - spList[n]) - 1)
          BY <4>3, <4>5, <5>1
        <5>3. spChan[e - spList[n]] = e
          <6>1. \A x, y \in Int : y + 1 + ((x - y) - 1) = x
            BY SMTT(30)
          <6>2. e \in Int /\ spList[n] \in Int
            BY SMTT(30), <1>2, <2>2
          <6> QED
            BY <5>2, <6>1, <6>2
        <5> QED
          BY <3>1, <4>2, <5>1, <5>3
      <4> QED
        BY <4>7
    <3> QED
      BY <3>2, <3>3
  <2>5. PICK q : q = e - spList[1] + 1
    OBVIOUS
  <2>6. q \in 1 .. n /\ p < q /\ spList[1] + (q - 1) = e
    <3>1. PICK s, y, z : s = spList[1] /\ y = spList[p] /\ z = spList[n]
      OBVIOUS
    <3>2. /\ s \in Nat /\ y = s + (p - 1) /\ z = s + (n - 1)
          /\ y < e /\ e <= z /\ q = e - s + 1
      BY <2>3, <2>4, <2>5, <3>1
    <3>3. q \in 1 .. n /\ p < q /\ s + (q - 1) = e
      BY SMTT(30), <1>2, <2>2, <3>2
    <3> QED
      BY <3>1, <3>3
  <2>7. spList[q] = e
    BY <1>3, <2>6
  <2> QED
    BY <1>2, <2>1, <2>6, <2>7
<1> QED
  BY <1>4, <1>5

\* With prompt policies, signingPolicyData finds the policy that governs a round.
LEMMA LookupGoverns ==
  ASSUME TypeOK, PathInv, PromptInv, PromptPolicies, running, NEW round \in Nat,
         round <= VotingRoundAt(now), SigningPolicyData(round).sp # NoPolicy
  PROVE  Governs(SigningPolicyData(round).sp, round)
<1>1. PICK sp : sp = FindByVotingRoundId(spList, round)
  OBVIOUS
<1>2. SigningPolicyData(round).sp = sp /\ sp # NoPolicy
  BY <1>1 DEF SigningPolicyData, NoLookup
<1>3. sp \in RewardEpoch /\ StartVotingRound[sp] <= round
  BY SMTT(30), <1>1, <1>2, FindSpec, ListType
<1>4. PICK p \in DOMAIN spList :
         spList[p] = sp /\ \A k \in DOMAIN spList : p < k => StartVotingRound[spList[k]] > round
  <2>1. spList \in Seq(RewardEpoch) /\ round \in Int
    BY SMTT(30), ListType
  <2>2. \A j, k \in DOMAIN spList : j < k => StartVotingRound[spList[j]] < StartVotingRound[spList[k]]
    BY StoreComplete
  <2> QED
    BY <1>1, <1>2, <2>1, <2>2, FindLast
<1>5. \E i \in Published : blocks[i].policy = sp
  BY <1>4 DEF PathInv, ListInv, Read
<1>6. ASSUME NEW i \in Published, blocks[i].policy > sp PROVE StartVotingRound[blocks[i].policy] > round
  <2>1. StartVotingRound[blocks[i].policy] \in Nat /\ VotingRoundAt(now) \in Int
    BY BlockType, RoundNow
  <2>2. CASE StartVotingRound[blocks[i].policy] <= VotingRoundAt(now)
    <3>1. Delivered(i)
      BY <2>2 DEF PromptInv
    <3>2. PICK q \in DOMAIN spList : spList[q] = blocks[i].policy /\ p < q
      BY <1>4, <1>6, <3>1, StoreComplete
    <3> QED
      BY <1>4, <3>2
  <2>3. CASE ~(StartVotingRound[blocks[i].policy] <= VotingRoundAt(now))
    BY SMTT(30), <2>1, <2>3
  <2> QED
    BY <2>2, <2>3
<1> QED
  BY <1>2, <1>3, <1>5, <1>6 DEF Governs

\* The payload item that is looked up or added stays the same until it is done.
LEMMA ItemStep ==
  ASSUME TypeOK, [Next]_vars, subPc' \in {"first", "add"}
  PROVE  /\ subPc # "loop" /\ Item' = Item /\ Round' = Round
         /\ \/ subPc' = subPc /\ subLookup' = subLookup
            \/ /\ LookUpPolicy /\ Round <= VotingRoundAt(now)
               /\ subLookup' = SigningPolicyData(Round)
               /\ subPc' = "add" => subLookup'.sp # NoPolicy
<1>1. CASE LookUpPolicy
  <2>1. ~NextItem
    BY <1>1 DEF NextItem, FinishTx
  <2>2. /\ subPc = "lookup" /\ ~(Round > VotingRoundAt(now))
        /\ subLookup' = SigningPolicyData(Round)
        /\ subPc' = IF subLookup'.sp = NoPolicy THEN "first" ELSE "add"
        /\ UNCHANGED <<subTx, subItem, blocks>>
    BY <1>1, <2>1 DEF LookUpPolicy, envVars
  <2>3. Item' = Item /\ Round' = Round
    BY <2>2 DEF Item, Round
  <2>4. Round \in Nat /\ VotingRoundAt(now) \in Int
    BY <2>2, ItemType, RoundNow
  <2> QED
    BY SMTT(30), <1>1, <2>2, <2>3, <2>4
<1>2. CASE UNCHANGED <<subTx, subItem, subPc, subLookup, blocks>>
  BY <1>2 DEF Item, Round
<1>3. ASSUME NEW ts \in now - MaxLag .. now, IndexBlock(ts)
      PROVE  /\ subPc # "loop" /\ Item' = Item /\ Round' = Round
             /\ subPc' = subPc /\ subLookup' = subLookup
  <2>1. UNCHANGED txVars
    BY <1>3 DEF IndexBlock
  <2>2. subTx \in DOMAIN blocks /\ blocks \in Seq(Block)
    BY <2>1 DEF TypeOK, txVars
  <2>3. blocks'[subTx] = blocks[subTx]
    BY SMTT(30), <1>3, <2>2 DEF IndexBlock
  <2> QED
    BY <2>1, <2>3 DEF Round, Item, txVars
<1>4. CASE Start \/ Stop \/ FetchTransactions \/ TakeTx \/ CheckFirstPolicy \/ AddSignature
  <2>1. UNCHANGED <<subTx, subItem, subPc, subLookup, blocks>>
    BY <1>4 DEF Start, Stop, FetchTransactions, TakeTx, CheckFirstPolicy, AddSignature,
       NextItem, FinishTx, envVars
  <2> QED
    BY <1>2, <2>1
<1>5. CASE UNCHANGED <<txVars, blocks>>
  BY <1>2, <1>5 DEF txVars
<1>6. CASE \E ts \in now - MaxLag .. now : IndexBlock(ts)
  BY <1>3, <1>6
<1> QED
  BY ZenonT(30), <1>1, <1>4, <1>5, <1>6
     DEF Next, Environment, Tick, PolicyListener, FetchPolicyLogs, SendPolicy, PolicyParseError,
         ReceivePolicy, RewardEpochCleanup, RemoveSubmissions, TxListener, vars, envVars

\* The entry that AddSignature leaves, and what it makes of the others.
LEMMA AddSignatureEntry ==
  ASSUME CountInv, AddSignature
  PROVE  \E m \in Message, md \in MessageData :
           /\ m = Item.message
           /\ md = AddSubmission(subs[m], Item.signer, subLookup.sp, subLookup.threshold)
           /\ subs'[m] = md /\ \A n \in Message \ {m} : subs'[n] = subs[n]
           /\ md.policy = IF subs[m].policy = NoPolicy THEN subLookup.sp ELSE subs[m].policy
<1>1. PICK m : m = Item.message
  OBVIOUS
<1>2. m \in Message /\ Item.signer \in Voter
  BY <1>1, ItemType DEF AddSignature, CountInv, SubmitterPayloadItem
<1>3. subLookup.sp \in RewardEpoch /\ subLookup.threshold \in 0 .. MaxUint16
  BY DEF AddSignature, CountInv, TypeOK, Lookup
<1>4. subs[m] \in MessageData /\ subs \in [Message -> MessageData]
  BY <1>2 DEF CountInv, TypeOK
<1>5. PICK md : md = AddSubmission(subs[m], Item.signer, subLookup.sp, subLookup.threshold)
  OBVIOUS
<1>6. /\ md \in MessageData
      /\ md.policy = IF subs[m].policy = NoPolicy THEN subLookup.sp ELSE subs[m].policy
  BY ZenonT(60), <1>2, <1>3, <1>4, <1>5, AddSubmissionSpec
<1>7. subs' = [subs EXCEPT ![m] = md]
  BY <1>1, <1>5 DEF AddSignature
<1>8. subs'[m] = md /\ \A n \in Message \ {m} : subs'[n] = subs[n]
  BY <1>2, <1>4, <1>7
<1> QED
  BY <1>1, <1>2, <1>5, <1>6, <1>8

\* With prompt policies every step keeps the messages under their policies.
LEMMA GovernStep ==
  ASSUME CountInv, PathInv, PromptInv, GovernInv, [Next]_vars
  PROVE  GovernInv'
<1> DEFINE UnderNext(m, e) ==
             \E r \in Nat : AnnouncedNext(m, r) /\ GovernsNext(e, r) /\ r <= VotingRoundAt(now')
<1>0. TypeOK
  BY DEF CountInv
<1>1. SUFFICES ASSUME PromptPolicies
               PROVE  /\ \A m \in Message : subs'[m].policy # NoPolicy => UnderNext(m, subs'[m].policy)
                      /\ subPc' = "add" => GovernsNext(subLookup'.sp, Round')
                      /\ subPc' \in {"first", "add"} => Round' <= VotingRoundAt(now')
  BY DEF GovernInv, Governs, GovernsNext, Announced, AnnouncedNext, Stored, VotingRoundAt
<1>2. ASSUME NEW e, NEW r \in Nat, r <= VotingRoundAt(now), Governs(e, r)
      PROVE  GovernsNext(e, r) /\ r <= VotingRoundAt(now')
  <2>1. GovernsNext(e, r)
    BY <1>0, <1>1, <1>2, GovernsBefore
  <2>2. VotingRoundAt(now) <= VotingRoundAt(now') /\ VotingRoundAt(now') \in Int /\ VotingRoundAt(now) \in Int
    BY <1>0, TimeStep, RoundNow
  <2> QED
    BY SMTT(30), <1>2, <2>1, <2>2
<1>3. ASSUME NEW m, NEW e, NEW r \in Nat, Announced(m, r), Governs(e, r), r <= VotingRoundAt(now)
      PROVE  UnderNext(m, e)
  BY <1>0, <1>2, <1>3, AnnouncedStep
<1>4. \A m \in Message : subs[m].policy # NoPolicy => UnderNext(m, subs[m].policy)
  <2> SUFFICES ASSUME NEW m \in Message, subs[m].policy # NoPolicy PROVE UnderNext(m, subs[m].policy)
    OBVIOUS
  <2>1. PICK r \in Nat : Announced(m, r) /\ Governs(subs[m].policy, r) /\ r <= VotingRoundAt(now)
    BY <1>1 DEF GovernInv, Stored
  <2> QED
    BY <1>3, <2>1
<1>5. /\ subPc = "add" => Governs(subLookup.sp, Round)
      /\ subPc \in {"first", "add"} => Round <= VotingRoundAt(now)
  BY <1>1 DEF GovernInv
<1> HIDE DEF UnderNext
<1>6. ASSUME NEW m \in Message, subs'[m].policy # NoPolicy
      PROVE  UnderNext(m, subs'[m].policy)
  <2>0. NoData.policy = NoPolicy
    BY DEF NoData, NewMessageData
  <2>1. CASE UNCHANGED subs
    BY <1>4, <1>6, <2>1
  <2>2. CASE Stop
    <3>1. subs'[m] = NoData
      BY <2>2 DEF Stop
    <3> QED
      BY <1>6, <2>0, <3>1
  <2>3. CASE RemoveSubmissions
    <3>1. subs'[m] = subs[m] \/ subs'[m] = NoData
      BY <1>0, <2>3, CleanupEntries
    <3> QED
      BY <1>4, <1>6, <2>0, <3>1
  <2>4. CASE AddSignature
    <3>1. PICK n \in Message, md \in MessageData :
             /\ n = Item.message
             /\ subs'[n] = md /\ \A k \in Message \ {n} : subs'[k] = subs[k]
             /\ md.policy = IF subs[n].policy = NoPolicy THEN subLookup.sp ELSE subs[n].policy
      BY <2>4, AddSignatureEntry
    <3>2. CASE m # n
      BY <1>4, <1>6, <3>1, <3>2
    <3>3. CASE m = n /\ subs[n].policy # NoPolicy
      BY <1>4, <3>1, <3>3
    <3>4. CASE m = n /\ subs[n].policy = NoPolicy
      <4>1. subPc = "add" /\ subPc # "loop"
        BY <2>4 DEF AddSignature
      <4>2. Announced(m, Round) /\ Round \in Nat
        BY <1>0, <3>1, <3>4, <4>1, ItemAnnounced
      <4>3. UnderNext(m, subLookup.sp)
        BY <1>3, <1>5, <4>1, <4>2
      <4> QED
        BY <3>1, <3>4, <4>3
    <3> QED
      BY <3>2, <3>3, <3>4
  <2> QED
    BY <2>1, <2>2, <2>3, <2>4, StoreSteps
<1>7. ASSUME subPc' \in {"first", "add"}
      PROVE  /\ subPc' = "add" => GovernsNext(subLookup'.sp, Round')
             /\ Round' <= VotingRoundAt(now')
  <2>1. /\ subPc # "loop" /\ Round' = Round
        /\ \/ subPc' = subPc /\ subLookup' = subLookup
           \/ /\ LookUpPolicy /\ Round <= VotingRoundAt(now)
              /\ subLookup' = SigningPolicyData(Round)
              /\ subPc' = "add" => subLookup'.sp # NoPolicy
    BY <1>0, <1>7, ItemStep
  <2>2. Round \in Nat
    BY <1>0, <2>1, ItemType
  <2>3. Round <= VotingRoundAt(now)
    BY <1>5, <1>7, <2>1
  <2>4. Round' <= VotingRoundAt(now')
    <3>1. VotingRoundAt(now) <= VotingRoundAt(now') /\ VotingRoundAt(now') \in Int /\ VotingRoundAt(now) \in Int
      BY <1>0, TimeStep, RoundNow
    <3> QED
      BY SMTT(30), <2>1, <2>2, <2>3, <3>1
  <2>5. ASSUME subPc' = "add" PROVE Governs(subLookup'.sp, Round)
    <3>1. CASE subPc' = subPc /\ subLookup' = subLookup
      BY <1>5, <2>5, <3>1
    <3>2. CASE LookUpPolicy /\ subLookup' = SigningPolicyData(Round) /\ subLookup'.sp # NoPolicy
      <4>1. running
        BY <3>2 DEF LookUpPolicy
      <4> QED
        BY <1>0, <1>1, <2>2, <2>3, <3>2, <4>1, LookupGoverns
    <3> QED
      BY <2>1, <2>5, <3>1, <3>2
  <2> QED
    BY <1>2, <2>1, <2>2, <2>3, <2>4, <2>5
<1> QED
  BY <1>6, <1>7

\* Stored messages and the lookup at hand are under the governing policy.
LEMMA GovernInvariant == Spec => []GovernInv
<1>1. Init => GovernInv
  <2> SUFFICES ASSUME Init PROVE GovernInv
    OBVIOUS
  <2>1. subPc = "loop" /\ \A m \in Message : subs[m].policy = NoPolicy
    BY DEF Init, NoData, NewMessageData
  <2> QED
    BY <2>1 DEF GovernInv, Stored
<1>2. CountInv /\ PathInv /\ PromptInv /\ GovernInv /\ [Next]_vars => GovernInv'
  BY GovernStep
<1> QED
  BY <1>1, <1>2, CountInvariant, PathInvariant, PromptInvariant, PTL DEF Spec

\* When policies are in the store before their first voting round, every signature
\* is stored under the policy that governs a round which a payload item gave for its
\* message, through restarts, late blocks, cleanups and all interleavings.
THEOREM AnnouncedTheorem ==
  ASSUME PromptPolicies
  PROVE  Spec => []StoredUnderAnnouncedPolicy
<1>1. GovernInv => StoredUnderAnnouncedPolicy
  BY AnnouncedIn DEF GovernInv, StoredUnderAnnouncedPolicy
<1> QED
  BY <1>1, GovernInvariant, PTL

\* Payload items give the round that is signed in their message.
ItemsAgree ==
  \A tx \in Transactions : \A k \in DOMAIN tx : tx[k].votingRoundId = RoundOf[tx[k].message]

\* Then no other round is announced.
LEMMA OwnRound ==
  ASSUME TypeOK, ItemsAgree, NEW m, NEW r, Announced(m, r)
  PROVE  r = RoundOf[m]
<1>1. PICK i \in DOMAIN blocks : /\ blocks[i].tx # NoTx
                                 /\ \E k \in DOMAIN blocks[i].tx :
                                      /\ blocks[i].tx[k].message = m
                                      /\ blocks[i].tx[k].votingRoundId = r
  BY DEF Announced
<1>2. blocks[i] \in Block
  BY SMTT(30) DEF TypeOK
<1>3. blocks[i].tx \in Transactions
  BY <1>1, <1>2 DEF Block
<1> QED
  BY <1>1, <1>3 DEF ItemsAgree

\* What the comment of submissionStorage.Add asks for, "The provided signing policy
\* must be the signing policy for the voting round", holds when policies are prompt
\* and the payload items agree with their messages.
THEOREM GoverningTheorem ==
  ASSUME PromptPolicies, ItemsAgree
  PROVE  Spec => []StoredUnderGoverningPolicy
<1>1. TypeOK /\ GovernInv => StoredUnderGoverningPolicy
  BY OwnRound DEF GovernInv, StoredUnderGoverningPolicy
<1> QED
  BY <1>1, TypeCorrect, GovernInvariant, PTL

\* Only one policy governs a voting round.
LEMMA GovernsOne ==
  ASSUME TypeOK, NEW d, NEW e, NEW round \in Int, Governs(d, round), Governs(e, round)
  PROVE  d = e
<1>1. PICK i \in Published, j \in Published : blocks[i].policy = d /\ blocks[j].policy = e
  BY DEF Governs
<1>2. /\ d \in Nat /\ e \in Nat /\ StartVotingRound[d] \in Nat /\ StartVotingRound[e] \in Nat
  BY <1>1, BlockType
<1>3. StartVotingRound[d] <= round /\ StartVotingRound[e] <= round
  BY DEF Governs
<1>4. ~(e > d) /\ ~(d > e)
  BY SMTT(30), <1>1, <1>2, <1>3 DEF Governs
<1> QED
  BY SMTT(30), <1>2, <1>4

(***************************************************************************)
(* What is queued has a quorum.                                            *)
(***************************************************************************)

\* The threshold at hand is that of the policy or 60%, and what was counted as a
\* quorum outweighs one of them, for a policy of a round announced for the message.
LookupThreshold(e, t) == t = Threshold[e] \/ t = SixtyPercent(e)
ReachedInv ==
  PromptPolicies =>
    /\ subPc = "add" => LookupThreshold(subLookup.sp, subLookup.threshold)
    /\ \A m \in Message : subs[m].thresholdReached =>
         /\ Stored(m)
         /\ \E r \in Nat, e \in RewardEpoch :
              /\ Announced(m, r) /\ Governs(e, r) /\ r <= VotingRoundAt(now)
              /\ Outweighs(subs[m].weight, e)

\* Thresholds and 60% of the total weight are numbers.
LEMMA ThresholdType ==
  ASSUME NEW e \in RewardEpoch
  PROVE  Threshold[e] \in 0 .. MaxUint16 /\ SixtyPercent(e) \in Nat
<1>1. Threshold[e] \in 0 .. MaxUint16 /\ VotersOf[e] \in SUBSET Voter
  BY PolicyAssumption DEF PolicyAssumption
<1>2. PICK total : total = WeightOf[e][VotersOf[e]]
  OBVIOUS
<1>3. total \in 0 .. MaxUint16
  BY SMTT(30), <1>1, <1>2, WeightAssumption DEF WeightAssumption
<1>4. (total * 60) \div 100 \in 0 .. MaxUint16
  BY SMTT(30), <1>3, SixtyPercentBound, MaxUint16Type
<1> QED
  BY SMTT(30), <1>1, <1>2, <1>4, MaxUint16Type DEF SixtyPercent

\* The threshold signingPolicyData returns is that of the policy or 60%.
LEMMA LookupThresholdSpec ==
  ASSUME NEW round, SigningPolicyData(round).sp # NoPolicy
  PROVE  LookupThreshold(SigningPolicyData(round).sp, SigningPolicyData(round).threshold)
  BY DEF SigningPolicyData, LookupThreshold, SixtyPercent, NoLookup

\* Every step keeps a quorum behind each message that is counted as having one.
LEMMA ReachedStep ==
  ASSUME CountInv, GovernInv, ReachedInv, [Next]_vars
  PROVE  ReachedInv'
<1>0. TypeOK
  BY DEF CountInv
<1> DEFINE QuorumNext(m, w) ==
             \E r \in Nat, e \in RewardEpoch :
               /\ AnnouncedNext(m, r) /\ GovernsNext(e, r) /\ r <= VotingRoundAt(now')
               /\ Outweighs(w, e)
<1>1. SUFFICES ASSUME PromptPolicies
               PROVE  /\ subPc' = "add" => LookupThreshold(subLookup'.sp, subLookup'.threshold)
                      /\ \A m \in Message : subs'[m].thresholdReached =>
                           subs'[m].policy # NoPolicy /\ QuorumNext(m, subs'[m].weight)
  BY DEF ReachedInv, LookupThreshold, SixtyPercent, Outweighs, Stored, Governs, GovernsNext,
         Announced, AnnouncedNext, VotingRoundAt
<1>2. subPc = "add" => LookupThreshold(subLookup.sp, subLookup.threshold)
  BY <1>1 DEF ReachedInv
<1>5. ASSUME NEW m, NEW r \in Nat, NEW e \in RewardEpoch, NEW w,
             Announced(m, r), Governs(e, r), r <= VotingRoundAt(now), Outweighs(w, e)
      PROVE  QuorumNext(m, w)
  <2>1. AnnouncedNext(m, r)
    BY <1>0, <1>5, AnnouncedStep
  <2>2. GovernsNext(e, r)
    BY <1>0, <1>1, <1>5, GovernsBefore
  <2>3. VotingRoundAt(now) <= VotingRoundAt(now') /\ VotingRoundAt(now') \in Int /\ VotingRoundAt(now) \in Int
    BY <1>0, TimeStep, RoundNow
  <2>4. r <= VotingRoundAt(now')
    BY SMTT(30), <1>5, <2>3
  <2> QED
    BY <1>5, <2>1, <2>2, <2>4
<1> HIDE DEF QuorumNext
<1>6. ASSUME NEW m \in Message, subs[m].thresholdReached
      PROVE  /\ subs[m].policy # NoPolicy
             /\ \A w \in Nat : subs[m].weight <= w => QuorumNext(m, w)
  <2>1. PICK r \in Nat, e \in RewardEpoch :
           /\ Announced(m, r) /\ Governs(e, r) /\ r <= VotingRoundAt(now)
           /\ Outweighs(subs[m].weight, e)
    BY <1>1, <1>6 DEF ReachedInv
  <2>2. subs[m].policy # NoPolicy
    BY <1>1, <1>6 DEF ReachedInv, Stored
  <2>3. subs[m].weight \in Nat
    <3>1. subs[m] \in MessageData
      BY <1>0 DEF TypeOK
    <3> QED
      BY SMTT(30), <3>1, MaxUint16Type DEF MessageData
  <2>4. Threshold[e] \in Int /\ SixtyPercent(e) \in Int
    BY SMTT(30), ThresholdType, MaxUint16Type
  <2>5. ASSUME NEW w \in Nat, subs[m].weight <= w PROVE Outweighs(w, e)
    <3>1. subs[m].weight > Threshold[e] \/ subs[m].weight > SixtyPercent(e)
      BY <2>1 DEF Outweighs
    <3>2. w > Threshold[e] \/ w > SixtyPercent(e)
      BY SMTT(30), <2>3, <2>4, <2>5, <3>1
    <3> QED
      BY <3>2 DEF Outweighs
  <2> QED
    BY <1>5, <2>1, <2>2, <2>5
<1>3. ASSUME subPc' = "add" PROVE LookupThreshold(subLookup'.sp, subLookup'.threshold)
  <2>1. \/ subPc' = subPc /\ subLookup' = subLookup
        \/ subLookup' = SigningPolicyData(Round) /\ subLookup'.sp # NoPolicy
    BY <1>0, <1>3, ItemStep
  <2> QED
    BY <1>2, <1>3, <2>1, LookupThresholdSpec
<1>4. ASSUME NEW m \in Message, subs'[m].thresholdReached
      PROVE  subs'[m].policy # NoPolicy /\ QuorumNext(m, subs'[m].weight)
  <2>0. ~NoData.thresholdReached /\ subs[m] \in MessageData
    BY <1>0 DEF NoData, NewMessageData, TypeOK
  <2>1. CASE subs'[m] = subs[m]
    <3>1. subs[m].weight \in Nat /\ subs[m].weight <= subs[m].weight
      BY SMTT(30), <2>0, MaxUint16Type DEF MessageData
    <3> QED
      BY <1>4, <1>6, <2>1, <3>1
  <2>2. CASE Stop
    <3>1. subs'[m] = NoData
      BY <2>2 DEF Stop
    <3> QED
      BY <1>4, <2>0, <3>1
  <2>3. CASE RemoveSubmissions
    <3>1. subs'[m] = subs[m] \/ subs'[m] = NoData
      BY <1>0, <2>3, CleanupEntries
    <3> QED
      BY <1>4, <2>0, <2>1, <3>1
  <2>4. CASE AddSignature
    <3>1. PICK n \in Message, md \in MessageData :
             /\ n = Item.message
             /\ md = AddSubmission(subs[n], Item.signer, subLookup.sp, subLookup.threshold)
             /\ subs'[n] = md /\ \A k \in Message \ {n} : subs'[k] = subs[k]
             /\ md.policy = IF subs[n].policy = NoPolicy THEN subLookup.sp ELSE subs[n].policy
      BY <2>4, AddSignatureEntry
    <3>2. CASE m # n
      BY <2>1, <3>1, <3>2
    <3>3. CASE m = n
      <4>1. /\ subPc = "add" /\ subPc # "loop" /\ subs[n] \in MessageData
            /\ Item.signer \in Voter /\ subLookup.sp \in RewardEpoch
            /\ subLookup.threshold \in 0 .. MaxUint16
        <5>1. subPc = "add" /\ subPc # "loop"
          BY <2>4 DEF AddSignature
        <5>2. Item.signer \in Voter
          BY <1>0, <5>1, ItemType DEF SubmitterPayloadItem
        <5> QED
          BY <1>0, <5>1, <5>2 DEF TypeOK, Lookup
      <4>2. subs[n].policy # NoPolicy => /\ subs[n].payload \subseteq VotersOf[subs[n].policy]
                                         /\ subs[n].weight = WeightOf[subs[n].policy][subs[n].payload]
        BY DEF CountInv, WeightIsSum, Stored
      <4>3. \/ subs[n].policy # NoPolicy /\ subs[n].thresholdReached /\ subs[n].weight <= md.weight
            \/ md.weight > subLookup.threshold
        BY SMTT(30), <1>4, <3>1, <3>3, <4>1, <4>2, AddSubmissionThreshold
      <4>4. subLookup.sp # NoPolicy
        BY <1>0, <4>1 DEF TypeOK
      <4>5. md.policy # NoPolicy /\ md.weight \in Nat
        <5>1. md.policy # NoPolicy
          BY <3>1, <4>4
        <5>2. md.weight \in Nat
          BY SMTT(30), <3>1, MaxUint16Type DEF MessageData
        <5> QED
          BY <5>1, <5>2
      <4>6. CASE md.weight > subLookup.threshold
        <5>1. Outweighs(md.weight, subLookup.sp)
          BY <1>2, <4>1, <4>6 DEF LookupThreshold, Outweighs
        <5>2. Announced(m, Round) /\ Round \in Nat
          BY <1>0, <3>1, <3>3, <4>1, ItemAnnounced
        <5>3. Governs(subLookup.sp, Round) /\ Round <= VotingRoundAt(now)
          BY <1>1, <4>1 DEF GovernInv
        <5>4. QuorumNext(m, md.weight)
          BY <1>5, <4>1, <5>1, <5>2, <5>3
        <5> QED
          BY <3>1, <3>3, <4>5, <5>4
      <4>7. CASE subs[n].thresholdReached /\ subs[n].weight <= md.weight
        BY <1>6, <3>1, <3>3, <4>5, <4>7
      <4> QED
        BY <4>3, <4>6, <4>7
    <3> QED
      BY <3>2, <3>3
  <2> QED
    BY <2>1, <2>2, <2>3, <2>4, StoreSteps
<1> QED
  BY <1>3, <1>4

\* Thresholds reached are thresholds exceeded.
LEMMA ReachedInvariant == Spec => []ReachedInv
<1>1. Init => ReachedInv
  BY SMTT(30) DEF Init, ReachedInv, NoData, NewMessageData
<1>2. CountInv /\ GovernInv /\ ReachedInv /\ [Next]_vars => ReachedInv'
  BY ReachedStep
<1> QED
  BY <1>1, <1>2, CountInvariant, GovernInvariant, PTL DEF Spec

\* When policies are prompt, a message on the finalization queue has signatures of
\* voters of the policy it is stored under that outweigh the threshold, or 60%, of the
\* policy of a round announced for it, if the cleanup cannot hit the message.
THEOREM QuorumTheorem ==
  ASSUME PromptPolicies
  PROVE  Spec => []QuorumBehindQueue
<1>1. CountInv /\ ReachedInv => QuorumBehindQueue
  <2> SUFFICES ASSUME CountInv, ReachedInv, NEW m \in Message, enqueued[m] > 0, Kept(m)
               PROVE  /\ subs[m].payload \subseteq VotersOf[subs[m].policy]
                      /\ \E r \in AnnouncedRounds(m), e \in RewardEpoch :
                           Governs(e, r) /\ Outweighs(WeightOf[subs[m].policy][subs[m].payload], e)
    BY DEF QuorumBehindQueue
  <2>1. subs[m].thresholdReached
    BY SMTT(30) DEF CountInv, EnqueuedOnce
  <2>2. PICK r \in Nat, e \in RewardEpoch :
           Announced(m, r) /\ Governs(e, r) /\ Outweighs(subs[m].weight, e)
    BY <2>1 DEF ReachedInv
  <2>3. /\ subs[m].payload \subseteq VotersOf[subs[m].policy]
        /\ subs[m].weight = WeightOf[subs[m].policy][subs[m].payload]
    BY <2>1 DEF ReachedInv, CountInv, WeightIsSum
  <2> QED
    BY <2>2, <2>3, AnnouncedIn
<1> QED
  BY <1>1, CountInvariant, ReachedInvariant, PTL

\* A message on the queue has a quorum of the policy of its own round.
OwnQuorum ==
  \A m \in Message : (enqueued[m] > 0 /\ Kept(m)) =>
    LET e == subs[m].policy
    IN  /\ Governs(e, RoundOf[m]) /\ subs[m].payload \subseteq VotersOf[e]
        /\ Outweighs(WeightOf[e][subs[m].payload], e)

\* When policies are prompt and the payload items agree with their messages, the
\* voters and the thresholds a count meets on the way are those of one policy, that
\* of the round signed in the message.
THEOREM OwnQuorumTheorem ==
  ASSUME PromptPolicies, ItemsAgree
  PROVE  Spec => []OwnQuorum
<1>1. CountInv /\ GovernInv /\ ReachedInv => OwnQuorum
  <2> SUFFICES ASSUME CountInv, GovernInv, ReachedInv, NEW m \in Message, enqueued[m] > 0, Kept(m)
               PROVE  /\ Governs(subs[m].policy, RoundOf[m])
                      /\ subs[m].payload \subseteq VotersOf[subs[m].policy]
                      /\ Outweighs(WeightOf[subs[m].policy][subs[m].payload], subs[m].policy)
    BY DEF OwnQuorum
  <2>0. TypeOK
    BY DEF CountInv
  <2>1. subs[m].thresholdReached
    BY SMTT(30) DEF CountInv, EnqueuedOnce
  <2>2. PICK r \in Nat, e \in RewardEpoch :
           Announced(m, r) /\ Governs(e, r) /\ Outweighs(subs[m].weight, e)
    BY <2>1 DEF ReachedInv
  <2>3. Stored(m)
    BY <2>1 DEF ReachedInv
  <2>4. PICK q \in Nat : Announced(m, q) /\ Governs(subs[m].policy, q)
    BY <2>3 DEF GovernInv
  <2>5. r = RoundOf[m] /\ q = RoundOf[m] /\ r \in Int
    <3>1. r = RoundOf[m] /\ q = RoundOf[m]
      BY <2>0, <2>2, <2>4, OwnRound
    <3>2. r \in Int
      BY SMTT(30)
    <3> QED
      BY <3>1, <3>2
  <2>6. e = subs[m].policy
    BY <2>0, <2>2, <2>4, <2>5, GovernsOne
  <2> QED
    BY <2>2, <2>3, <2>4, <2>5, <2>6 DEF CountInv, WeightIsSum
<1> QED
  BY <1>1, CountInvariant, GovernInvariant, ReachedInvariant, PTL

(***************************************************************************)
(* What the sending half may rely on.                                      *)
(***************************************************************************)

\* The signature of a payload item whose round has begun is added under the policy
\* of that round, with one of its two thresholds; when it crosses it the message goes
\* on the queue with what the item says of it.
AddsUnderPolicy(item, sp, threshold) ==
  LET m == item.message
  IN  /\ Governs(sp, item.votingRoundId) /\ item.votingRoundId <= VotingRoundAt(now)
      /\ ItemsAgree => subs[m].policy \in {NoPolicy, sp}
      /\ subs' = [subs EXCEPT ![m] = AddSubmission(subs[m], item.signer, sp, threshold)]
      /\ queue' = IF CrossedThreshold(subs[m], subs'[m])
                   THEN Append(queue, [protocolId |-> item.protocolId,
                                       votingRoundId |-> item.votingRoundId,
                                       message |-> m, seed |-> sp])
                   ELSE queue

\* While the process runs, submissions and queue change by such a step only, or by a
\* cleanup, which leaves the queue and the entries it cannot hit alone. The first is
\* Intake of FinalizerQueue, with the hypothesis OnePolicyPerMessage if items agree.
IntakeGuarantee ==
  [][running /\ running' /\ <<subs, queue>>' # <<subs, queue>> =>
       \/ \E item \in ItemsOnChain, sp \in RewardEpoch :
            \E threshold \in {Threshold[sp], SixtyPercent(sp)} : AddsUnderPolicy(item, sp, threshold)
       \/ queue' = queue /\ \A m \in Message : Kept(m) => subs'[m] = subs[m]]_vars

\* Only AddSignature and the cleanup change the submissions of a running process.
LEMMA IntakeSteps ==
  ASSUME TypeOK, [Next]_vars, running, running'
  PROVE  \/ UNCHANGED <<subs, queue>>
         \/ queue' = queue /\ \A m \in Message : Kept(m) => subs'[m] = subs[m]
         \/ AddSignature
<1>1. RemoveSubmissions => queue' = queue /\ \A m \in Message : Kept(m) => subs'[m] = subs[m]
  BY CleanupEntries DEF RemoveSubmissions
<1> QED
  BY <1>1
     DEF Next, Environment, Tick, IndexBlock, Start, Stop, PolicyListener, FetchPolicyLogs,
         SendPolicy, PolicyParseError, ReceivePolicy, RewardEpochCleanup,
         TxListener, FetchTransactions, TakeTx, LookUpPolicy, CheckFirstPolicy, vars, storeVars

\* ProcessSubmissionData adds under the policy that it found two lock sections ago.
LEMMA IntakeStep ==
  ASSUME PromptPolicies, CountInv, GovernInv, ReachedInv, AddSignature
  PROVE  \E item \in ItemsOnChain, sp \in RewardEpoch :
           \E threshold \in {Threshold[sp], SixtyPercent(sp)} : AddsUnderPolicy(item, sp, threshold)
<1>0. TypeOK /\ subPc = "add" /\ subPc # "loop"
  BY DEF CountInv, AddSignature
<1>1. PICK item, m, sp, threshold :
        /\ item = Item /\ m = item.message
        /\ sp = subLookup.sp /\ threshold = subLookup.threshold
  OBVIOUS
<1>2. item \in SubmitterPayloadItem /\ m \in Message
  BY <1>0, <1>1, ItemType DEF SubmitterPayloadItem
<1>3. item \in ItemsOnChain
  <2>1. subTx \in DOMAIN blocks /\ blocks[subTx].tx # NoTx /\ subItem \in DOMAIN blocks[subTx].tx
    BY <1>0 DEF TypeOK
  <2> QED
    BY <1>1, <2>1, OnChain DEF Item
<1>4. sp \in RewardEpoch
  BY <1>0, <1>1 DEF TypeOK, Lookup
<1>5. threshold \in {Threshold[sp], SixtyPercent(sp)}
  BY <1>0, <1>1 DEF ReachedInv, LookupThreshold
<1>6. Governs(sp, item.votingRoundId) /\ item.votingRoundId <= VotingRoundAt(now)
  BY <1>0, <1>1 DEF GovernInv, Round
<1>7. ASSUME ItemsAgree, subs[m].policy # NoPolicy PROVE subs[m].policy = sp
  <2>1. PICK r \in Nat : Announced(m, r) /\ Governs(subs[m].policy, r)
    BY <1>2, <1>7 DEF GovernInv, Stored
  <2>2. Announced(m, item.votingRoundId)
    BY <1>0, <1>1, ItemAnnounced DEF Round
  <2>3. r = RoundOf[m] /\ item.votingRoundId = RoundOf[m]
    BY <1>0, <1>7, <2>1, <2>2, OwnRound
  <2>4. r \in Int
    BY SMTT(30)
  <2> QED
    BY <1>0, <1>6, <2>1, <2>3, <2>4, GovernsOne
<1>8. PICK md : md = AddSubmission(subs[m], item.signer, sp, threshold)
  OBVIOUS
<1>9. subs' = [subs EXCEPT ![m] = md]
  BY <1>1, <1>8 DEF AddSignature
<1>10. subs'[m] = md
  BY <1>0, <1>2, <1>9 DEF TypeOK
<1>11. queue' = IF CrossedThreshold(subs[m], md)
                THEN Append(queue, [protocolId |-> item.protocolId,
                                    votingRoundId |-> item.votingRoundId,
                                    message |-> m, seed |-> sp])
                ELSE queue
  BY <1>1, <1>8 DEF AddSignature, Round
<1>12. AddsUnderPolicy(item, sp, threshold)
  BY <1>1, <1>6, <1>7, <1>8, <1>9, <1>10, <1>11 DEF AddsUnderPolicy
<1> QED
  BY <1>3, <1>4, <1>5, <1>12

\* When policies are prompt, ProcessSubmissionData gives the sending half what
\* FinalizerQueue assumes of its intake: the policy and the threshold used for a
\* payload item are those of the item's round although they are looked up and used in
\* separate lock sections; and no message is counted under two policies, if the items
\* agree with their messages.
THEOREM IntakeTheorem ==
  ASSUME PromptPolicies
  PROVE  Spec => IntakeGuarantee
<1> DEFINE Adds == \E item \in ItemsOnChain, sp \in RewardEpoch :
                     \E threshold \in {Threshold[sp], SixtyPercent(sp)} :
                       AddsUnderPolicy(item, sp, threshold)
           Keeps == queue' = queue /\ \A m \in Message : Kept(m) => subs'[m] = subs[m]
<1>1. ASSUME CountInv, GovernInv, ReachedInv, [Next]_vars, running, running',
             <<subs, queue>>' # <<subs, queue>>
      PROVE  Adds \/ Keeps
  <2>1. AddSignature \/ Keeps
    BY <1>1, IntakeSteps DEF CountInv
  <2> QED
    BY <1>1, <2>1, IntakeStep
<1>2. CountInv /\ GovernInv /\ ReachedInv /\ [Next]_vars =>
        [running /\ running' /\ <<subs, queue>>' # <<subs, queue>> => Adds \/ Keeps]_vars
  BY <1>1
<1> QED
  BY <1>2, CountInvariant, GovernInvariant, ReachedInvariant, PTL DEF Spec, IntakeGuarantee

(***************************************************************************)
(* No signature is lost.                                                   *)
(***************************************************************************)

\* The payload item has been dealt with: its message is stored, and the signature
\* with it unless the signer is no voter, if a policy in the store governs the round.
Handled(sig) ==
  (Kept(sig.message) /\ \E n \in DOMAIN spList : Governs(spList[n], sig.votingRoundId)) =>
    /\ subs[sig.message].policy # NoPolicy
    /\ sig.signer \in VotersOf[subs[sig.message].policy] => sig.signer \in subs[sig.message].payload

\* The item, in a transaction of block i, is for a round the listener takes.
Relevant(sig, i) ==
  startingVotingRound <= sig.votingRoundId /\ sig.votingRoundId <= VotingRoundAt(blocks[i].ts)

HandledUpTo(i, n) ==
  \A k \in DOMAIN blocks[i].tx : k < n /\ Relevant(blocks[i].tx[k], i) => Handled(blocks[i].tx[k])

HandledTx(i) ==
  \A k \in DOMAIN blocks[i].tx : Relevant(blocks[i].tx[k], i) => Handled(blocks[i].tx[k])

ToRead == {i \in DOMAIN blocks : blocks[i].tx # NoTx /\ startTime < blocks[i].ts}

\* The transaction listener: everything before its cursor, and before the
\* transaction at hand, is dealt with; what precedes a transaction of the batch is
\* dealt with, is at hand, or is in the batch too.
TxInv ==
  PromptPolicies =>
    /\ ~running => subBatch = {} /\ subPc = "loop"
    /\ startTime < subCursor => \E i \in DOMAIN blocks : subCursor < blocks[i].ts
    /\ running => \A i \in ToRead : blocks[i].ts <= subCursor => HandledTx(i)
    /\ \A i \in subBatch : \A j \in ToRead :
         blocks[j].ts < blocks[i].ts =>
           j \in subBatch \/ HandledTx(j) \/ (subPc # "loop" /\ j = subTx)
    /\ subPc # "loop" =>
         /\ HandledUpTo(subTx, subItem)
         /\ \A j \in ToRead : blocks[j].ts < blocks[subTx].ts => HandledTx(j)

\* What is dealt with after a step.
HandledNext(sig) ==
  (Kept(sig.message) /\ \E n \in DOMAIN spList' : GovernsNext(spList'[n], sig.votingRoundId)) =>
    /\ subs'[sig.message].policy # NoPolicy
    /\ sig.signer \in VotersOf[subs'[sig.message].policy] => sig.signer \in subs'[sig.message].payload

HandledUpToNext(i, n) ==
  \A k \in DOMAIN blocks[i].tx : k < n /\ Relevant(blocks[i].tx[k], i) => HandledNext(blocks[i].tx[k])

HandledTxNext(i) ==
  \A k \in DOMAIN blocks[i].tx : Relevant(blocks[i].tx[k], i) => HandledNext(blocks[i].tx[k])

\* A policy on its way through the channel has not started, if policies are prompt.
LEMMA HeadNotStarted ==
  ASSUME TypeOK, PathInv, PromptInv, PromptPolicies, running, spChan # <<>>
  PROVE  Head(spChan) \in RewardEpoch /\ StartVotingRound[Head(spChan)] > VotingRoundAt(now)
<1>1. PICK h : h = Head(spChan)
  OBVIOUS
<1>2. h = spChan[1] /\ 1 \in DOMAIN spChan /\ h \in RewardEpoch
  BY SMTT(30), <1>1, ListType
<1>3. PICK i \in Published : blocks[i].policy = h
  BY <1>2 DEF PathInv, ListInv, Read
<1>4. ~Delivered(i)
  BY <1>2, <1>3 DEF Delivered
<1>5. ~(StartVotingRound[h] <= VotingRoundAt(now))
  BY <1>3, <1>4 DEF PromptInv
<1>6. StartVotingRound[h] \in Nat /\ VotingRoundAt(now) \in Int
  BY <1>3, BlockType, RoundNow
<1> QED
  BY SMTT(30), <1>1, <1>2, <1>5, <1>6

\* What comes into the store of a running process has not started.
LEMMA StoreOrigins ==
  ASSUME TypeOK, PathInv, PromptInv, PromptPolicies, [Next]_vars, running, running',
         NEW n \in DOMAIN spList'
  PROVE  \/ \E k \in DOMAIN spList : spList[k] = spList'[n]
         \/ StartVotingRound[spList'[n]] > VotingRoundAt(now)
<1>1. CASE spList' = spList
  BY <1>1
<1>2. CASE Start \/ Stop
  BY <1>2 DEF Start, Stop
<1>3. CASE ReceivePolicy
  <2>1. spChan # <<>> /\ (spList' = spList \/ spList' = Append(spList, Head(spChan)))
    BY <1>3, ReceiveAccepts DEF ReceivePolicy
  <2>2. spList \in Seq(RewardEpoch)
    BY ListType
  <2>3. Head(spChan) \in RewardEpoch /\ StartVotingRound[Head(spChan)] > VotingRoundAt(now)
    BY <2>1, HeadNotStarted
  <2>4. CASE spList' = Append(spList, Head(spChan))
    <3>1. \/ n \in DOMAIN spList /\ spList'[n] = spList[n]
          \/ spList'[n] = Head(spChan)
      BY SMTT(30), <2>2, <2>3, <2>4
    <3> QED
      BY <2>3, <3>1
  <2> QED
    BY <1>1, <2>1, <2>4
<1>4. CASE RewardEpochCleanup
  <2>1. PICK p : p = Len(spList)
    OBVIOUS
  <2>2. p \in Nat /\ DOMAIN spList = 1 .. p
    BY <2>1, ListType
  <2>3. PICK d \in 0 .. p :
           /\ DOMAIN spList' = 1 .. p - d
           /\ \A k \in 1 .. p - d : spList'[k] = spList[d + k]
    BY <1>4, <2>1, CleanupSuffix
  <2>4. d + n \in 1 .. p /\ n \in 1 .. p - d
    BY SMTT(30), <2>2, <2>3
  <2> QED
    BY <2>2, <2>3, <2>4
<1> QED
  BY <1>1, <1>2, <1>3, <1>4
     DEF Next, Environment, Tick, IndexBlock, PolicyListener, FetchPolicyLogs, SendPolicy,
         PolicyParseError, RemoveSubmissions, TxListener, FetchTransactions, TakeTx, LookUpPolicy,
         CheckFirstPolicy, AddSignature, policyVars, vars

\* A signature that is dealt with stays so.
LEMMA HandledStable ==
  ASSUME CountInv, PathInv, PromptInv, PromptPolicies, [Next]_vars, running, running',
         NEW sig \in SubmitterPayloadItem, sig.votingRoundId <= VotingRoundAt(now), Handled(sig)
  PROVE  HandledNext(sig)
<1>0. TypeOK
  BY DEF CountInv
<1>1. PICK m, r : m = sig.message /\ r = sig.votingRoundId
  OBVIOUS
<1>2. m \in Message /\ r \in Nat
  BY <1>1 DEF SubmitterPayloadItem
<1> SUFFICES ASSUME Kept(m), NEW n \in DOMAIN spList', GovernsNext(spList'[n], r)
             PROVE  /\ subs'[m].policy # NoPolicy
                    /\ sig.signer \in VotersOf[subs'[m].policy] => sig.signer \in subs'[m].payload
  BY <1>1 DEF HandledNext
<1>3. PICK e : e = spList'[n]
  OBVIOUS
<1>4. Governs(e, r)
  BY <1>0, <1>1, <1>2, <1>3, GovernsBefore
<1>5. PICK k \in DOMAIN spList : spList[k] = e
  <2>1. \/ \E k \in DOMAIN spList : spList[k] = e
        \/ StartVotingRound[e] > VotingRoundAt(now)
    BY <1>0, <1>3, StoreOrigins
  <2>2. StartVotingRound[e] <= r /\ r <= VotingRoundAt(now)
    BY <1>1, <1>4 DEF Governs
  <2>3. StartVotingRound[e] \in Nat /\ VotingRoundAt(now) \in Int
    <3>1. PICK i \in Published : blocks[i].policy = e
      BY <1>4 DEF Governs
    <3> QED
      BY <1>0, <3>1, BlockType, RoundNow
  <2> QED
    BY SMTT(30), <1>2, <2>1, <2>2, <2>3
<1>6. /\ subs[m].policy # NoPolicy
      /\ sig.signer \in VotersOf[subs[m].policy] => sig.signer \in subs[m].payload
  BY <1>1, <1>4, <1>5 DEF Handled
<1>7. subs'[m].policy = subs[m].policy /\ subs[m].payload \subseteq subs'[m].payload
  BY <1>2, <1>6, EntryGrows DEF Stored
<1> QED
  BY <1>6, <1>7

\* A signature for a round that had begun at its transaction is for one that has.
LEMMA RelevantBegun ==
  ASSUME TypeOK, ChainInv, NEW i \in DOMAIN blocks, NEW sig, Relevant(sig, i), sig.votingRoundId \in Nat
  PROVE  sig.votingRoundId <= VotingRoundAt(now) /\ startingVotingRound <= sig.votingRoundId
<1>1. blocks[i].ts \in Int /\ now \in Int /\ blocks[i].ts <= now
  BY SMTT(30), BlockType DEF ChainInv
<1>2. VotingRoundAt(blocks[i].ts) <= VotingRoundAt(now)
  BY <1>1, RoundMonotone
<1>3. VotingRoundAt(blocks[i].ts) \in Int /\ VotingRoundAt(now) \in Int
  BY <1>1, VotingRoundType
<1>4. sig.votingRoundId <= VotingRoundAt(blocks[i].ts) /\ startingVotingRound <= sig.votingRoundId
  BY DEF Relevant
<1> QED
  BY SMTT(30), <1>2, <1>3, <1>4

\* So do the signatures of a transaction.
LEMMA HandledTxStable ==
  ASSUME CountInv, ChainInv, PathInv, PromptInv, PromptPolicies, [Next]_vars, running, running',
         NEW i \in DOMAIN blocks, blocks[i].tx # NoTx
  PROVE  /\ HandledTx(i) => HandledTxNext(i)
         /\ \A n : HandledUpTo(i, n) => HandledUpToNext(i, n)
<1>1. ASSUME NEW k \in DOMAIN blocks[i].tx, Relevant(blocks[i].tx[k], i), Handled(blocks[i].tx[k])
      PROVE  HandledNext(blocks[i].tx[k])
  <2>0. TypeOK
    BY DEF CountInv
  <2>1. PICK sig : sig = blocks[i].tx[k]
    OBVIOUS
  <2>2. sig \in SubmitterPayloadItem
    BY <2>0, <2>1, TxSignatures
  <2>3. sig.votingRoundId \in Nat
    BY <2>2 DEF SubmitterPayloadItem
  <2>4. sig.votingRoundId <= VotingRoundAt(now)
    BY <1>1, <2>0, <2>1, <2>3, RelevantBegun
  <2> QED
    BY <1>1, <2>1, <2>2, <2>4, HandledStable
<1> QED
  BY <1>1 DEF HandledTx, HandledTxNext, HandledUpTo, HandledUpToNext

\* The invariant of the transaction listener after a step that leaves the chain and
\* the settings of the process alone.
LEMMA TxGoal ==
  ASSUME blocks' = blocks, startTime' = startTime, startingVotingRound' = startingVotingRound, running',
         startTime < subCursor' => \E i \in DOMAIN blocks : subCursor' < blocks[i].ts,
         \A i \in ToRead : blocks[i].ts <= subCursor' => HandledTxNext(i),
         \A i \in subBatch' : \A j \in ToRead :
           blocks[j].ts < blocks[i].ts =>
             j \in subBatch' \/ HandledTxNext(j) \/ (subPc' # "loop" /\ j = subTx'),
         subPc' # "loop" =>
           /\ HandledUpToNext(subTx', subItem')
           /\ \A j \in ToRead : blocks[j].ts < blocks[subTx'].ts => HandledTxNext(j)
  PROVE  TxInv'
<1>1. ToRead' = ToRead
  BY DEF ToRead
<1>2. ASSUME NEW i PROVE HandledTxNext(i) <=> HandledTx(i)'
  BY DEF HandledTxNext, HandledTx, HandledNext, Handled, GovernsNext, Governs, Relevant
<1>3. HandledUpToNext(subTx', subItem') <=> HandledUpTo(subTx, subItem)'
  BY DEF HandledUpToNext, HandledUpTo, HandledNext, Handled, GovernsNext, Governs, Relevant
<1> QED
  BY <1>1, <1>2, <1>3 DEF TxInv

\* The parts of the invariant while the process runs.
LEMMA TxParts ==
  ASSUME CountInv, ChainInv, PathInv, PromptInv, TxInv, PromptPolicies, [Next]_vars, running, running'
  PROVE  /\ \A i \in ToRead : blocks[i].ts <= subCursor => HandledTxNext(i)
         /\ \A i \in subBatch : \A j \in ToRead :
              blocks[j].ts < blocks[i].ts =>
                j \in subBatch \/ HandledTxNext(j) \/ (subPc # "loop" /\ j = subTx)
         /\ subPc # "loop" =>
              /\ HandledUpToNext(subTx, subItem)
              /\ \A j \in ToRead : blocks[j].ts < blocks[subTx].ts => HandledTxNext(j)
         /\ startTime < subCursor => \E i \in DOMAIN blocks : subCursor < blocks[i].ts
         /\ startTime' = startTime /\ startingVotingRound' = startingVotingRound
<1>1. \A i \in ToRead : HandledTx(i) => HandledTxNext(i)
  BY HandledTxStable DEF ToRead
<1>2. subPc # "loop" => (HandledUpTo(subTx, subItem) => HandledUpToNext(subTx, subItem))
  <2> SUFFICES ASSUME subPc # "loop", HandledUpTo(subTx, subItem) PROVE HandledUpToNext(subTx, subItem)
    OBVIOUS
  <2>1. subTx \in DOMAIN blocks /\ blocks[subTx].tx # NoTx
    BY DEF CountInv, TypeOK
  <2> QED
    BY <2>1, HandledTxStable
<1>3. startTime' = startTime /\ startingVotingRound' = startingVotingRound
  BY DEF Next, Environment, Tick, IndexBlock, Start, Stop, PolicyListener, FetchPolicyLogs, SendPolicy,
         PolicyParseError, ReceivePolicy, RewardEpochCleanup, RemoveSubmissions, TxListener,
         FetchTransactions, TakeTx, LookUpPolicy, CheckFirstPolicy, AddSignature, procVars, vars
<1> QED
  BY <1>1, <1>2, <1>3 DEF TxInv

\* The listener is done with an item that has been dealt with, or needs not be.
LEMMA NextItemTx ==
  ASSUME CountInv, ChainInv, PathInv, PromptInv, TxInv, PromptPolicies, [Next]_vars, running, running',
         blocks' = blocks, subPc # "loop", NextItem,
         Relevant(Item, subTx) => HandledNext(Item)
  PROVE  TxInv'
<1>0. /\ \A i \in ToRead : blocks[i].ts <= subCursor => HandledTxNext(i)
      /\ \A i \in subBatch : \A j \in ToRead :
              blocks[j].ts < blocks[i].ts => j \in subBatch \/ HandledTxNext(j) \/ j = subTx
      /\ HandledUpToNext(subTx, subItem)
      /\ \A j \in ToRead : blocks[j].ts < blocks[subTx].ts => HandledTxNext(j)
      /\ startTime < subCursor => \E i \in DOMAIN blocks : subCursor < blocks[i].ts
      /\ startTime' = startTime /\ startingVotingRound' = startingVotingRound
  BY TxParts
<1>1. /\ subTx \in DOMAIN blocks /\ blocks[subTx].tx # NoTx /\ subItem \in DOMAIN blocks[subTx].tx
      /\ TypeOK
  BY DEF CountInv, TypeOK
<1>2. PICK tx, n : tx = blocks[subTx].tx /\ n = Len(tx)
  OBVIOUS
<1>3. tx \in Seq(SubmitterPayloadItem) /\ DOMAIN tx = 1 .. n /\ n \in Nat /\ subItem \in 1 .. n
  <2>1. tx \in Seq(SubmitterPayloadItem)
    BY <1>1, <1>2, TxSignatures
  <2> QED
    BY SMTT(30), <1>1, <1>2, <2>1
<1>4. ASSUME NEW k \in DOMAIN tx, k < subItem + 1, Relevant(tx[k], subTx) PROVE HandledNext(tx[k])
  <2>1. CASE k = subItem
    BY <1>2, <1>4, <2>1 DEF Item
  <2>2. CASE k < subItem
    BY <1>0, <1>2, <1>4, <2>2 DEF HandledUpToNext
  <2> QED
    BY SMTT(30), <1>3, <1>4, <2>1, <2>2
<1>5. HandledUpToNext(subTx, subItem + 1)
  BY <1>2, <1>4 DEF HandledUpToNext
<1>6. subBatch' = subBatch
  BY DEF NextItem
<1>7. CASE subItem < n
  <2>1. subItem' = subItem + 1 /\ subPc' = "lookup" /\ subCursor' = subCursor /\ subTx' = subTx
    BY <1>2, <1>7 DEF NextItem
  <2> QED
    BY <1>0, <1>5, <1>6, <2>1, TxGoal
<1>8. CASE ~(subItem < n)
  <2>1. subCursor' = blocks[subTx].ts - 1 /\ subPc' = "loop"
    BY <1>2, <1>8 DEF NextItem, FinishTx
  <2>2. HandledTxNext(subTx)
    <3>1. \A k \in DOMAIN tx : k < subItem + 1
      BY SMTT(30), <1>3, <1>8
    <3> QED
      BY <1>2, <1>4, <3>1 DEF HandledTxNext
  <2>3. \A i \in DOMAIN blocks : blocks[i].ts \in Nat
    BY <1>1, BlockType
  <2>4. subCursor' < blocks[subTx].ts
    BY SMTT(30), <1>1, <2>1, <2>3
  <2>5. \A i \in ToRead : blocks[i].ts <= subCursor' => blocks[i].ts < blocks[subTx].ts
    BY SMTT(30), <1>1, <2>1, <2>3 DEF ToRead
  <2> QED
    BY <1>0, <1>1, <1>6, <2>1, <2>2, <2>4, <2>5, TxGoal
<1> QED
  BY <1>7, <1>8

\* The listener takes the next transaction.
LEMMA TakeTxStep ==
  ASSUME CountInv, ChainInv, PathInv, PromptInv, TxInv, PromptPolicies, [Next]_vars, TakeTx
  PROVE  TxInv'
<1>1. /\ running /\ running' /\ subPc = "loop" /\ blocks' = blocks
  BY DEF TakeTx, procVars, envVars
<1>2. /\ \A i \in ToRead : blocks[i].ts <= subCursor => HandledTxNext(i)
      /\ \A i \in subBatch : \A j \in ToRead :
              blocks[j].ts < blocks[i].ts => j \in subBatch \/ HandledTxNext(j)
      /\ startTime < subCursor => \E i \in DOMAIN blocks : subCursor < blocks[i].ts
      /\ startTime' = startTime /\ startingVotingRound' = startingVotingRound
  BY <1>1, TxParts
<1>3. PICK i \in Earliest(subBatch) :
         /\ subBatch' = subBatch \ {i}
         /\ IF blocks[i].tx = <<>> THEN FinishTx(i)
            ELSE subTx' = i /\ subItem' = 1 /\ subPc' = "lookup" /\ subCursor' = subCursor
  BY DEF TakeTx
<1>4. /\ i \in subBatch /\ i \in DOMAIN blocks /\ blocks[i].tx # NoTx
      /\ \A j \in subBatch : blocks[i].ts <= blocks[j].ts
  BY <1>3 DEF Earliest, CountInv, TypeOK
<1>5. \A j \in DOMAIN blocks : blocks[j].ts \in Nat
  BY BlockType DEF CountInv
<1>6. \A j \in ToRead : j \in DOMAIN blocks
  BY DEF ToRead
<1>7. \A j \in ToRead : blocks[j].ts < blocks[i].ts => HandledTxNext(j)
  <2> SUFFICES ASSUME NEW j \in ToRead, blocks[j].ts < blocks[i].ts PROVE HandledTxNext(j)
    OBVIOUS
  <2>1. j \notin subBatch
    BY SMTT(30), <1>4, <1>5, <1>6
  <2> QED
    BY <1>2, <1>4, <2>1
<1>8. CASE blocks[i].tx = <<>>
  <2>1. subCursor' = blocks[i].ts - 1 /\ subPc' = "loop"
    BY <1>3, <1>8 DEF FinishTx
  <2>2. HandledTxNext(i)
    <3>1. DOMAIN blocks[i].tx = {}
      BY SMTT(30), <1>8
    <3> QED
      BY <3>1 DEF HandledTxNext
  <2>3. subCursor' < blocks[i].ts
    BY SMTT(30), <1>4, <1>5, <2>1
  <2>4. \A j \in ToRead : blocks[j].ts <= subCursor' => blocks[j].ts < blocks[i].ts
    BY SMTT(30), <1>4, <1>5, <1>6, <2>1
  <2>5. \A l \in subBatch' : \A j \in ToRead :
          blocks[j].ts < blocks[l].ts => j \in subBatch' \/ HandledTxNext(j)
    BY <1>2, <1>3, <2>2
  <2> QED
    BY <1>1, <1>2, <1>4, <1>7, <2>1, <2>3, <2>4, <2>5, TxGoal
<1>9. CASE blocks[i].tx # <<>>
  <2>1. subTx' = i /\ subItem' = 1 /\ subPc' = "lookup" /\ subCursor' = subCursor
    BY <1>3, <1>9
  <2>2. HandledUpToNext(i, 1)
    <3>1. blocks[i].tx \in Seq(SubmitterPayloadItem)
      BY <1>4, TxSignatures DEF CountInv
    <3>2. \A k \in DOMAIN blocks[i].tx : ~(k < 1)
      BY SMTT(30), <3>1
    <3> QED
      BY <3>2 DEF HandledUpToNext
  <2>3. \A l \in subBatch' : \A j \in ToRead :
          blocks[j].ts < blocks[l].ts => j \in subBatch' \/ HandledTxNext(j) \/ j = i
    BY <1>2, <1>3
  <2> QED
    BY <1>1, <1>2, <1>7, <2>1, <2>2, <2>3, TxGoal
<1> QED
  BY <1>8, <1>9

\* The listener reads the database.
LEMMA FetchTxStep ==
  ASSUME CountInv, ChainInv, PathInv, PromptInv, TxInv, PromptPolicies, [Next]_vars, FetchTransactions
  PROVE  TxInv'
<1>1. /\ running /\ running' /\ subPc = "loop" /\ blocks' = blocks /\ subCursor' = subCursor
      /\ subPc' = "loop" /\ subBatch' = SignatureTxs(subCursor, now)
  BY DEF FetchTransactions, procVars, envVars
<1>2. /\ \A i \in ToRead : blocks[i].ts <= subCursor => HandledTxNext(i)
      /\ startTime < subCursor => \E i \in DOMAIN blocks : subCursor < blocks[i].ts
      /\ startTime' = startTime /\ startingVotingRound' = startingVotingRound
  BY <1>1, TxParts
<1>3. ASSUME NEW j \in ToRead PROVE j \in subBatch' \/ HandledTxNext(j)
  <2>1. j \in DOMAIN blocks /\ blocks[j].tx # NoTx
    BY DEF ToRead
  <2>2. blocks[j].ts \in Nat /\ blocks[j].ts <= now /\ subCursor \in Int
    BY <2>1, BlockType DEF CountInv, TypeOK, ChainInv
  <2>3. CASE blocks[j].ts <= subCursor
    BY <1>2, <2>3
  <2>4. CASE ~(blocks[j].ts <= subCursor)
    <3>1. subCursor < blocks[j].ts
      BY SMTT(30), <2>2, <2>4
    <3> QED
      BY <1>1, <2>1, <2>2, <3>1 DEF SignatureTxs, Visible
  <2> QED
    BY <2>3, <2>4
<1> QED
  BY <1>1, <1>2, <1>3, TxGoal

\* A signature of a voter is in the entry AddSignature leaves.
LEMMA SignatureAdded ==
  ASSUME CountInv, AddSignature
  PROVE  HandledNext(Item)
<1>0. TypeOK /\ subPc = "add"
  BY DEF CountInv, AddSignature
<1>1. PICK m \in Message, md \in MessageData :
         /\ m = Item.message
         /\ md = AddSubmission(subs[m], Item.signer, subLookup.sp, subLookup.threshold)
         /\ subs'[m] = md
         /\ md.policy = IF subs[m].policy = NoPolicy THEN subLookup.sp ELSE subs[m].policy
  BY AddSignatureEntry
<1>2. /\ subLookup.sp \in RewardEpoch /\ subLookup.sp # NoPolicy
      /\ subLookup.threshold \in 0 .. MaxUint16 /\ subs[m] \in MessageData
  BY <1>0 DEF TypeOK, Lookup
<1>3. Item.signer \in Voter
  BY <1>0, ItemType DEF SubmitterPayloadItem
<1>4. Item.signer \in VotersOf[md.policy] => Item.signer \in subs'[m].payload
  BY <1>1, <1>2, <1>3, AddSubmissionSigner
<1>5. md.policy # NoPolicy
  BY <1>1, <1>2
<1> QED
  BY <1>1, <1>4, <1>5 DEF HandledNext

\* A signature for a round before the first stored policy needs no entry.
LEMMA SignatureBefore ==
  ASSUME TypeOK, PathInv, CheckFirstPolicy, spList # <<>>, Round < StartVotingRound[spList[1]]
  PROVE  HandledNext(Item)
<1>1. spList' = spList /\ subPc = "first"
  BY DEF CheckFirstPolicy, policyVars
<1>2. spList \in Seq(RewardEpoch)
  BY DEF TypeOK
<1>3. \A k \in DOMAIN spList : StartVotingRound[spList[k]] \in Nat
  <2>1. \A k \in DOMAIN spList : spList[k] \in RewardEpoch
    BY SMTT(30), <1>2
  <2>2. \A e \in RewardEpoch : StartVotingRound[e] \in Nat
    BY PolicyAssumption DEF PolicyAssumption
  <2> QED
    BY <2>1, <2>2
<1>4. 1 \in DOMAIN spList /\ \A k \in DOMAIN spList : k = 1 \/ 1 < k
  BY SMTT(30), <1>2
<1>5. Round \in Nat
  BY <1>1, ItemType
<1>6. ASSUME NEW k \in DOMAIN spList PROVE Round < StartVotingRound[spList[k]]
  <2>1. CASE k = 1
    BY <2>1
  <2>2. CASE 1 < k
    <3>1. StartVotingRound[spList[1]] < StartVotingRound[spList[k]]
      BY <1>4, <2>2, StoreComplete
    <3> QED
      BY SMTT(30), <1>3, <1>4, <1>5, <3>1
  <2> QED
    BY <1>4, <2>1, <2>2
<1>7. ASSUME NEW k \in DOMAIN spList PROVE ~(StartVotingRound[spList[k]] <= Round)
  BY SMTT(30), <1>3, <1>5, <1>6
<1> QED
  BY <1>1, <1>7 DEF HandledNext, GovernsNext, Round

\* The listener goes through the items of a transaction.
LEMMA ItemsStep ==
  ASSUME CountInv, ChainInv, PathInv, PromptInv, TxInv, PromptPolicies, [Next]_vars,
         LookUpPolicy \/ CheckFirstPolicy \/ AddSignature
  PROVE  TxInv'
<1>0. TypeOK /\ running /\ running' /\ blocks' = blocks /\ subPc # "loop"
  BY SMTT(30) DEF CountInv, LookUpPolicy, CheckFirstPolicy, AddSignature, procVars, envVars
<1>1. /\ \A i \in ToRead : blocks[i].ts <= subCursor => HandledTxNext(i)
      /\ \A i \in subBatch : \A j \in ToRead :
              blocks[j].ts < blocks[i].ts => j \in subBatch \/ HandledTxNext(j) \/ j = subTx
      /\ HandledUpToNext(subTx, subItem)
      /\ \A j \in ToRead : blocks[j].ts < blocks[subTx].ts => HandledTxNext(j)
      /\ startTime < subCursor => \E i \in DOMAIN blocks : subCursor < blocks[i].ts
      /\ startTime' = startTime /\ startingVotingRound' = startingVotingRound
  BY <1>0, TxParts
<1>2. CASE LookUpPolicy
  <2>1. CASE Round < startingVotingRound \/ Round > VotingRoundAt(now)
    <3>1. NextItem
      BY <1>2, <2>1 DEF LookUpPolicy
    <3>2. subTx \in DOMAIN blocks
      BY <1>0 DEF TypeOK
    <3>3. PICK item : item = Item
      OBVIOUS
    <3>4. Round = item.votingRoundId /\ Round \in Nat
      BY <1>0, <3>3, ItemType DEF Round
    <3>5. Relevant(item, subTx) => Round <= VotingRoundAt(now) /\ startingVotingRound <= Round
      BY <1>0, <3>2, <3>4, RelevantBegun
    <3>6. startingVotingRound \in Int /\ VotingRoundAt(now) \in Int
      BY <1>0, RoundNow DEF TypeOK
    <3>7. ~Relevant(Item, subTx)
      BY SMTT(30), <2>1, <3>3, <3>4, <3>5, <3>6
    <3> QED
      BY <1>0, <3>1, <3>7, NextItemTx
  <2>2. CASE ~(Round < startingVotingRound \/ Round > VotingRoundAt(now))
    <3>1. /\ subPc' # "loop" /\ subCursor' = subCursor /\ subBatch' = subBatch
          /\ subTx' = subTx /\ subItem' = subItem
      BY <1>2, <2>2 DEF LookUpPolicy
    <3> QED
      BY <1>0, <1>1, <3>1, TxGoal
  <2> QED
    BY <2>1, <2>2
<1>3. CASE CheckFirstPolicy
  <2>1. CASE spList # <<>> /\ Round < StartVotingRound[spList[1]]
    <3>1. NextItem
      BY <1>3, <2>1 DEF CheckFirstPolicy
    <3> QED
      BY <1>0, <1>3, <2>1, <3>1, SignatureBefore, NextItemTx
  <2>2. CASE ~(spList # <<>> /\ Round < StartVotingRound[spList[1]])
    <3>1. subPc' = "loop" /\ subCursor' = subCursor /\ subBatch' = {}
      BY <1>3, <2>2 DEF CheckFirstPolicy
    <3> QED
      BY <1>0, <1>1, <3>1, TxGoal
  <2> QED
    BY <2>1, <2>2
<1>4. CASE AddSignature
  <2>1. NextItem
    BY <1>4 DEF AddSignature
  <2> QED
    BY <1>0, <1>4, <2>1, SignatureAdded, NextItemTx
<1> QED
  BY <1>2, <1>3, <1>4

\* A new block is not before what the listener has read.
LEMMA IndexTx ==
  ASSUME CountInv, ChainInv, PathInv, PromptInv, TxInv, PromptPolicies, [Next]_vars,
         NEW ts \in Int, IndexBlock(ts)
  PROVE  TxInv'
<1>0. TypeOK
  BY DEF CountInv
<1>1. PICK n : n = Len(blocks) + 1
  OBVIOUS
<1>2. /\ DOMAIN blocks' = DOMAIN blocks \cup {n} /\ n \notin DOMAIN blocks
      /\ \A i \in DOMAIN blocks : blocks'[i] = blocks[i]
      /\ blocks'[n].ts = ts
  <2>1. /\ DOMAIN blocks' = DOMAIN blocks \cup {n} /\ n \notin DOMAIN blocks
        /\ \A i \in DOMAIN blocks : blocks'[i] = blocks[i]
        /\ blocks'[n] = [ts |-> ts, policy |-> script[n].policy, tx |-> script[n].tx]
    BY <1>0, <1>1, NewBlock
  <2> QED
    BY SMTT(30), <2>1
<1>3. /\ \A i \in DOMAIN blocks : blocks[i].ts \in Nat /\ blocks[i].ts <= ts
      /\ subCursor \in Int /\ startTime \in Int
  BY <1>0, BlockType DEF IndexBlock, TypeOK
<1>4. /\ running' = running /\ startTime' = startTime /\ startingVotingRound' = startingVotingRound
      /\ subCursor' = subCursor /\ subBatch' = subBatch /\ subTx' = subTx
      /\ subItem' = subItem /\ subPc' = subPc
  BY DEF IndexBlock, procVars, txVars
<1>5. startTime < subCursor => \E i \in DOMAIN blocks : subCursor < blocks[i].ts
  BY DEF TxInv
<1>6. startTime' < subCursor' => \E i \in DOMAIN blocks' : subCursor' < blocks'[i].ts
  BY <1>2, <1>4, <1>5
<1>7. CASE ~running
  BY <1>4, <1>6, <1>7 DEF TxInv
<1>8. CASE running
  <2>1. /\ \A i \in ToRead : blocks[i].ts <= subCursor => HandledTxNext(i)
        /\ \A i \in subBatch : \A j \in ToRead :
             blocks[j].ts < blocks[i].ts =>
               j \in subBatch \/ HandledTxNext(j) \/ (subPc # "loop" /\ j = subTx)
        /\ subPc # "loop" =>
             /\ HandledUpToNext(subTx, subItem)
             /\ \A j \in ToRead : blocks[j].ts < blocks[subTx].ts => HandledTxNext(j)
    BY <1>4, <1>8, TxParts
  <2>2. ToRead' \subseteq ToRead \cup {n} /\ (n \in ToRead' => startTime < ts)
    BY <1>2, <1>4 DEF ToRead
  <2>3. n \in ToRead' => ~(ts <= subCursor)
    <3> SUFFICES ASSUME n \in ToRead', ts <= subCursor PROVE FALSE
      OBVIOUS
    <3>1. startTime < subCursor
      BY SMTT(30), <1>3, <2>2
    <3>2. PICK i \in DOMAIN blocks : subCursor < blocks[i].ts
      BY <1>5, <3>1
    <3> QED
      BY SMTT(30), <1>3, <3>2
  <2>4. \A i \in DOMAIN blocks : ~(ts < blocks[i].ts)
    BY SMTT(30), <1>3
  <2>5. subBatch \subseteq DOMAIN blocks /\ (subPc # "loop" => subTx \in DOMAIN blocks)
    BY <1>0 DEF TypeOK
  <2>6. ASSUME NEW i \in DOMAIN blocks PROVE HandledTxNext(i) <=> HandledTx(i)'
    <3>1. blocks'[i] = blocks[i] /\ startingVotingRound' = startingVotingRound
      BY <1>2, <1>4
    <3> QED
      BY <3>1
         DEF HandledTxNext, HandledTx, HandledNext, Handled, GovernsNext, Governs, Relevant
  <2>7. subPc # "loop" => (HandledUpToNext(subTx, subItem) <=> HandledUpTo(subTx, subItem)')
    <3> SUFFICES ASSUME subPc # "loop"
                 PROVE  HandledUpToNext(subTx, subItem) <=> HandledUpTo(subTx, subItem)'
      OBVIOUS
    <3>1. /\ blocks'[subTx'] = blocks[subTx] /\ subItem' = subItem
          /\ startingVotingRound' = startingVotingRound
      BY <1>2, <1>4, <2>5
    <3> QED
      BY <3>1
         DEF HandledUpToNext, HandledUpTo, HandledNext, Handled, GovernsNext, Governs, Relevant
  <2>8. \A i \in ToRead : i \in DOMAIN blocks
    BY DEF ToRead
  <2>9. running' => \A i \in ToRead' : blocks'[i].ts <= subCursor' => HandledTx(i)'
    <3> SUFFICES ASSUME NEW i \in ToRead', blocks'[i].ts <= subCursor PROVE HandledTx(i)'
      BY <1>4
    <3>1. i # n
      BY <1>2, <2>3
    <3>2. i \in ToRead /\ i \in DOMAIN blocks /\ blocks'[i] = blocks[i]
      BY <1>2, <2>2, <2>8, <3>1
    <3> QED
      BY <2>1, <2>6, <3>2
  <2>10. ASSUME NEW i \in DOMAIN blocks, NEW j \in ToRead', blocks'[j].ts < blocks'[i].ts
         PROVE  j \in ToRead /\ blocks[j].ts < blocks[i].ts /\ (HandledTxNext(j) <=> HandledTx(j)')
    <3>1. j # n
      BY <1>2, <2>4, <2>10
    <3>2. j \in ToRead /\ j \in DOMAIN blocks
      BY <2>2, <2>8, <3>1
    <3> QED
      BY <1>2, <2>6, <2>10, <3>2
  <2>11. \A i \in subBatch' : \A j \in ToRead' :
           blocks'[j].ts < blocks'[i].ts =>
             j \in subBatch' \/ HandledTx(j)' \/ (subPc' # "loop" /\ j = subTx')
    BY <1>4, <2>1, <2>5, <2>10
  <2>12. subPc' # "loop" =>
           /\ HandledUpTo(subTx, subItem)'
           /\ \A j \in ToRead' : blocks'[j].ts < blocks'[subTx'].ts => HandledTx(j)'
    BY <1>4, <2>1, <2>5, <2>7, <2>10
  <2>13. ~running' => subBatch' = {} /\ subPc' = "loop"
    BY <1>4, <1>8
  <2> QED
    BY <1>6, <2>9, <2>11, <2>12, <2>13 DEF TxInv
<1> QED
  BY <1>7, <1>8

\* A process that starts has read nothing yet.
LEMMA StartTx ==
  ASSUME TxInv, TypeOK', PromptPolicies, Start
  PROVE  TxInv'
<1>1. /\ subBatch' = {} /\ subPc' = "loop" /\ running' /\ subCursor' = startTime'
  BY DEF Start, TxInv
<1>2. startTime' \in Int
  BY DEF TypeOK
<1>3. ~(startTime' < subCursor')
  BY SMTT(30), <1>1, <1>2
<1>4. \A i \in ToRead' : ~(blocks'[i].ts <= subCursor')
  <2> SUFFICES ASSUME NEW i \in ToRead' PROVE ~(blocks'[i].ts <= subCursor')
    OBVIOUS
  <2>1. i \in DOMAIN blocks' /\ startTime' < blocks'[i].ts
    BY DEF ToRead
  <2>2. blocks'[i] \in Block
    BY SMTT(30), <2>1 DEF TypeOK
  <2>3. blocks'[i].ts \in Nat
    BY <2>2 DEF Block
  <2> QED
    BY SMTT(30), <1>1, <1>2, <2>1, <2>3
<1> QED
  BY <1>1, <1>3, <1>4 DEF TxInv

\* Steps of the clock, of the policy listener and of a process that does not run.
LEMMA QuietTx ==
  ASSUME CountInv, ChainInv, PathInv, PromptInv, TxInv, PromptPolicies, [Next]_vars,
         UNCHANGED txVars, blocks' = blocks, UNCHANGED <<running, startTime, startingVotingRound>>
  PROVE  TxInv'
<1>1. /\ subCursor' = subCursor /\ subBatch' = subBatch /\ subTx' = subTx
      /\ subItem' = subItem /\ subPc' = subPc /\ running' = running /\ startTime' = startTime
  BY DEF txVars
<1>2. CASE running
  <2>1. /\ \A i \in ToRead : blocks[i].ts <= subCursor => HandledTxNext(i)
        /\ \A i \in subBatch : \A j \in ToRead :
             blocks[j].ts < blocks[i].ts =>
               j \in subBatch \/ HandledTxNext(j) \/ (subPc # "loop" /\ j = subTx)
        /\ subPc # "loop" =>
             /\ HandledUpToNext(subTx, subItem)
             /\ \A j \in ToRead : blocks[j].ts < blocks[subTx].ts => HandledTxNext(j)
        /\ startTime < subCursor => \E i \in DOMAIN blocks : subCursor < blocks[i].ts
    BY <1>1, <1>2, TxParts
  <2> QED
    BY <1>1, <1>2, <2>1, TxGoal
<1>3. CASE ~running
  BY SMTT(30), <1>1, <1>3 DEF TxInv
<1> QED
  BY <1>2, <1>3

\* Every step keeps the invariant of the transaction listener.
LEMMA TxStep ==
  ASSUME CountInv, CountInv', ChainInv, PathInv, PromptInv, TxInv, [Next]_vars
  PROVE  TxInv'
<1> SUFFICES ASSUME PromptPolicies PROVE TxInv'
  BY DEF TxInv
<1>1. CASE Tick
  BY <1>1, QuietTx DEF Tick, procVars
<1>2. CASE \E ts \in now - MaxLag .. now : IndexBlock(ts)
  <2>1. PICK ts \in now - MaxLag .. now : IndexBlock(ts)
    BY <1>2
  <2>2. now \in Int /\ MaxLag \in Int
    BY SMTT(30), ClientAssumption DEF CountInv, TypeOK
  <2>3. ts \in Int
    BY SMTT(30), <2>2
  <2> QED
    BY <2>1, <2>3, IndexTx
<1>3. CASE Start
  BY <1>3, StartTx DEF CountInv
<1>4. CASE Stop
  <2>1. ~running' /\ subBatch' = {} /\ subPc' = "loop" /\ ~(startTime' < subCursor')
    BY SMTT(30), <1>4 DEF Stop
  <2> QED
    BY <2>1 DEF TxInv
<1>5. CASE PolicyListener
  <2>1. UNCHANGED txVars /\ blocks' = blocks /\ UNCHANGED <<running, startTime, startingVotingRound>>
    BY <1>5 DEF PolicyListener, FetchPolicyLogs, SendPolicy, PolicyParseError, ReceivePolicy,
                RewardEpochCleanup, RemoveSubmissions, procVars, envVars
  <2> QED
    BY <2>1, QuietTx
<1>6. CASE FetchTransactions
  BY <1>6, FetchTxStep
<1>7. CASE TakeTx
  BY <1>7, TakeTxStep
<1>8. CASE LookUpPolicy \/ CheckFirstPolicy \/ AddSignature
  BY <1>8, ItemsStep
<1>9. CASE UNCHANGED vars
  BY <1>9, QuietTx DEF vars, procVars, envVars
<1> QED
  BY <1>1, <1>2, <1>3, <1>4, <1>5, <1>6, <1>7, <1>8, <1>9 DEF Next, Environment, TxListener

\* The invariant of the transaction listener holds.
LEMMA TxInvariant == Spec => []TxInv
<1>1. Init => TxInv
  BY SMTT(30) DEF Init, TxInv
<1>2. CountInv /\ CountInv' /\ ChainInv /\ PathInv /\ PromptInv /\ TxInv /\ [Next]_vars => TxInv'
  BY TxStep
<1> QED
  BY <1>1, <1>2, CountInvariant, ChainInvariant, PathInvariant, PromptInvariant, PTL DEF Spec

\* When policies are prompt, ProcessSubmissionData (finalizer_client.go) has stored the
\* message of every payload item it moved its cursor past, with the signature unless
\* the signer is no voter of the policy the message is stored under, if the item's
\* round is served, its policy is in the store and the cleanup cannot hit the message.
THEOREM SignaturesTheorem ==
  ASSUME PromptPolicies
  PROVE  Spec => []NoSignatureLost
<1>1. TxInv => NoSignatureLost
  <2> SUFFICES ASSUME TxInv, running PROVE NoSignatureLost
    BY DEF NoSignatureLost
  <2>1. \A i \in ToRead : blocks[i].ts <= subCursor => HandledTx(i)
    BY DEF TxInv
  <2>2. ASSUME NEW i \in DOMAIN blocks, blocks[i].tx # NoTx, startTime < blocks[i].ts, blocks[i].ts <= subCursor
        PROVE  HandledTx(i)
    BY <2>1, <2>2 DEF ToRead
  <2> QED
    BY <2>2 DEF NoSignatureLost, HandledTx, Relevant, Handled, Stored
<1> QED
  BY <1>1, TxInvariant, PTL

=============================================================================
