------------------------ MODULE FinalizerStorageProofs ------------------------
(***************************************************************************)
(* What the operations of the two stores of the finalizer yield, for every *)
(* list of policies and every stored entry: the lemmas behind the proofs   *)
(* of the collecting half (FinalizerClientProofs) and of the sending half  *)
(* (FinalizerQueueProofs).                                                 *)
(***************************************************************************)
EXTENDS FinalizerStorage, WellFoundedInduction, TLAPS

\* Leaves without a pragma are for the SMT solver.
USE SMTT(30)

(***************************************************************************)
(* Arithmetic and the operators of FinalizerStorage.                       *)
(***************************************************************************)

\* The order of the naturals as the relation the library reasons about.
LEMMA NatLess ==
  ASSUME NEW x \in Nat, NEW y \in Nat, x < y
  PROVE  <<x, y>> \in OpToRel(<, Nat)
<1>1. <<x, y>> \in {ss \in Nat \X Nat : ss[1] < ss[2]}
  OBVIOUS
<1>2. QED
  BY <1>1, Zenon DEF OpToRel

\* A non-empty set of naturals has a least element; the binary search of
\* findByVotingRoundId and the loop of RemoveByVotingRound look for one.
LEMMA LeastElement ==
  ASSUME NEW S \in SUBSET Nat, S # {}
  PROVE  \E k \in S : \A l \in S : k <= l
<1>1. IsWellFoundedOn(OpToRel(<, Nat), Nat)
  BY NatLessThanWellFounded, Zenon
<1>2. PICK x \in S : \A y \in S : ~(<<y, x>> \in OpToRel(<, Nat))
  BY <1>1, WFMin, Zenon
<1>3. \A y \in S : ~(y < x)
  BY <1>2, NatLess, Zenon
<1>4. QED
  BY <1>3

\* The largest uint16, and what the uint16 operations of the code yield.
LEMMA MaxUint16Type == MaxUint16 \in Nat
  BY SMT DEF MaxUint16

\* The uint16 sum of weights stays in range, and is exact when it does not wrap.
LEMMA Modulo ==
  ASSUME NEW x \in Nat, NEW y \in Nat
  PROVE  x % (y + 1) \in 0 .. y /\ (x <= y => x % (y + 1) = x)
  OBVIOUS

\* 60% of a total weight is at most the total: the uint16 conversion is exact.
LEMMA SixtyPercentBound ==
  ASSUME NEW x \in Nat, NEW y \in Nat, x <= y
  PROVE  (x * 60) \div 100 \in 0 .. y
  OBVIOUS

\* findByVotingRoundId returns no policy or one of the list that has started
\* by the voting round.
LEMMA FindSpec ==
  ASSUME NEW list \in Seq(RewardEpoch), NEW round \in Int
  PROVE  LET sp == FindByVotingRoundId(list, round)
         IN  sp # NoPolicy =>
               /\ sp \in RewardEpoch
               /\ StartVotingRound[sp] <= round
               /\ \E k \in DOMAIN list : list[k] = sp
<1> DEFINE Later == {i \in DOMAIN list : StartVotingRound[list[i]] >= round}
           n == IF Later = {} THEN Len(list) + 1
                ELSE CHOOSE k \in Later : \A l \in Later : k <= l
<1>1. DOMAIN list = 1 .. Len(list) /\ Len(list) \in Nat
  OBVIOUS
<1>2. \A i \in DOMAIN list : list[i] \in RewardEpoch /\ StartVotingRound[list[i]] \in Nat
  <2>1. \A e \in RewardEpoch : StartVotingRound[e] \in Nat
    BY Zenon, PolicyAssumption DEF PolicyAssumption
  <2>2. \A i \in DOMAIN list : list[i] \in RewardEpoch
    OBVIOUS
  <2>3. QED
    BY Zenon, <2>1, <2>2
<1>3. /\ n \in 1 .. Len(list) + 1
      /\ n \in 2 .. Len(list) + 1 => StartVotingRound[list[n - 1]] < round
  <2>1. CASE Later = {}
    BY <1>1, <1>2, <2>1
  <2>2. CASE Later # {}
    <3>1. Later \in SUBSET Nat
      BY <1>1
    <3>2. \E k \in Later : \A l \in Later : k <= l
      BY Zenon, <2>2, <3>1, LeastElement
    <3>3. n \in Later /\ \A l \in Later : n <= l
      BY <2>2, <3>2
    <3> HIDE DEF n
    <3>4. n \in 1 .. Len(list)
      BY <1>1, <3>3
    <3>5. ASSUME n # 1 PROVE StartVotingRound[list[n - 1]] < round
      <4>1. n - 1 \in DOMAIN list /\ ~(n <= n - 1)
        BY <1>1, <3>4, <3>5
      <4>2. ~(StartVotingRound[list[n - 1]] >= round)
        BY <3>3, <4>1
      <4>3. QED
        BY <1>2, <4>1, <4>2
    <3>6. QED
      BY <1>1, <3>4, <3>5
  <2>3. QED
    BY Zenon, <2>1, <2>2
<1>4. FindByVotingRoundId(list, round) =
        IF n <= Len(list) /\ StartVotingRound[list[n]] = round THEN list[n]
        ELSE IF n = 1 THEN NoPolicy ELSE list[n - 1]
  BY DEF FindByVotingRoundId
<1> HIDE DEF n
<1>5. CASE n <= Len(list) /\ StartVotingRound[list[n]] = round
  BY <1>1, <1>2, <1>3, <1>4, <1>5
<1>6. CASE ~(n <= Len(list) /\ StartVotingRound[list[n]] = round) /\ n # 1
  <2>1. n - 1 \in DOMAIN list /\ n \in 2 .. Len(list) + 1
    BY <1>1, <1>3, <1>6
  <2>2. FindByVotingRoundId(list, round) = list[n - 1]
    BY <1>4, <1>6
  <2>3. QED
    BY <1>2, <1>3, <2>1, <2>2
<1>7. CASE ~(n <= Len(list) /\ StartVotingRound[list[n]] = round) /\ n = 1
  BY <1>4, <1>7
<1>8. QED
  BY <1>5, <1>6, <1>7

\* Where policies start later than their predecessors, findByVotingRoundId returns
\* the last one that has started by the voting round.
LEMMA FindLast ==
  ASSUME NEW list \in Seq(RewardEpoch), NEW round \in Int,
         \A j, k \in DOMAIN list : j < k => StartVotingRound[list[j]] < StartVotingRound[list[k]]
  PROVE  LET sp == FindByVotingRoundId(list, round)
         IN  sp # NoPolicy =>
               \E p \in DOMAIN list :
                 /\ list[p] = sp
                 /\ \A k \in DOMAIN list : p < k => StartVotingRound[list[k]] > round
<1> DEFINE Later == {i \in DOMAIN list : StartVotingRound[list[i]] >= round}
           n == IF Later = {} THEN Len(list) + 1
                ELSE CHOOSE k \in Later : \A l \in Later : k <= l
<1>1. DOMAIN list = 1 .. Len(list) /\ Len(list) \in Nat
  OBVIOUS
<1>2. \A i \in DOMAIN list : list[i] \in RewardEpoch /\ StartVotingRound[list[i]] \in Nat
  <2>1. \A i \in DOMAIN list : list[i] \in RewardEpoch
    BY <1>1
  <2> QED
    BY Zenon, <2>1, PolicyAssumption DEF PolicyAssumption
<1>3. n \in 1 .. Len(list) + 1 /\ (n <= Len(list) => StartVotingRound[list[n]] >= round)
  <2>1. CASE Later = {}
    BY <1>1, <2>1
  <2>2. CASE Later # {}
    <3>1. Later \in SUBSET Nat
      BY <1>1
    <3>2. \E k \in Later : \A l \in Later : k <= l
      BY Zenon, <2>2, <3>1, LeastElement
    <3>3. n \in Later
      BY <2>2, <3>2
    <3> QED
      BY <1>1, <3>3
  <2> QED
    BY Zenon, <2>1, <2>2
<1>4. FindByVotingRoundId(list, round) =
        IF n <= Len(list) /\ StartVotingRound[list[n]] = round THEN list[n]
        ELSE IF n = 1 THEN NoPolicy ELSE list[n - 1]
  BY DEF FindByVotingRoundId
<1> HIDE DEF n
<1>5. \A k \in DOMAIN list : n < k => StartVotingRound[list[k]] > round
  <2> SUFFICES ASSUME NEW k \in DOMAIN list, n < k PROVE StartVotingRound[list[k]] > round
    OBVIOUS
  <2>1. n \in DOMAIN list
    BY <1>1, <1>3
  <2>2. StartVotingRound[list[n]] < StartVotingRound[list[k]] /\ StartVotingRound[list[n]] >= round
    BY <1>1, <1>3, <2>1
  <2> QED
    BY <1>2, <2>1, <2>2
<1>6. CASE n <= Len(list) /\ StartVotingRound[list[n]] = round
  <2>1. n \in DOMAIN list /\ FindByVotingRoundId(list, round) = list[n]
    BY <1>1, <1>3, <1>4, <1>6
  <2> QED
    BY <1>5, <2>1
<1>7. CASE ~(n <= Len(list) /\ StartVotingRound[list[n]] = round) /\ n # 1
  <2>1. n - 1 \in DOMAIN list /\ FindByVotingRoundId(list, round) = list[n - 1]
    BY <1>1, <1>3, <1>4, <1>7
  <2>2. ASSUME NEW k \in DOMAIN list, n - 1 < k PROVE StartVotingRound[list[k]] > round
    <3>1. CASE k = n
      BY <1>1, <1>2, <1>3, <1>7, <3>1
    <3>2. CASE k # n
      <4>1. n < k
        BY <1>1, <1>3, <2>2, <3>2
      <4> QED
        BY <1>5, <4>1
    <3> QED
      BY <3>1, <3>2
  <2> QED
    BY <2>1, <2>2
<1>8. CASE ~(n <= Len(list) /\ StartVotingRound[list[n]] = round) /\ n = 1
  BY <1>4, <1>8
<1> QED
  BY <1>6, <1>7, <1>8

\* RemoveByVotingRound drops started policies, keeps a suffix of the list and
\* returns ids of policies.
LEMMA RemoveSpec ==
  ASSUME NEW list \in Seq(RewardEpoch), NEW round \in Int
  PROVE  /\ RemovedCount(list, round) \in 0 .. Len(list)
         /\ \A i \in 1 .. RemovedCount(list, round) : StartVotingRound[list[i]] <= round
         /\ RemoveByVotingRound(list, round) \in Seq(RewardEpoch)
         /\ Len(RemoveByVotingRound(list, round)) = Len(list) - RemovedCount(list, round)
         /\ \A k \in 1 .. Len(list) - RemovedCount(list, round) :
              RemoveByVotingRound(list, round)[k] = list[RemovedCount(list, round) + k]
         /\ RemovedEpochIds(list, round) \subseteq RewardEpoch
<1> DEFINE N == {n \in 0 .. Len(list) : n < Len(list) => StartVotingRound[list[n + 1]] > round}
           OK(n) == /\ \A i \in 1 .. n : StartVotingRound[list[i]] <= round
                    /\ n < Len(list) => StartVotingRound[list[n + 1]] > round
<1>1. DOMAIN list = 1 .. Len(list) /\ Len(list) \in Nat
  OBVIOUS
<1>2. \A i \in 1 .. Len(list) : StartVotingRound[list[i]] \in Nat
  <2>1. \A i \in 1 .. Len(list) : list[i] \in RewardEpoch
    BY <1>1
  <2>2. QED
    BY Zenon, <2>1, PolicyAssumption DEF PolicyAssumption
<1>3. N \in SUBSET Nat /\ Len(list) \in N
  BY <1>1
<1>4. PICK n \in N : \A l \in N : n <= l
  BY Zenon, <1>3, LeastElement
<1>5. \A i \in 1 .. n : StartVotingRound[list[i]] <= round
  <2>1. TAKE i \in 1 .. n
  <2>2. i - 1 \in 0 .. Len(list) /\ ~(n <= i - 1) /\ i \in 1 .. Len(list)
    BY <1>1, <1>4
  <2>3. i - 1 \notin N
    BY Zenon, <1>4, <2>2
  <2>4. ~(StartVotingRound[list[i]] > round)
    BY <2>2, <2>3
  <2>5. QED
    BY <1>2, <2>2, <2>4
<1>6. n \in 0 .. Len(list) /\ OK(n)
  BY <1>4, <1>5
<1>7. /\ RemovedCount(list, round) \in 0 .. Len(list)
      /\ \A i \in 1 .. RemovedCount(list, round) : StartVotingRound[list[i]] <= round
  <2>1. RemovedCount(list, round) = CHOOSE k \in 0 .. Len(list) : OK(k)
    BY DEF RemovedCount
  <2>2. OK(RemovedCount(list, round)) /\ RemovedCount(list, round) \in 0 .. Len(list)
    <3> HIDE DEF OK
    <3> QED
      BY <1>6, <2>1
  <2>3. QED
    BY <2>2
<1>8. /\ RemoveByVotingRound(list, round) \in Seq(RewardEpoch)
      /\ Len(RemoveByVotingRound(list, round)) = Len(list) - RemovedCount(list, round)
      /\ \A k \in 1 .. Len(list) - RemovedCount(list, round) :
           RemoveByVotingRound(list, round)[k] = list[RemovedCount(list, round) + k]
  <2>1. PICK c : c = RemovedCount(list, round)
    OBVIOUS
  <2>2. PICK t : t = RemoveByVotingRound(list, round)
    OBVIOUS
  <2>3. t = SubSeq(list, c + 1, Len(list)) /\ c \in 0 .. Len(list)
    BY <1>7, <2>1, <2>2 DEF RemoveByVotingRound
  <2>4. /\ SubSeq(list, c + 1, Len(list)) \in Seq(RewardEpoch)
        /\ Len(SubSeq(list, c + 1, Len(list))) = Len(list) - c
        /\ \A k \in 1 .. Len(list) - c : SubSeq(list, c + 1, Len(list))[k] = list[c + k]
    BY <2>3
  <2>5. QED
    BY <2>1, <2>2, <2>3, <2>4, Zenon
<1>9. RemovedEpochIds(list, round) \subseteq RewardEpoch
  BY <1>1, <1>7 DEF RemovedEpochIds
<1>10. QED
  BY <1>7, <1>8, <1>9

\* submissionStorage.Add: the entry keeps its policy or gets the given one, its
\* signers and its flag only grow.
LEMMA AddSubmissionSpec ==
  ASSUME NEW md \in MessageData, NEW signer \in Voter, NEW sp \in RewardEpoch,
         NEW threshold \in 0 .. MaxUint16
  PROVE  LET new == AddSubmission(md, signer, sp, threshold)
         IN  /\ new \in MessageData
             /\ new.policy = IF md.policy = NoPolicy THEN sp ELSE md.policy
             /\ md.policy # NoPolicy =>
                  /\ md.payload \subseteq new.payload
                  /\ md.thresholdReached => new.thresholdReached
<1> DEFINE entry == IF md.policy = NoPolicy THEN NewMessageData(sp) ELSE md
<1>1. /\ entry \in MessageData
      /\ entry.policy \in RewardEpoch
      /\ entry.policy = IF md.policy = NoPolicy THEN sp ELSE md.policy
      /\ md.policy # NoPolicy => entry = md
  <2>1. CASE md.policy = NoPolicy
    BY <2>1, MaxUint16Type DEF MessageData, NewMessageData
  <2>2. CASE md.policy # NoPolicy
    BY <2>2 DEF MessageData
  <2>3. QED
    BY <2>1, <2>2
<1> HIDE DEF entry
<1>2. WeightOf[entry.policy][{signer}] \in 0 .. MaxUint16
  BY <1>1, WeightAssumption DEF WeightAssumption
<1>3. (entry.weight + WeightOf[entry.policy][{signer}]) % (MaxUint16 + 1) \in 0 .. MaxUint16
  <2>1. entry.weight \in Nat /\ WeightOf[entry.policy][{signer}] \in Nat
    BY <1>1, <1>2, MaxUint16Type DEF MessageData
  <2> DEFINE w == entry.weight + WeightOf[entry.policy][{signer}]
  <2>2. w \in Nat
    BY <2>1
  <2> HIDE DEF w
  <2>3. w % (MaxUint16 + 1) \in 0 .. MaxUint16
    BY <2>2, Modulo, MaxUint16Type
  <2>4. QED
    BY <2>3 DEF w
<1>4. LET new == AddPayload(entry, signer, threshold)
      IN  /\ new \in MessageData
          /\ new.policy = entry.policy
          /\ entry.payload \subseteq new.payload
          /\ entry.thresholdReached => new.thresholdReached
  BY Zenon, <1>1, <1>3 DEF AddPayload, MessageData
<1>5. AddSubmission(md, signer, sp, threshold) =
        IF signer \in VotersOf[entry.policy] THEN AddPayload(entry, signer, threshold) ELSE entry
  BY DEF AddSubmission, entry
<1>6. QED
  BY <1>1, <1>4, <1>5

\* submissionStorage.Add keeps the weight of an entry equal to the weight of its
\* distinct registered signers; the uint16 addition does not wrap.
LEMMA AddSubmissionWeight ==
  ASSUME NEW md \in MessageData, NEW signer \in Voter, NEW sp \in RewardEpoch,
         NEW threshold \in 0 .. MaxUint16,
         md.policy # NoPolicy =>
           /\ md.payload \subseteq VotersOf[md.policy]
           /\ md.weight = WeightOf[md.policy][md.payload]
  PROVE  LET new == AddSubmission(md, signer, sp, threshold)
         IN  /\ new.payload \subseteq VotersOf[new.policy]
             /\ new.weight = WeightOf[new.policy][new.payload]
<1> DEFINE entry == IF md.policy = NoPolicy THEN NewMessageData(sp) ELSE md
           e == entry.policy
           w == entry.weight + WeightOf[e][{signer}]
<1>1. /\ entry \in MessageData
      /\ e \in RewardEpoch
      /\ entry.payload \subseteq VotersOf[e]
      /\ entry.weight = WeightOf[e][entry.payload]
  <2>1. CASE md.policy = NoPolicy
    <3>1. entry = [payload |-> {}, weight |-> 0, policy |-> sp, thresholdReached |-> FALSE]
      BY ZenonT(30), <2>1 DEF NewMessageData
    <3>2. e = entry.policy
      OBVIOUS
    <3> HIDE DEF entry, e
    <3>3. e = sp /\ entry.payload = {} /\ entry.weight = 0
      BY <3>1, <3>2
    <3>4. {} \in SUBSET Voter /\ sp \in RewardEpoch \cup {NoPolicy} /\ FALSE \in BOOLEAN
      BY Zenon
    <3>5. 0 \in 0 .. MaxUint16
      BY MaxUint16Type
    <3>6. entry \in MessageData
      BY ZenonT(30), <3>1, <3>4, <3>5 DEF MessageData
    <3>7. WeightOf[sp][{}] = 0
      BY WeightAssumption DEF WeightAssumption
    <3>8. {} \subseteq VotersOf[sp]
      BY ZenonT(30)
    <3>9. QED
      BY ZenonT(30), <3>3, <3>6, <3>7, <3>8
  <2>2. CASE md.policy # NoPolicy
    BY <2>2 DEF MessageData
  <2>3. QED
    BY Zenon, <2>1, <2>2
<1>2. AddSubmission(md, signer, sp, threshold) =
        IF signer \in VotersOf[e] THEN AddPayload(entry, signer, threshold) ELSE entry
  BY DEF AddSubmission
<1> HIDE DEF entry
<1>3. CASE signer \in VotersOf[e] /\ signer \notin entry.payload
  <2>1. /\ WeightOf[e][entry.payload \cup {signer}] = w
        /\ WeightOf[e][entry.payload \cup {signer}] \in 0 .. MaxUint16
    <3>1. entry.payload \in SUBSET Voter /\ entry.payload \cup {signer} \in SUBSET Voter
      BY <1>1 DEF MessageData
    <3> HIDE DEF e
    <3>2. /\ WeightOf[e] \in [SUBSET Voter -> 0 .. MaxUint16]
          /\ \A S \in SUBSET Voter : \A v \in VotersOf[e] \ S :
               S \subseteq VotersOf[e]
                 => WeightOf[e][S \cup {v}] = WeightOf[e][S] + WeightOf[e][{v}]
      BY Zenon, <1>1, WeightAssumption DEF WeightAssumption
    <3>3. WeightOf[e][entry.payload \cup {signer}] = WeightOf[e][entry.payload] + WeightOf[e][{signer}]
      BY ZenonT(30), <1>1, <1>3, <3>1, <3>2
    <3>4. WeightOf[e][entry.payload \cup {signer}] \in 0 .. MaxUint16
      BY <3>1, <3>2
    <3>5. QED
      BY <1>1, <3>3, <3>4
  <2>2. w % (MaxUint16 + 1) = w
    <3> HIDE DEF w
    <3>1. w \in Nat /\ w <= MaxUint16
      BY <2>1, MaxUint16Type
    <3>2. QED
      BY <3>1, Modulo, MaxUint16Type
  <2>3. LET new == AddPayload(entry, signer, threshold)
        IN  /\ new.payload = entry.payload \cup {signer}
            /\ new.weight = w % (MaxUint16 + 1)
            /\ new.policy = e
    BY <1>1, <1>3 DEF AddPayload, MessageData
  <2> HIDE DEF w
  <2>4. QED
    BY ZenonT(30), <1>1, <1>2, <1>3, <2>1, <2>2, <2>3
<1>4. CASE ~(signer \in VotersOf[e] /\ signer \notin entry.payload)
  <2>1. AddSubmission(md, signer, sp, threshold) = entry
    BY <1>2, <1>4 DEF AddPayload
  <2>2. QED
    BY <1>1, <2>1
<1>5. QED
  BY ZenonT(30), <1>3, <1>4

\* The flag of an entry is set by a signature that brings its weight above the
\* threshold, and the weight does not fall afterwards.
LEMMA AddSubmissionThreshold ==
  ASSUME NEW md \in MessageData, NEW signer \in Voter, NEW sp \in RewardEpoch,
         NEW threshold \in 0 .. MaxUint16,
         md.policy # NoPolicy =>
           /\ md.payload \subseteq VotersOf[md.policy]
           /\ md.weight = WeightOf[md.policy][md.payload]
  PROVE  LET new == AddSubmission(md, signer, sp, threshold)
         IN  new.thresholdReached =>
               \/ md.policy # NoPolicy /\ md.thresholdReached /\ md.weight <= new.weight
               \/ new.weight > threshold
<1> DEFINE entry == IF md.policy = NoPolicy THEN NewMessageData(sp) ELSE md
           new == AddSubmission(md, signer, sp, threshold)
           w == (entry.weight + WeightOf[entry.policy][{signer}]) % (MaxUint16 + 1)
<1>1. /\ new \in MessageData
      /\ new.policy = IF md.policy = NoPolicy THEN sp ELSE md.policy
      /\ new.weight = WeightOf[new.policy][new.payload]
  BY AddSubmissionSpec, AddSubmissionWeight
<1>2. new = IF signer \in VotersOf[entry.policy] THEN AddPayload(entry, signer, threshold) ELSE entry
  BY DEF AddSubmission
<1>3. /\ entry \in MessageData /\ entry.policy \in RewardEpoch
      /\ entry.thresholdReached => entry = md /\ md.policy # NoPolicy
  <2>1. CASE md.policy = NoPolicy
    BY <2>1, MaxUint16Type DEF MessageData, NewMessageData
  <2>2. CASE md.policy # NoPolicy
    BY <2>2 DEF MessageData
  <2> QED
    BY <2>1, <2>2
<1> HIDE DEF entry, new
<1>4. CASE new = entry
  <2>1. ASSUME new.thresholdReached
        PROVE  md.policy # NoPolicy /\ md.thresholdReached /\ md.weight <= new.weight
    <3>1. new = md /\ md.policy # NoPolicy /\ md.thresholdReached
      BY <1>3, <1>4, <2>1, Zenon
    <3>2. md.weight \in Nat
      BY MaxUint16Type DEF MessageData
    <3> QED
      BY <3>1, <3>2
  <2> QED
    BY <2>1 DEF new
<1>5. CASE new # entry
  <2>1. /\ signer \in VotersOf[entry.policy] /\ signer \notin entry.payload
        /\ new = [entry EXCEPT !.payload = @ \cup {signer}, !.weight = w,
                               !.thresholdReached = @ \/ w > threshold]
    BY <1>2, <1>5 DEF AddPayload
  <2>2. /\ new.weight = w /\ new.policy = entry.policy
        /\ new.payload = entry.payload \cup {signer}
        /\ new.thresholdReached = (entry.thresholdReached \/ w > threshold)
    BY <1>3, <2>1, Zenon DEF MessageData
  <2>3. CASE w > threshold
    BY <2>2, <2>3 DEF new
  <2>4. CASE entry.thresholdReached
    <3>1. entry = md /\ md.policy # NoPolicy /\ md.thresholdReached
      BY <1>3, <2>4
    <3> DEFINE e == md.policy
    <3>2. /\ md.payload \in SUBSET Voter /\ md.payload \subseteq VotersOf[e] /\ e \in RewardEpoch
          /\ signer \in VotersOf[e] \ md.payload /\ {signer} \in SUBSET Voter
      BY <1>3, <2>1, <3>1 DEF MessageData
    <3>3. /\ WeightOf[e] \in [SUBSET Voter -> 0 .. MaxUint16]
          /\ WeightOf[e][md.payload \cup {signer}] = WeightOf[e][md.payload] + WeightOf[e][{signer}]
      BY <3>2, WeightAssumption, Zenon DEF WeightAssumption
    <3>4. WeightOf[e][{signer}] \in 0 .. MaxUint16 /\ WeightOf[e][md.payload] \in 0 .. MaxUint16
      BY <3>2, <3>3, Zenon
    <3>5. new.weight = WeightOf[e][md.payload \cup {signer}]
      BY <1>1, <2>2, <3>1, Zenon
    <3>6. md.weight <= new.weight
      BY <3>1, <3>3, <3>4, <3>5, MaxUint16Type
    <3> QED
      BY <3>1, <3>6 DEF new
  <2>5. ASSUME new.thresholdReached PROVE w > threshold \/ entry.thresholdReached
    BY <2>2, <2>5, Zenon
  <2> QED
    BY <2>3, <2>4, <2>5 DEF new
<1> QED
  BY <1>4, <1>5

\* A voter's signature is in the entry that submissionStorage.Add leaves.
LEMMA AddSubmissionSigner ==
  ASSUME NEW md \in MessageData, NEW signer \in Voter, NEW sp \in RewardEpoch,
         NEW threshold \in 0 .. MaxUint16
  PROVE  LET new == AddSubmission(md, signer, sp, threshold)
         IN  signer \in VotersOf[new.policy] => signer \in new.payload
<1>1. PICK entry : entry = IF md.policy = NoPolicy THEN NewMessageData(sp) ELSE md
  OBVIOUS
<1>2. PICK new : new = AddSubmission(md, signer, sp, threshold)
  OBVIOUS
<1>3. entry \in MessageData
  BY <1>1, MaxUint16Type DEF NewMessageData, MessageData
<1>4. new = IF signer \in VotersOf[entry.policy] THEN AddPayload(entry, signer, threshold) ELSE entry
  BY <1>1, <1>2 DEF AddSubmission
<1>5. CASE signer \in VotersOf[entry.policy]
  <2>1. new = AddPayload(entry, signer, threshold)
    BY <1>4, <1>5
  <2>2. signer \in new.payload
    BY <1>3, <2>1 DEF AddPayload, MessageData
  <2> QED
    BY <1>2, <2>2
<1>6. CASE signer \notin VotersOf[entry.policy]
  BY <1>2, <1>4, <1>6
<1> QED
  BY <1>5, <1>6
==============================================================================
