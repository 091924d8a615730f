---------------------------- MODULE FinalizerClient ----------------------------
(***************************************************************************)
(* The collecting half of the finalizer client                             *)
(* (client/finalizer/finalizer_client.go, relay_utils.go and               *)
(* submission_utils.go).  Three goroutines run next to each other: the     *)
(* poller of SigningPolicyInitialized logs, the consumer of its channel,   *)
(* and the listener of submitSignatures transactions.  They share the two  *)
(* stores of FinalizerStorage and feed the finalization queue.             *)
(*                                                                         *)
(* Outside the client: the chain, seen through the indexer database, which *)
(* stores its blocks in order, with non-decreasing timestamps, and lags.   *)
(* A failed database query changes nothing and is a stuttering step.       *)
(***************************************************************************)
EXTENDS FinalizerStorage

CONSTANTS
  Transactions,         \* payload lists a submitSignatures transaction may carry
  Scripts,              \* contents the chain may have, block by block
  NoTx,                 \* a block without such a transaction
  Unparsable,           \* policies whose log cannot be parsed
  StartTimeOffset,      \* finalizerContext.startTimeOffset, in ticks
  StartingRewardEpoch,  \* finalizerContext.startingRewardEpoch
  StartingVotingRound,  \* configured starting voting round, 0 for the current one
  ListenerBufferSize,   \* capacity of the policy channel
  PromptPolicies,       \* TRUE: a policy is in the store before its first round
  MaxLag,               \* how far the indexer database lags behind the chain
  InitTime,             \* when the model begins
  MaxTime, MaxRestarts   \* bounds of the model

VARIABLES
  now,         \* wall clock
  script,      \* what the chain is going to contain
  blocks,      \* the blocks in the indexer database
  running,     \* the process is up
  restarts,    \* how often the process went down
  startingVotingRound,  \* finalizerContext.startingVotingRound
  startTime,   \* where both listeners started to read
  spList,      \* signingPolicyStorage.spList
  spCursor,    \* eventRangeStart of the policy poller
  spBatch,     \* logs the poller has fetched and not yet sent (block numbers)
  spChan,      \* channel between poller and consumer
  spPc,        \* consumer: waiting for a policy, or where it is in the cleanup
  spRemoved,   \* removedEpochIds of the cleanup
  subs,        \* submissionStorage, per message
  subCursor,   \* eventRangeStart of the transaction listener
  subBatch,    \* transactions fetched and not yet processed (block numbers)
  subTx,       \* transaction being processed, 0 if none
  subItem,     \* payload item being processed, 0 if none
  subPc,       \* where the listener is within ProcessSubmissionData
  subLookup,   \* result of signingPolicyData for the item
  queue,       \* finalizerQueue.queue
  enqueued     \* history: how often each message was put on the queue

envVars == <<now, script, blocks>>
procVars == <<running, restarts, startingVotingRound, startTime>>
pollVars == <<spCursor, spBatch, spChan>>
policyVars == <<spList, spPc, spRemoved>>
txVars == <<subCursor, subBatch, subTx, subItem, subPc, subLookup>>
storeVars == <<subs, queue, enqueued>>
vars == <<envVars, procVars, pollVars, policyVars, txVars, storeVars>>

Content == [policy : RewardEpoch \cup {NoPolicy}, tx : Transactions \cup {NoTx}]
Block == [ts : Nat, policy : RewardEpoch \cup {NoPolicy}, tx : Transactions \cup {NoTx}]
Lookup == [sp : RewardEpoch \cup {NoPolicy}, threshold : 0 .. MaxUint16]
NoLookup == [sp |-> NoPolicy, threshold |-> 0]

\* Policies appear in the order of their reward epochs, without a gap.
ASSUME ScriptAssumption ==
  \A s \in Scripts : \A i, j \in DOMAIN s :
    (/\ i < j /\ s[i].policy # NoPolicy /\ s[j].policy # NoPolicy
     /\ \A k \in i + 1 .. j - 1 : s[k].policy = NoPolicy)
      => s[j].policy = s[i].policy + 1

ASSUME ClientAssumption ==
  /\ Transactions \subseteq Seq(SubmitterPayloadItem)
  /\ NoTx \notin Transactions
  /\ Unparsable \subseteq RewardEpoch
  /\ Scripts \subseteq Seq(Content)
  /\ StartTimeOffset \in Nat
  /\ StartingRewardEpoch \in Nat
  /\ StartingVotingRound \in Nat
  /\ ListenerBufferSize \in Nat \ {0}
  /\ PromptPolicies \in BOOLEAN
  /\ MaxLag \in Nat /\ InitTime \in Nat /\ MaxTime \in Nat /\ MaxRestarts \in Nat

VotingRoundAt(t) == EpochIndex(t, 0, VotingPeriod)

Visible(from, to) == {i \in DOMAIN blocks : from < blocks[i].ts /\ blocks[i].ts <= to}
PolicyLogs(from, to) == {i \in Visible(from, to) : blocks[i].policy # NoPolicy}
SignatureTxs(from, to) == {i \in Visible(from, to) : blocks[i].tx # NoTx}
Earliest(batch) == {i \in batch : \A j \in batch : blocks[i].ts <= blocks[j].ts}

(***************************************************************************)
(* The environment.                                                        *)
(***************************************************************************)

Published == {i \in DOMAIN blocks : blocks[i].policy # NoPolicy}

\* Policy published in block i has gone through the poller and its channel.
Delivered(i) ==
  /\ blocks[i].ts <= spCursor
  /\ blocks[i].policy \notin {spChan[k] : k \in DOMAIN spChan}

Tick ==
  /\ now < MaxTime
  /\ PromptPolicies /\ running =>
       /\ spPc = "wait"
       /\ \A i \in Published :
            StartVotingRound[blocks[i].policy] <= VotingRoundAt(now + 1) => Delivered(i)
  /\ now' = now + 1
  /\ UNCHANGED <<script, blocks, procVars, pollVars, policyVars, txVars, storeVars>>

\* The indexer stores the block that follows on the chain, late by at most
\* MaxLag.  The relay contract publishes a policy before its first voting
\* round, and never two in one second.
IndexBlock(ts) ==
  LET next == script[Len(blocks) + 1]
  IN  /\ Len(blocks) < Len(script)
      /\ 0 <= ts /\ ts <= now
      /\ \A i \in DOMAIN blocks : blocks[i].ts <= ts
      /\ next.policy # NoPolicy =>
           /\ \A i \in Published : blocks[i].ts < ts
           /\ VotingRoundAt(IF PromptPolicies THEN now ELSE ts) < StartVotingRound[next.policy]
      /\ blocks' = Append(blocks, [ts |-> ts, policy |-> next.policy, tx |-> next.tx])
      /\ UNCHANGED <<now, script, procVars, pollVars, policyVars, txVars, storeVars>>

(***************************************************************************)
(* Start and end of the process.                                           *)
(***************************************************************************)

FetchSigningPolicies(from) == PolicyLogs(from, now)

\* fetchExistingSigningPolicies: all the fetched policies in the order of their
\* logs, each of which must parse and Add must accept; otherwise the client does
\* not come up.
FetchExistingSigningPolicies(from) ==
  LET S == {blocks[i].policy : i \in FetchSigningPolicies(from)} \ 0 .. StartingRewardEpoch - 1
  IN  {s \in UNION {[1 .. n -> S] : n \in 0 .. Len(blocks)} :
         /\ \A i \in FetchSigningPolicies(from) : blocks[i].policy \notin Unparsable
         /\ \A e \in S : \E k \in DOMAIN s : s[k] = e
         /\ \A k \in 1 .. Len(s) - 1 : s[k] < s[k + 1] /\ CanAddPolicy(SubSeq(s, 1, k), s[k + 1])}

\* Where the listeners start to read: at the last of these policies, if any.
ListenFrom(from) ==
  LET logs == FetchSigningPolicies(from)
  IN  IF logs = {} THEN from
      ELSE blocks[CHOOSE i \in logs : \A j \in logs : blocks[j].ts <= blocks[i].ts].ts

\* newFinalizerContext.
FirstVotingRound == IF StartingVotingRound = 0 THEN VotingRoundAt(now) ELSE StartingVotingRound

\* RunContext up to the start of the goroutines.
Start ==
  LET from == now - StartTimeOffset
      last == ListenFrom(from)
  IN  /\ ~running
      /\ running' = TRUE
      /\ startingVotingRound' = FirstVotingRound
      /\ spList' \in FetchExistingSigningPolicies(from)
      /\ startTime' = last
      /\ spCursor' = last
      /\ subCursor' = last
      /\ UNCHANGED <<envVars, restarts, spBatch, spChan, spPc, spRemoved,
                     subBatch, subTx, subItem, subPc, subLookup, storeVars>>

\* The process goes down and everything it kept in memory is lost.
Stop ==
  /\ running
  /\ restarts < MaxRestarts
  /\ restarts' = restarts + 1
  /\ running' = FALSE
  /\ startingVotingRound' = 0 /\ startTime' = 0
  /\ spList' = <<>> /\ spCursor' = 0 /\ spBatch' = {} /\ spChan' = <<>>
  /\ spPc' = "wait" /\ spRemoved' = {}
  /\ subCursor' = 0 /\ subBatch' = {} /\ subTx' = 0 /\ subItem' = 0
  /\ subPc' = "loop" /\ subLookup' = NoLookup
  /\ subs' = [m \in Message |-> NoData]
  /\ queue' = <<>> /\ enqueued' = [m \in Message |-> 0]
  /\ UNCHANGED envVars

(***************************************************************************)
(* The poller of SigningPolicyInitialized logs.                            *)
(***************************************************************************)

FetchPolicyLogs ==
  /\ running
  /\ spBatch = {}
  /\ spBatch' = PolicyLogs(spCursor, now)
  /\ UNCHANGED <<envVars, procVars, spCursor, spChan, policyVars, txVars, storeVars>>

\* Blocks while the channel is full.
SendPolicy ==
  /\ running
  /\ Len(spChan) < ListenerBufferSize
  /\ \E i \in Earliest(spBatch) :
       /\ blocks[i].policy \notin Unparsable
       /\ spChan' = Append(spChan, blocks[i].policy)
       /\ spCursor' = blocks[i].ts
       /\ spBatch' = spBatch \ {i}
  /\ UNCHANGED <<envVars, procVars, policyVars, txVars, storeVars>>

\* Mutant: the range is marked as read although the pass ended early.
PolicyParseErrorSkips ==
  /\ running
  /\ \E i \in Earliest(spBatch) : blocks[i].policy \in Unparsable
  /\ spBatch' = {} /\ spCursor' = now
  /\ UNCHANGED <<envVars, procVars, spChan, policyVars, txVars, storeVars>>

\* A log that cannot be parsed ends the pass; the next one starts with it again.
PolicyParseError ==
  /\ running
  /\ \E i \in Earliest(spBatch) : blocks[i].policy \in Unparsable
  /\ spBatch' = {}
  /\ UNCHANGED <<envVars, procVars, spCursor, spChan, policyVars, txVars, storeVars>>

(***************************************************************************)
(* The consumer: runSigningPolicyInitializedListener.                      *)
(***************************************************************************)

ReceivePolicy ==
  /\ running
  /\ spPc = "wait"
  /\ spChan # <<>>
  /\ spChan' = Tail(spChan)
  /\ IF Head(spChan) < StartingRewardEpoch
     THEN UNCHANGED <<spList, spPc>>
     ELSE spList' = AddPolicy(spList, Head(spChan)) /\ spPc' = "cleanup"
  /\ UNCHANGED <<envVars, procVars, spCursor, spBatch, spRemoved, txVars, storeVars>>

\* Mutant: policies are kept for one start offset only.
CleanupRoundTooLate == VotingRoundAt(now - StartTimeOffset)

\* The cleanupVotingRoundId of rewardEpochCleanup.
CleanupRound == VotingRoundAt(now - 2 * StartTimeOffset)

\* rewardEpochCleanup, first the policies and then the submissions, whose round
\* ids are given as the ids of the removed reward epochs.
RewardEpochCleanup ==
  /\ running
  /\ spPc = "cleanup"
  /\ IF CleanupRound < 0
     THEN spPc' = "wait" /\ UNCHANGED <<spList, spRemoved>>
     ELSE /\ spPc' = "remove"
          /\ spList' = RemoveByVotingRound(spList, CleanupRound)
          /\ spRemoved' = RemovedEpochIds(spList, CleanupRound)
  /\ UNCHANGED <<envVars, procVars, pollVars, txVars, storeVars>>

RemoveSubmissions ==
  /\ running
  /\ spPc = "remove"
  /\ spPc' = "wait" /\ spRemoved' = {}
  /\ subs' = RemoveVotingRoundIds(subs, spRemoved)
  /\ UNCHANGED <<envVars, procVars, pollVars, spList, txVars, queue, enqueued>>

(***************************************************************************)
(* The listener of submitSignatures transactions, with                     *)
(* ProcessSubmissionData split where it takes and releases locks.          *)
(***************************************************************************)

FetchTransactions ==
  /\ running
  /\ subPc = "loop"
  /\ subBatch = {}
  /\ subBatch' = SignatureTxs(subCursor, now)
  /\ UNCHANGED <<envVars, procVars, pollVars, policyVars,
                 subCursor, subTx, subItem, subPc, subLookup, storeVars>>

\* Mutant: the ranges do not overlap.
FinishTxNoOverlap(i) ==
  /\ subCursor' = blocks[i].ts
  /\ subTx' = 0 /\ subItem' = 0 /\ subPc' = "loop"

\* The cursor stays one behind the transaction, so that its second is read again.
FinishTx(i) ==
  /\ subCursor' = blocks[i].ts - 1
  /\ subTx' = 0 /\ subItem' = 0 /\ subPc' = "loop"

\* A transaction that cannot be decoded has no payload items.
TakeTx ==
  /\ running
  /\ subPc = "loop"
  /\ \E i \in Earliest(subBatch) :
       /\ subBatch' = subBatch \ {i}
       /\ IF blocks[i].tx = <<>> THEN FinishTx(i)
          ELSE /\ subTx' = i /\ subItem' = 1 /\ subPc' = "lookup"
               /\ UNCHANGED subCursor
  /\ UNCHANGED <<envVars, procVars, pollVars, policyVars, subLookup, storeVars>>

Item == blocks[subTx].tx[subItem]
Round == Item.votingRoundId

\* Go on with the next payload item or, after the last one, the next transaction.
NextItem ==
  /\ subLookup' = NoLookup
  /\ UNCHANGED subBatch
  /\ IF subItem < Len(blocks[subTx].tx)
     THEN /\ subItem' = subItem + 1
          /\ subPc' = "lookup"
          /\ UNCHANGED <<subCursor, subTx>>
     ELSE FinishTx(subTx)

\* signingPolicyData: the policy of the round and the threshold in force, 60% of
\* the total weight once the last policy is past its end.  EndEpoch takes a
\* voting round and is given the reward epoch id.
SigningPolicyData(round) ==
  LET sp == FindByVotingRoundId(spList, round)
      end == EndTime(EndEpoch(sp, RewardStart, RewardPeriod), 0, VotingPeriod)
      total == WeightOf[sp][VotersOf[sp]]
  IN  IF sp = NoPolicy THEN NoLookup
      ELSE IF sp # spList[Len(spList)] \/ now < end
      THEN [sp |-> sp, threshold |-> Threshold[sp]]
      ELSE [sp |-> sp, threshold |-> (total * 60) \div 100]

LookUpPolicy ==
  /\ running
  /\ subPc = "lookup"
  /\ IF Round < startingVotingRound \/ Round > VotingRoundAt(now)
     THEN NextItem
     ELSE /\ subLookup' = SigningPolicyData(Round)
          /\ subPc' = IF subLookup'.sp = NoPolicy THEN "first" ELSE "add"
          /\ UNCHANGED <<subCursor, subBatch, subTx, subItem>>
  /\ UNCHANGED <<envVars, procVars, pollVars, policyVars, storeVars>>

\* Mutant: a signature without a policy is skipped.
CheckFirstPolicySkips ==
  /\ running
  /\ subPc = "first"
  /\ NextItem
  /\ UNCHANGED <<envVars, procVars, pollVars, policyVars, storeVars>>

\* No policy: an old round is skipped; otherwise the listener gives up the batch
\* and reads the range again.
CheckFirstPolicy ==
  /\ running
  /\ subPc = "first"
  /\ IF spList # <<>> /\ Round < StartVotingRound[spList[1]]
     THEN NextItem
     ELSE /\ subBatch' = {} /\ subTx' = 0 /\ subItem' = 0
          /\ subPc' = "loop"
          /\ UNCHANGED <<subCursor, subLookup>>
  /\ UNCHANGED <<envVars, procVars, pollVars, policyVars, storeVars>>

\* submissionStorage.Add, which files the signature under the round and protocol
\* signed in the message, and, when this signature crossed the threshold,
\* queueProcessor.Add with those of the payload item and the seed of the policy
\* that was looked up.  The two calls lock separately; the second reads nothing of
\* the stores and only appends, so that whatever happens in between may as well
\* happen after both.
AddSignature ==
  LET m == Item.message
      md == AddSubmission(subs[m], Item.signer, subLookup.sp, subLookup.threshold)
  IN  /\ running
      /\ subPc = "add"
      /\ subs' = [subs EXCEPT ![m] = md]
      /\ IF CrossedThreshold(subs[m], md)
         THEN /\ queue' = Append(queue, [protocolId |-> Item.protocolId, votingRoundId |-> Round,
                                       message |-> m, seed |-> subLookup.sp])
              /\ enqueued' = [enqueued EXCEPT ![m] = @ + 1]
         ELSE UNCHANGED <<queue, enqueued>>
      /\ NextItem
      /\ UNCHANGED <<envVars, procVars, pollVars, policyVars>>

(***************************************************************************)
(* The specification.                                                      *)
(***************************************************************************)

Init ==
  /\ now = InitTime /\ script \in Scripts /\ blocks = <<>>
  /\ running = FALSE /\ restarts = 0 /\ startingVotingRound = 0 /\ startTime = 0
  /\ spList = <<>> /\ spCursor = 0 /\ spBatch = {} /\ spChan = <<>>
  /\ spPc = "wait" /\ spRemoved = {}
  /\ subs = [m \in Message |-> NoData]
  /\ subCursor = 0 /\ subBatch = {} /\ subTx = 0 /\ subItem = 0
  /\ subPc = "loop" /\ subLookup = NoLookup
  /\ queue = <<>> /\ enqueued = [m \in Message |-> 0]

Environment ==
  \/ Tick
  \/ \E ts \in now - MaxLag .. now : IndexBlock(ts)

PolicyListener ==
  \/ FetchPolicyLogs \/ SendPolicy \/ PolicyParseError
  \/ ReceivePolicy \/ RewardEpochCleanup \/ RemoveSubmissions

TxListener ==
  FetchTransactions \/ TakeTx \/ LookUpPolicy \/ CheckFirstPolicy \/ AddSignature

Next == Environment \/ Start \/ Stop \/ PolicyListener \/ TxListener

Spec == Init /\ [][Next]_vars

\* Each goroutine keeps running and the database answers in the end.
Fairness ==
  /\ WF_vars(Start)
  /\ WF_vars(FetchPolicyLogs) /\ WF_vars(SendPolicy)
  /\ WF_vars(ReceivePolicy) /\ WF_vars(RewardEpochCleanup) /\ WF_vars(RemoveSubmissions)
  /\ WF_vars(TxListener)

FairSpec == Spec /\ Fairness

(***************************************************************************)
(* Properties.                                                             *)
(***************************************************************************)

TypeOK ==
  /\ now \in Nat /\ script \in Scripts /\ blocks \in Seq(Block)
  /\ running \in BOOLEAN /\ restarts \in Nat
  /\ startingVotingRound \in Int /\ startTime \in Int
  /\ spList \in Seq(RewardEpoch) /\ spPc \in {"wait", "cleanup", "remove"}
  /\ spRemoved \subseteq RewardEpoch
  /\ spCursor \in Int /\ spBatch \subseteq Published /\ spChan \in Seq(RewardEpoch)
  /\ subs \in [Message -> MessageData]
  /\ subCursor \in Int /\ subPc \in {"loop", "lookup", "first", "add"}
  /\ subBatch \subseteq {i \in DOMAIN blocks : blocks[i].tx # NoTx}
  /\ subPc # "loop" => /\ subTx \in DOMAIN blocks /\ blocks[subTx].tx # NoTx
                       /\ subItem \in DOMAIN blocks[subTx].tx
  /\ subLookup \in Lookup /\ (subPc = "add" => subLookup.sp # NoPolicy)
  /\ queue \in Seq(QueueItem) /\ enqueued \in [Message -> Nat]

\* Policy e governs the voting round: the last published one to start by then.
Governs(e, round) ==
  /\ StartVotingRound[e] <= round
  /\ \E i \in Published : blocks[i].policy = e
  /\ \A i \in Published : blocks[i].policy > e => StartVotingRound[blocks[i].policy] > round

Stored(m) == subs[m].policy # NoPolicy

ItemsOnChain ==
  UNION {{blocks[i].tx[k] : k \in DOMAIN blocks[i].tx} : i \in {j \in DOMAIN blocks : blocks[j].tx # NoTx}}

\* The voting rounds that payload items on the chain give for message m: the one
\* signed in it and, unless the data providers take care, others.
AnnouncedRounds(m) ==
  {item.votingRoundId : item \in {it \in ItemsOnChain : it.message = m}}

\* The cleanup takes reward epoch ids for voting rounds; it cannot hit message m.
Kept(m) == RoundOf[m] \notin RewardEpoch

\* The weight kept for a message is the total weight of the distinct registered
\* voters whose signatures are stored, however often the overlapping ranges of
\* the listener deliver a signature; the uint16 sum never wraps.
WeightIsSum ==
  \A m \in Message : Stored(m) =>
    /\ subs[m].payload \subseteq VotersOf[subs[m].policy]
    /\ subs[m].weight = WeightOf[subs[m].policy][subs[m].payload]

\* A message goes on the finalization queue exactly once in the life of the
\* process, when its stored weight first exceeds the threshold, unless the cleanup
\* takes its round for a reward epoch.
EnqueuedOnce ==
  \A m \in Message : Kept(m) => enqueued[m] = IF subs[m].thresholdReached THEN 1 ELSE 0

\* The inductive invariant behind the last two: what is not stored is empty.
CountInv ==
  /\ TypeOK /\ WeightIsSum /\ EnqueuedOnce
  /\ \A m \in Message : Stored(m) \/ subs[m] = NoData

\* Signatures are stored under the signing policy of the message's voting round:
\* "The provided signing policy must be the signing policy for the voting round".
StoredUnderGoverningPolicy ==
  \A m \in Message : Stored(m) => Governs(subs[m].policy, RoundOf[m])

\* What holds of it: signatures are stored under the policy that governs a voting
\* round some payload item gave for the message, so under the policy of its own
\* round when the items agree with the message.
StoredUnderAnnouncedPolicy ==
  \A m \in Message : Stored(m) => \E r \in AnnouncedRounds(m) : Governs(subs[m].policy, r)

SixtyPercent(e) == (WeightOf[e][VotersOf[e]] * 60) \div 100
Outweighs(weight, e) == weight > Threshold[e] \/ weight > SixtyPercent(e)

\* A message on the queue has signatures of voters of the policy it is stored under
\* that together outweigh the threshold (or 60%, if that is less) of the policy of
\* a round some payload item gave for it.  Both are the policy of its own round
\* when the items agree with the message.
QuorumBehindQueue ==
  \A m \in Message : (enqueued[m] > 0 /\ Kept(m)) =>
    /\ subs[m].payload \subseteq VotersOf[subs[m].policy]
    /\ \E r \in AnnouncedRounds(m), e \in RewardEpoch :
         Governs(e, r) /\ Outweighs(WeightOf[subs[m].policy][subs[m].payload], e)

\* Every payload item in a transaction the listener has left behind has its message
\* stored and its signature with it, if its round had begun, is not before the
\* starting round and has its policy in the store, unless the signer is no voter of
\* the policy the message is stored under: neither the retry after a missing policy
\* nor a transaction indexed late within its second loses one.
NoSignatureLost ==
  running =>
    \A i \in DOMAIN blocks :
      (blocks[i].tx # NoTx /\ startTime < blocks[i].ts /\ blocks[i].ts <= subCursor) =>
        \A k \in DOMAIN blocks[i].tx :
          LET item == blocks[i].tx[k]
              md == subs[item.message]
          IN  (/\ startingVotingRound <= item.votingRoundId
               /\ item.votingRoundId <= VotingRoundAt(blocks[i].ts)
               /\ Kept(item.message)
               /\ \E n \in DOMAIN spList : Governs(spList[n], item.votingRoundId)) =>
                /\ Stored(item.message)
                /\ item.signer \in VotersOf[md.policy] => item.signer \in md.payload

\* Every policy the poller has left behind is in the channel or in the store,
\* unless it is old enough for the cleanup: no gap makes Add refuse a policy.
NoPolicyLost ==
  running =>
    \A i \in DOMAIN blocks :
      (/\ blocks[i].policy # NoPolicy
       /\ blocks[i].policy >= StartingRewardEpoch
       /\ startTime < blocks[i].ts
       /\ blocks[i].ts <= spCursor) =>
        \/ \E k \in DOMAIN spChan : spChan[k] = blocks[i].policy
        \/ \E k \in DOMAIN spList : spList[k] = blocks[i].policy
        \/ StartVotingRound[blocks[i].policy] <= CleanupRound

\* While the process runs, no step forgets the policy that governs the current
\* or the previous voting round, whose signatures are still coming in.
PolicyInUseKept ==
  [][running' =>
       \A k \in DOMAIN spList :
         (Governs(spList[k], VotingRoundAt(now)) \/ Governs(spList[k], VotingRoundAt(now) - 1))
           => \E l \in DOMAIN spList' : spList'[l] = spList[k]]_vars

\* The cleanup frees what was stored under the policies it removes: "Removed signing
\* policies and submissions with reward epoch <= %d".
CleanupRemovesSubmissions ==
  [][RemoveSubmissions => \A m \in Message : subs[m].policy \in spRemoved => subs'[m] = NoData]_vars

\* While the process runs, the signatures stored for a message are only added to,
\* under the policy they are stored under, and a message once over its threshold
\* stays so: no retry or late policy, and no cleanup unless it takes the round for
\* a reward epoch, starts the count again.
SignaturesAccumulate ==
  [][running' =>
       \A m \in Message : (Kept(m) /\ Stored(m)) =>
         /\ subs'[m].policy = subs[m].policy
         /\ subs[m].payload \subseteq subs'[m].payload
         /\ subs[m].thresholdReached => subs'[m].thresholdReached]_vars

\* Voters of policy e with a signature for m that the listener has to take.
SignersOnChain(m, e) ==
  {v \in VotersOf[e] :
     \E i \in DOMAIN blocks :
       /\ blocks[i].tx # NoTx
       /\ startTime < blocks[i].ts /\ RoundOf[m] <= VotingRoundAt(blocks[i].ts)
       /\ \E k \in DOMAIN blocks[i].tx :
            LET item == blocks[i].tx[k]
            IN  item.message = m /\ item.signer = v /\ item.votingRoundId = RoundOf[m]}

\* The signatures on the chain for m outweigh both thresholds of the policy of its
\* round, which is in the store.
QuorumOnChain(m) ==
  /\ running
  /\ Kept(m)
  /\ RoundOf[m] >= startingVotingRound
  /\ \E k \in DOMAIN spList :
       LET e == spList[k]
           weight == WeightOf[e][SignersOnChain(m, e)]
       IN  Governs(e, RoundOf[m]) /\ weight > Threshold[e] /\ weight > SixtyPercent(e)

\* A message with a quorum on the chain that lasts is put on the queue in the end,
\* whatever the order in which the policies and the signatures arrive, unless it
\* has been stored under the policy of another round.
QuorumIsQueued ==
  \A m \in Message :
    []QuorumOnChain(m)
      ~> (enqueued[m] > 0 \/ (Stored(m) /\ ~Governs(subs[m].policy, RoundOf[m])))
==============================================================================
