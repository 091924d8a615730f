---------------------------- MODULE FinalizerQueue ----------------------------
(***************************************************************************)
(* The sending half of the finalizer client (finalizer_queue.go, the       *)
(* DelayedQueueManager of utils/queue.go, SubmitPayloads of                *)
(* relay_utils.go).  The Run loop takes messages from the queue; one for   *)
(* which this finalizer is selected is sent at once, the others wait in a  *)
(* map from times to items until a timer goroutine for that time sends     *)
(* them.  The Run loop and any number of timer goroutines run side by side.*)
(*                                                                         *)
(* The collecting half is here the environment: Intake adds the signature  *)
(* of a payload item under a policy and a threshold that signingPolicyData *)
(* may return; its cleanup is left to FinalizerClient.  The draw of        *)
(* SelectVoters is a free choice.                                          *)
(***************************************************************************)
EXTENDS FinalizerStorage

CONSTANTS
  Submissions,           \* payload items that may come in
  GracePeriodEndOffset,  \* finalizerContext.gracePeriodEndOffset, in ticks
  MaxTxSendRetries,      \* attempts of ExecuteWithRetry
  MaxTime                \* bound of the model

ASSUME QueueAssumption ==
  /\ Submissions \subseteq SubmitterPayloadItem
  /\ GracePeriodEndOffset \in Nat
  /\ MaxTxSendRetries \in Nat \ {0}
  /\ MaxTime \in Nat

VARIABLES
  now,        \* wall clock
  subs,       \* submissionStorage, per message
  queue,      \* finalizerQueue.queue
  procs,      \* the Run loop (1) and the timer goroutines (2, 3, ...)
  timeMap,    \* DelayedQueueManager.timeMap
  cancelled,  \* ctx.Done() is closed
  sent,       \* history: relay transactions attempted
  gone        \* history: items the client is done with, and how it ended

vars == <<now, subs, queue, procs, timeMap, cancelled, sent, gone>>

\* A goroutine: where it is, the time of its timer, the items it still has to
\* process and those of them found relayed, the payloads it is sending and how
\* often it tried.
Proc ==
  [pc : {"wait", "check", "delay", "insert", "timer", "query", "process", "send", "done"},
   at : Nat, items : Seq(QueueItem), relayed : SUBSET QueueItem,
   selected : SUBSET Voter, tries : 0 .. MaxTxSendRetries - 1]

RunLoop ==
  [pc |-> "wait", at |-> 0, items |-> <<>>, relayed |-> {}, selected |-> {}, tries |-> 0]
NewTimer(t) == [RunLoop EXCEPT !.pc = "timer", !.at = t]

SixtyPercent(e) == (WeightOf[e][VotersOf[e]] * 60) \div 100
VotingRoundAt(t) == EpochIndex(t, 0, VotingPeriod)
Items(seq) == {seq[k] : k \in DOMAIN seq}
Cur(p) == Head(procs[p].items)
Data(p) == Get(subs, Cur(p))

(***************************************************************************)
(* The environment.                                                        *)
(***************************************************************************)

Tick ==
  /\ now < MaxTime
  /\ now' = now + 1
  /\ UNCHANGED <<subs, queue, procs, timeMap, sent, gone, cancelled>>

\* ProcessSubmissionData for one payload item, with the policy and the threshold
\* it found for the item's round: finalizerQueueProcessor.Add when the threshold is
\* crossed.
Intake(item, sp, threshold) ==
  LET m == item.message
      md == AddSubmission(subs[m], item.signer, sp, threshold)
  IN  /\ item.votingRoundId <= VotingRoundAt(now)
      /\ StartVotingRound[sp] <= item.votingRoundId
      /\ md # subs[m]
      /\ subs' = [subs EXCEPT ![m] = md]
      /\ IF CrossedThreshold(subs[m], md)
         THEN queue' = Append(queue, [protocolId |-> item.protocolId,
                                      votingRoundId |-> item.votingRoundId,
                                      message |-> m, seed |-> sp])
         ELSE UNCHANGED queue
      /\ UNCHANGED <<now, procs, timeMap, sent, gone, cancelled>>

Cancel ==
  /\ ~cancelled
  /\ cancelled' = TRUE
  /\ UNCHANGED <<now, subs, queue, procs, timeMap, sent, gone>>

(***************************************************************************)
(* The Run loop.                                                           *)
(***************************************************************************)

Pop ==
  /\ procs[1].pc = "wait"
  /\ queue # <<>>
  /\ queue' = Tail(queue)
  /\ procs' = [procs EXCEPT ![1].pc = "check", ![1].items = <<Head(queue)>>]
  /\ UNCHANGED <<now, subs, timeMap, sent, gone, cancelled>>

\* ctx.Done() is selected.
StopRun ==
  /\ procs[1].pc = "wait"
  /\ cancelled
  /\ procs' = [procs EXCEPT ![1].pc = "done"]
  /\ UNCHANGED <<now, subs, queue, timeMap, cancelled, sent, gone>>

\* isVoterForCurrentEpoch.
IsVoterForCurrentEpoch ==
  /\ procs[1].pc = "check"
  /\ \E selected \in BOOLEAN :
       procs' = [procs EXCEPT ![1].pc =
                   IF selected /\ Data(1).policy # NoPolicy THEN "process" ELSE "delay"]
  /\ UNCHANGED <<now, subs, queue, timeMap, sent, gone, cancelled>>

\* Goroutine p goes on with its next item; the Run loop waits for the next one, a
\* timer goroutine ends.
NextJob(p) ==
  [procs[p] EXCEPT !.items = Tail(@), !.selected = {}, !.tries = 0,
                   !.pc = IF p = 1 THEN "wait" ELSE IF Len(procs[p].items) > 1 THEN "process" ELSE "done"]

\* Goroutine p is done with its item.
Finish(p, how) ==
  /\ procs' = [procs EXCEPT ![p] = NextJob(p)]
  /\ gone' = [gone EXCEPT ![Cur(p).message] = @ \cup {how}]

\* Mutant of SendTime: the grace period of the round itself.
SendTimeSameRound(round) == StartTime(round, 0, VotingPeriod) + GracePeriodEndOffset

SendTime(round) == StartTime(round + 1, 0, VotingPeriod) + GracePeriodEndOffset

\* The item is to be sent after the grace period; DelayedQueueManager.Add ignores
\* it if that time is over.
Delay ==
  LET st == SendTime(Cur(1).votingRoundId)
  IN  /\ procs[1].pc = "delay"
      /\ IF Data(1).policy = NoPolicy
         THEN Finish(1, "no data")
         ELSE IF st < now
         THEN Finish(1, "late")
         ELSE procs' = [procs EXCEPT ![1].pc = "insert", ![1].at = st] /\ UNCHANGED gone
      /\ UNCHANGED <<now, subs, queue, timeMap, sent, cancelled>>

\* The locked part of DelayedQueueManager.Add, with createTimer.
Insert ==
  LET t == procs[1].at
      loop == [procs EXCEPT ![1] = [NextJob(1) EXCEPT !.at = 0]]
  IN  /\ procs[1].pc = "insert"
      /\ procs' = IF timeMap[t] = <<>> THEN Append(loop, NewTimer(t)) ELSE loop
      /\ timeMap' = [timeMap EXCEPT ![t] = Append(@, Cur(1))]
      /\ UNCHANGED <<now, subs, queue, sent, gone, cancelled>>

(***************************************************************************)
(* The timer goroutines.                                                   *)
(***************************************************************************)

\* Mutant of Fire: the items stay in the map.
FireKeepsItems(p) ==
  LET t == procs[p].at
  IN  /\ procs[p].pc = "timer"
      /\ t <= now
      /\ procs' = [procs EXCEPT ![p].pc = "query", ![p].items = timeMap[t]]
      /\ UNCHANGED <<now, subs, queue, timeMap, sent, gone, cancelled>>

\* The timer has fired: DelayedQueueManager.Get.
Fire(p) ==
  LET t == procs[p].at
  IN  /\ procs[p].pc = "timer"
      /\ t <= now
      /\ procs' = [procs EXCEPT ![p].pc = "query", ![p].items = timeMap[t]]
      /\ timeMap' = [timeMap EXCEPT ![t] = <<>>]
      /\ UNCHANGED <<now, subs, queue, sent, gone, cancelled>>

\* ProtocolMessageRelayed: the items it makes of the logs have no seed.
ProtocolMessageRelayed(logs) ==
  {[protocolId |-> ProtocolOf[m], votingRoundId |-> RoundOf[m], message |-> m, seed |-> NoPolicy] :
     m \in logs}

\* processDelayedQueue up to its loop, whatever messages were relayed: the loop
\* will pass over the items found relayed.
QueryRelayed(p) ==
  /\ procs[p].pc = "query"
  /\ \E logs \in SUBSET Message :
       procs' = [procs EXCEPT
                   ![p].pc = IF procs[p].items = <<>> THEN "done" ELSE "process",
                   ![p].relayed = Items(procs[p].items) \cap ProtocolMessageRelayed(logs)]
  /\ UNCHANGED <<now, subs, queue, timeMap, sent, gone, cancelled>>

\* The query fails: the error is logged and the items are dropped.
QueryError(p) ==
  /\ procs[p].pc = "query"
  /\ procs' = [procs EXCEPT ![p].pc = "done", ![p].items = <<>>]
  /\ gone' = [m \in Message |->
                IF \E item \in Items(procs[p].items) : item.message = m
                THEN gone[m] \cup {"db error"} ELSE gone[m]]
  /\ UNCHANGED <<now, subs, queue, timeMap, sent, cancelled>>

(***************************************************************************)
(* processItem, for the Run loop and the timer goroutines.                 *)
(***************************************************************************)

\* Mutant of GreedySelections: the lightest signatures first.
LightestSelections(md) ==
  LET w(S) == WeightOf[md.policy][S]
  IN  {S \in SUBSET md.payload :
         /\ \A v \in S, u \in md.payload \ S : w({v}) <= w({u})
         /\ S = md.payload \/ w(S) > Threshold[md.policy]
         /\ \A v \in S : (\A u \in S : w({v}) >= w({u})) => w(S \ {v}) <= Threshold[md.policy]}

\* The payloads taken one by one in the order of decreasing weight, equal ones in
\* any order, until their weight exceeds the threshold of the policy.
GreedySelections(md) ==
  LET w(S) == WeightOf[md.policy][S]
  IN  {S \in SUBSET md.payload :
         /\ \A v \in S, u \in md.payload \ S : w({v}) >= w({u})
         /\ S = md.payload \/ w(S) > Threshold[md.policy]
         /\ \A v \in S : (\A u \in S : w({v}) <= w({u})) => w(S \ {v}) <= Threshold[md.policy]}

Process(p) ==
  /\ procs[p].pc = "process"
  /\ IF Cur(p) \in procs[p].relayed
     THEN Finish(p, "relayed") /\ UNCHANGED sent
     ELSE IF Data(p).policy = NoPolicy \/ Data(p).payload = {}
     THEN Finish(p, "no data") /\ UNCHANGED sent
     ELSE /\ \E S \in GreedySelections(Data(p)) :
               /\ procs' = [procs EXCEPT ![p].pc = "send", ![p].selected = S]
               /\ sent' = sent \cup {[message |-> Cur(p).message, policy |-> Data(p).policy,
                                      signers |-> S, delayed |-> p # 1, at |-> now]}
          /\ UNCHANGED gone
  /\ UNCHANGED <<now, subs, queue, timeMap, cancelled>>

\* SubmitPayloads: the transaction is accepted, or refused because the message is
\* already relayed, which is no error.
SendSucceeds(p) ==
  /\ procs[p].pc = "send"
  /\ Finish(p, "sent")
  /\ UNCHANGED <<now, subs, queue, timeMap, sent, cancelled>>

\* ctx.Done() ends the wait of the Run loop for the outcome.
Abandon ==
  /\ procs[1].pc = "send"
  /\ cancelled
  /\ Finish(1, "cancelled")
  /\ UNCHANGED <<now, subs, queue, timeMap, sent, cancelled>>

\* Mutant of SendFails: the retries start over.
SendFailsForever(p) ==
  /\ procs[p].pc = "send"
  /\ procs' = [procs EXCEPT ![p].tries = (@ + 1) % MaxTxSendRetries]
  /\ UNCHANGED <<now, subs, queue, timeMap, sent, gone, cancelled>>

\* Any other error is tried again until the retries are used up.
SendFails(p) ==
  /\ procs[p].pc = "send"
  /\ IF procs[p].tries + 1 < MaxTxSendRetries
     THEN procs' = [procs EXCEPT ![p].tries = @ + 1] /\ UNCHANGED gone
     ELSE Finish(p, "gave up")
  /\ UNCHANGED <<now, subs, queue, timeMap, sent, cancelled>>

(***************************************************************************)
(* The specification.                                                      *)
(***************************************************************************)

Init ==
  /\ now = 0 /\ cancelled = FALSE
  /\ subs = [m \in Message |-> NoData]
  /\ queue = <<>> /\ procs = <<RunLoop>>
  /\ timeMap = [t \in {SendTime(RoundOf[m]) : m \in Message} |-> <<>>]
  /\ sent = {} /\ gone = [m \in Message |-> {}]

Environment ==
  \/ Tick
  \/ Cancel
  \/ \E item \in Submissions, sp \in RewardEpoch :
       \E threshold \in {Threshold[sp], SixtyPercent(sp)} : Intake(item, sp, threshold)

ProcessItem(p) == Process(p) \/ SendSucceeds(p) \/ SendFails(p)

Run == Pop \/ StopRun \/ Abandon \/ IsVoterForCurrentEpoch \/ Delay \/ Insert \/ ProcessItem(1)

Timer(p) == Fire(p) \/ QueryRelayed(p) \/ QueryError(p) \/ ProcessItem(p)

Next == Environment \/ Run \/ \E p \in DOMAIN procs \ {1} : Timer(p)

Spec == Init /\ [][Next]_vars

\* Time passes, and the scheduler runs every goroutine.
FairSpec ==
  /\ Spec
  /\ WF_vars(Tick) /\ WF_vars(Run)
  /\ WF_vars(\E p \in DOMAIN procs \ {1} : Timer(p))

(***************************************************************************)
(* Properties.                                                             *)
(***************************************************************************)

Outcome == {"no data", "late", "relayed", "db error", "sent", "gave up", "cancelled"}

TypeOK ==
  /\ now \in Nat /\ cancelled \in BOOLEAN
  /\ subs \in [Message -> MessageData]
  /\ queue \in Seq(QueueItem)
  /\ procs \in Seq(Proc) /\ procs # <<>>
  /\ timeMap \in [{SendTime(RoundOf[m]) : m \in Message} -> Seq(QueueItem)]
  /\ sent \subseteq [message : Message, policy : RewardEpoch, signers : SUBSET Voter,
                     delayed : BOOLEAN, at : Nat]
  /\ gone \in [Message -> SUBSET Outcome]

\* Where the client holds message m, or how it has parted with it.
Places(m) ==
  {<<"queue", i>> : i \in {k \in DOMAIN queue : queue[k].message = m}}
    \cup {<<"map", t>> : t \in {u \in DOMAIN timeMap :
                                 \E k \in DOMAIN timeMap[u] : timeMap[u][k].message = m}}
    \cup {<<"proc", p>> : p \in {q \in DOMAIN procs :
                                  \E k \in DOMAIN procs[q].items : procs[q].items[k].message = m}}
    \cup {<<"gone", how>> : how \in gone[m]}

\* A message that crossed its threshold is in exactly one place: on the queue, in
\* the delay map, with one goroutine, or dealt with.  The race between Add and
\* the timer's Get neither loses nor doubles it.
InOnePlace ==
  /\ TypeOK
  /\ \A m \in Message : Cardinality(Places(m)) = IF subs[m].thresholdReached THEN 1 ELSE 0

\* A relay transaction carries signatures of registered voters that were stored
\* for its message, outweigh the threshold of the policy or 60%, and none of
\* them could be left out.
SentQuorum ==
  \A r \in sent :
    /\ r.policy = subs[r.message].policy
    /\ r.signers \subseteq subs[r.message].payload \cap VotersOf[r.policy]
    /\ \/ WeightOf[r.policy][r.signers] > Threshold[r.policy]
       \/ WeightOf[r.policy][r.signers] > SixtyPercent(r.policy)
    /\ \A v \in r.signers : WeightOf[r.policy][r.signers \ {v}] <= Threshold[r.policy]

\* A finalizer that was not selected for a message sends it only after the grace
\* period of the following voting round.
GracePeriodKept ==
  \A r \in sent :
    r.delayed => r.at >= (RoundOf[r.message] + 1) * VotingPeriod + GracePeriodEndOffset

\* An item that is not for this finalizer to send at once is sent later:
\* "will send outside grace period for item".
DelayedItemsAreSent == \A m \in Message : "late" \notin gone[m]

\* A message on the queue is dealt with in the end, however many goroutines are
\* at work and however often sending fails, unless the client is stopped.
QueuedIsDealtWith ==
  \A m \in Message : subs[m].thresholdReached ~> (gone[m] # {} \/ cancelled)
==============================================================================
