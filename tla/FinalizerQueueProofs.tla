------------------------- MODULE FinalizerQueueProofs -------------------------
(***************************************************************************)
(* Proofs about FinalizerQueue for every number of voters, messages,       *)
(* policies, timers and retries.                                           *)
(*                                                                         *)
(* An item is handed from the queue to the Run loop, from there to the     *)
(* delay map and on to a timer goroutine.  The invariant says what each of *)
(* them may hold at each point of its control, and that the four kinds of  *)
(* place never hold the same message.                                      *)
(***************************************************************************)
EXTENDS FinalizerQueue, FinalizerStorageProofs, FiniteSetTheorems

\* Leaves without a pragma are for Zenon; the others need arithmetic or records.
USE ZenonT(30)

Times == {SendTime(RoundOf[m]) : m \in Message}
Holds(seq, m) == \E k \in DOMAIN seq : seq[k].message = m

\* Items that wait for time t: no message twice, and t is when they are due.
Due(seq, t) ==
  /\ \A k, l \in DOMAIN seq : seq[k].message = seq[l].message => k = l
  /\ \A k \in DOMAIN seq : SendTime(RoundOf[seq[k].message]) = t

\* The Run loop has the one item that it is at, and waits or ends without any.
LoopOK(r) ==
  /\ r.pc \in {"wait", "check", "delay", "insert", "process", "send", "done"}
  /\ r.pc \in {"wait", "done"} => r.items = <<>>
  /\ r.pc \notin {"wait", "done"} => Len(r.items) = 1
  /\ r.pc = "insert" => r.at = SendTime(RoundOf[r.items[1].message])

\* A timer goroutine gets its items, all due at its time, when that has come.
TimerOK(r, t) ==
  /\ r.pc \in {"timer", "query", "process", "send", "done"}
  /\ r.at \in Times
  /\ r.pc \in {"timer", "done"} => r.items = <<>>
  /\ r.pc \in {"process", "send"} => r.items # <<>>
  /\ r.pc # "timer" => r.at <= t
  /\ Due(r.items, r.at)

ProcInv ==
  /\ LoopOK(procs[1])
  /\ \A p \in DOMAIN procs \ {1} : TimerOK(procs[p], now)
  /\ \A t \in Times : Due(timeMap[t], t)

\* The places of a message, one kind at a time.
QueueAt(m) == {k \in DOMAIN queue : queue[k].message = m}
MapAt(m) == {t \in DOMAIN timeMap : Holds(timeMap[t], m)}
ProcAt(m) == {p \in DOMAIN procs : Holds(procs[p].items, m)}

Nowhere(m) == QueueAt(m) = {} /\ MapAt(m) = {} /\ ProcAt(m) = {} /\ gone[m] = {}
OnQueue(m) == (\E k \in DOMAIN queue : QueueAt(m) = {k}) /\ MapAt(m) = {} /\ ProcAt(m) = {} /\ gone[m] = {}
InMap(m) == (\E t \in DOMAIN timeMap : MapAt(m) = {t}) /\ QueueAt(m) = {} /\ ProcAt(m) = {} /\ gone[m] = {}
WithProc(m, p) == ProcAt(m) = {p} /\ QueueAt(m) = {} /\ MapAt(m) = {} /\ gone[m] = {}
Gone(m) == (\E how \in Outcome : gone[m] = {how}) /\ QueueAt(m) = {} /\ MapAt(m) = {} /\ ProcAt(m) = {}

PlaceInv ==
  \A m \in Message :
    IF subs[m].thresholdReached
    THEN OnQueue(m) \/ InMap(m) \/ (\E p \in DOMAIN procs : WithProc(m, p)) \/ Gone(m)
    ELSE Nowhere(m)

\* A message without an entry has not crossed its threshold.
EntryInv == \A m \in Message : subs[m].policy = NoPolicy => ~subs[m].thresholdReached

IInv == TypeOK /\ ProcInv /\ PlaceInv /\ EntryInv

\* A stored entry has the weight of its registered signers, and its flag means
\* that this exceeds the threshold of its policy or 60%.
QuorumInv ==
  \A m \in Message : subs[m].policy # NoPolicy =>
    /\ subs[m].payload \subseteq VotersOf[subs[m].policy]
    /\ subs[m].weight = WeightOf[subs[m].policy][subs[m].payload]
    /\ subs[m].thresholdReached =>
         \/ subs[m].weight > Threshold[subs[m].policy]
         \/ subs[m].weight > SixtyPercent(subs[m].policy)

\* No signature for a message is added with the threshold of another policy than
\* the one its entry has.
OnePolicyPerMessage ==
  [][\A item \in Submissions, sp \in RewardEpoch :
       \A threshold \in {Threshold[sp], SixtyPercent(sp)} :
         Intake(item, sp, threshold) => subs[item.message].policy \in {NoPolicy, sp}]_vars

(***************************************************************************)
(* What the operators and the updates of the state yield.                  *)
(***************************************************************************)

\* The time at which an item is sent after the grace period.
LEMMA SendTimeType ==
  ASSUME NEW m \in Message
  PROVE  /\ SendTime(RoundOf[m]) \in Nat /\ SendTime(RoundOf[m]) \in Times
         /\ SendTime(RoundOf[m]) = (RoundOf[m] + 1) * VotingPeriod + GracePeriodEndOffset
<1>1. RoundOf[m] + 1 \in Nat /\ VotingPeriod \in Nat /\ GracePeriodEndOffset \in Nat
  BY SMTT(30), PolicyAssumption, QueueAssumption DEF PolicyAssumption
<1>2. \A x, y \in Nat : x * y \in Nat /\ 0 + x * y = x * y
  BY SMTT(30)
<1>3. SendTime(RoundOf[m]) = (RoundOf[m] + 1) * VotingPeriod + GracePeriodEndOffset
  BY <1>1, <1>2 DEF SendTime, StartTime
<1>4. (RoundOf[m] + 1) * VotingPeriod \in Nat
  BY <1>1, <1>2
<1> QED
  BY SMTT(30), <1>1, <1>3, <1>4 DEF Times

\* An update of goroutine p leaves the others alone.
LEMMA UpdateProc ==
  ASSUME procs \in Seq(Proc), NEW p \in DOMAIN procs, NEW new \in Proc,
         procs' = [procs EXCEPT ![p] = new]
  PROVE  /\ procs' \in Seq(Proc) /\ DOMAIN procs' = DOMAIN procs
         /\ procs'[p] = new
         /\ \A q \in DOMAIN procs \ {p} : procs'[q] = procs[q]
         /\ procs # <<>> => procs' # <<>>
  BY SMTT(30)

\* A held message is in that place only, and has crossed its threshold.
LEMMA Located ==
  ASSUME PlaceInv, NEW m \in Message
  PROVE  /\ \A k \in QueueAt(m) :
              subs[m].thresholdReached /\ QueueAt(m) = {k} /\ MapAt(m) = {}
                /\ ProcAt(m) = {} /\ gone[m] = {}
         /\ \A t \in MapAt(m) :
              subs[m].thresholdReached /\ MapAt(m) = {t} /\ QueueAt(m) = {}
                /\ ProcAt(m) = {} /\ gone[m] = {}
         /\ \A p \in ProcAt(m) :
              subs[m].thresholdReached /\ ProcAt(m) = {p} /\ QueueAt(m) = {}
                /\ MapAt(m) = {} /\ gone[m] = {}
  BY DEF PlaceInv, Nowhere, OnQueue, InMap, WithProc, Gone

\* The messages of a non-empty sequence of items are those of its head and its tail.
LEMMA HoldsTail ==
  ASSUME NEW seq \in Seq(QueueItem), seq # <<>>, NEW m
  PROVE  /\ Head(seq) \in QueueItem /\ Tail(seq) \in Seq(QueueItem)
         /\ Head(seq) = seq[1] /\ Holds(seq, Head(seq).message)
         /\ Holds(seq, m) <=> m = Head(seq).message \/ Holds(Tail(seq), m)
<1>1. /\ Head(seq) = seq[1] /\ Tail(seq) \in Seq(QueueItem)
      /\ DOMAIN seq = 1 .. Len(seq) /\ Len(seq) \in Nat \ {0}
      /\ DOMAIN Tail(seq) = 1 .. Len(seq) - 1
      /\ \A k \in 1 .. Len(seq) - 1 : Tail(seq)[k] = seq[k + 1]
  BY SMTT(30)
<1>2. Head(seq) \in QueueItem
  BY SMTT(30), <1>1
<1>3. ASSUME Holds(Tail(seq), m) PROVE Holds(seq, m)
  BY SMTT(30), <1>1, <1>3 DEF Holds
<1>4. ASSUME Holds(seq, m), m # seq[1].message PROVE Holds(Tail(seq), m)
  <2>1. PICK k \in DOMAIN seq : seq[k].message = m
    BY <1>4 DEF Holds
  <2>2. k - 1 \in DOMAIN Tail(seq) /\ Tail(seq)[k - 1] = seq[k]
    BY SMTT(30), <1>1, <1>4, <2>1
  <2> QED
    BY <2>1, <2>2 DEF Holds
<1> QED
  BY SMTT(30), <1>1, <1>2, <1>3, <1>4 DEF Holds

\* Taking the first item leaves none exactly if it is the only one.
LEMMA TailEmpty ==
  ASSUME NEW seq \in Seq(QueueItem), seq # <<>>
  PROVE  Tail(seq) = <<>> <=> ~(Len(seq) > 1)
<1>1. Tail(seq) \in Seq(QueueItem) /\ Len(Tail(seq)) = Len(seq) - 1 /\ Len(seq) \in Nat \ {0}
  BY SMTT(30)
<1>2. \A x \in Seq(QueueItem) : x = <<>> <=> Len(x) = 0
  BY SMTT(30)
<1>3. Tail(seq) = <<>> <=> Len(Tail(seq)) = 0
  BY <1>1, <1>2
<1> QED
  BY SMTT(30), <1>1, <1>3

\* The items that are due at a time stay so when the first is taken, and its
\* message is not among the others.
LEMMA DueTail ==
  ASSUME NEW seq \in Seq(QueueItem), seq # <<>>, NEW t, Due(seq, t)
  PROVE  Due(Tail(seq), t) /\ ~Holds(Tail(seq), Head(seq).message)
<1>1. /\ Head(seq) = seq[1]
      /\ DOMAIN seq = 1 .. Len(seq) /\ Len(seq) \in Nat \ {0}
      /\ DOMAIN Tail(seq) = 1 .. Len(seq) - 1
      /\ \A k \in 1 .. Len(seq) - 1 : Tail(seq)[k] = seq[k + 1]
  BY SMTT(30)
<1>2. ASSUME NEW k \in DOMAIN Tail(seq) PROVE k + 1 \in DOMAIN seq /\ Tail(seq)[k] = seq[k + 1] /\ k + 1 # 1
  BY SMTT(30), <1>1
<1>3. \A k, l \in DOMAIN Tail(seq) : Tail(seq)[k].message = Tail(seq)[l].message => k = l
  <2>1. TAKE k, l \in DOMAIN Tail(seq)
  <2>2. k + 1 = l + 1 => k = l
    BY SMTT(30), <1>1
  <2> QED
    BY SMTT(30), <1>2, <2>2 DEF Due
<1>4. \A k \in DOMAIN Tail(seq) : SendTime(RoundOf[Tail(seq)[k].message]) = t
  BY SMTT(30), <1>2 DEF Due
<1>5. \A k \in DOMAIN Tail(seq) : Tail(seq)[k].message # seq[1].message
  <2>1. 1 \in DOMAIN seq
    BY SMTT(30), <1>1
  <2> QED
    BY SMTT(30), <1>2, <2>1 DEF Due
<1> QED
  BY <1>1, <1>3, <1>4, <1>5 DEF Due, Holds

\* The types, one part of the state at a time.
LEMMA TypeFacts ==
  ASSUME TypeOK
  PROVE  /\ \A p \in DOMAIN procs : procs[p] \in Proc /\ procs[p].items \in Seq(QueueItem)
         /\ 1 \in DOMAIN procs
         /\ timeMap \in [Times -> Seq(QueueItem)]
<1>1. procs \in Seq(Proc) /\ procs # <<>>
  BY DEF TypeOK
<1>2. timeMap \in [Times -> Seq(QueueItem)]
  BY DEF TypeOK, Times
<1>3. \A p \in DOMAIN procs : procs[p] \in Proc
  BY SMTT(30), <1>1
<1>4. \A r \in Proc : r.items \in Seq(QueueItem)
  BY DEF Proc
<1> QED
  BY SMTT(30), <1>1, <1>2, <1>3, <1>4

\* A step that moves no item keeps every message in its place.
LEMMA QuietPlaces ==
  ASSUME PlaceInv, UNCHANGED <<queue, timeMap, gone>>,
         DOMAIN procs' = DOMAIN procs,
         \A p \in DOMAIN procs : procs'[p].items = procs[p].items,
         \A m \in Message : subs'[m].thresholdReached = subs[m].thresholdReached
  PROVE  PlaceInv'
<1>1. SUFFICES ASSUME NEW m \in Message
      PROVE  IF subs'[m].thresholdReached
             THEN (OnQueue(m) \/ InMap(m) \/ (\E p \in DOMAIN procs : WithProc(m, p)) \/ Gone(m))'
             ELSE Nowhere(m)'
  BY DEF PlaceInv
<1>2. QueueAt(m)' = QueueAt(m) /\ MapAt(m)' = MapAt(m) /\ gone'[m] = gone[m]
  BY DEF QueueAt, MapAt, Holds
<1>3. ProcAt(m)' = ProcAt(m)
  BY DEF ProcAt, Holds
<1> QED
  BY <1>2, <1>3 DEF PlaceInv, Nowhere, OnQueue, InMap, WithProc, Gone

\* A step that only changes one goroutine, which keeps its items.
LEMMA QuietStep ==
  ASSUME IInv, NEW p \in DOMAIN procs, NEW new \in Proc,
         procs' = [procs EXCEPT ![p] = new], new.items = procs[p].items,
         IF p = 1 THEN LoopOK(new) ELSE TimerOK(new, now),
         UNCHANGED <<now, subs, queue, timeMap, gone, cancelled>>,
         sent' \subseteq [message : Message, policy : RewardEpoch, signers : SUBSET Voter,
                          delayed : BOOLEAN, at : Nat]
  PROVE  IInv'
<1>1. /\ procs' \in Seq(Proc) /\ DOMAIN procs' = DOMAIN procs /\ procs'[p] = new
      /\ \A q \in DOMAIN procs \ {p} : procs'[q] = procs[q]
      /\ procs' # <<>>
  BY UpdateProc DEF IInv, TypeOK
<1>2. TypeOK'
  BY <1>1 DEF IInv, TypeOK
<1>3. ProcInv'
  <2>1. LoopOK(procs'[1])
    BY <1>1, TypeFacts DEF IInv, ProcInv
  <2>2. ASSUME NEW q \in DOMAIN procs' \ {1} PROVE TimerOK(procs'[q], now)
    BY <1>1, <2>2 DEF IInv, ProcInv
  <2> QED
    BY <2>1, <2>2 DEF IInv, ProcInv
<1>4. PlaceInv'
  <2>1. \A q \in DOMAIN procs : procs'[q].items = procs[q].items
    BY <1>1
  <2> QED
    BY <1>1, <2>1, QuietPlaces DEF IInv
<1> QED
  BY <1>2, <1>3, <1>4 DEF IInv, EntryInv

\* A goroutine that has an item at hand holds it.
LEMMA CurFacts ==
  ASSUME IInv, NEW p \in DOMAIN procs, procs[p].pc \in {"check", "delay", "insert", "process", "send"}
  PROVE  /\ procs[p].items # <<>> /\ procs[p].items \in Seq(QueueItem)
         /\ Cur(p) \in QueueItem /\ Cur(p) = procs[p].items[1]
         /\ Cur(p).message \in Message
         /\ p \in ProcAt(Cur(p).message)
         /\ subs[Cur(p).message].thresholdReached
<1>1. procs[p].items # <<>> /\ procs[p].items \in Seq(QueueItem)
  <2>1. CASE p = 1
    <3>1. LoopOK(procs[1]) /\ procs[1].items \in Seq(QueueItem)
      BY TypeFacts DEF IInv, ProcInv
    <3>2. Len(procs[1].items) = 1
      BY <2>1, <3>1 DEF LoopOK
    <3> QED
      BY SMTT(30), <2>1, <3>1, <3>2
  <2>2. CASE p # 1
    BY SMTT(30), <2>2, TypeFacts DEF IInv, ProcInv, TimerOK
  <2> QED
    BY <2>1, <2>2
<1>2. Cur(p) \in QueueItem /\ Cur(p) = procs[p].items[1] /\ Holds(procs[p].items, Cur(p).message)
  BY <1>1, HoldsTail DEF Cur
<1>3. Cur(p).message \in Message
  BY <1>2 DEF QueueItem
<1>4. p \in ProcAt(Cur(p).message)
  BY <1>2 DEF ProcAt
<1> QED
  BY <1>1, <1>2, <1>3, <1>4, Located DEF IInv

\* NextJob: the goroutine without its first item, at the next point of its control.
LEMMA NextJobFacts ==
  ASSUME IInv, NEW p \in DOMAIN procs, procs[p].pc \in {"delay", "insert", "process", "send"}
  PROVE  /\ NextJob(p) \in Proc
         /\ NextJob(p).items = Tail(procs[p].items)
         /\ NextJob(p).at = procs[p].at
         /\ ~Holds(NextJob(p).items, Cur(p).message)
         /\ p = 1 => NextJob(p).pc = "wait" /\ NextJob(p).items = <<>>
         /\ p # 1 => TimerOK(NextJob(p), now)
<1> DEFINE items == procs[p].items
<1>1. /\ procs[p] \in Proc /\ items \in Seq(QueueItem) /\ items # <<>>
      /\ Cur(p) = items[1] /\ Tail(items) \in Seq(QueueItem)
  BY SMTT(30), TypeFacts, CurFacts DEF IInv
<1>2. /\ NextJob(p).items = Tail(items)
      /\ NextJob(p).at = procs[p].at
      /\ NextJob(p).pc = IF p = 1 THEN "wait" ELSE IF Len(items) > 1 THEN "process" ELSE "done"
  BY <1>1 DEF NextJob, Proc
<1>3. NextJob(p) \in Proc
  <2>1. 0 \in 0 .. MaxTxSendRetries - 1
    BY SMTT(30), QueueAssumption
  <2> QED
    BY <1>1, <2>1 DEF NextJob, Proc
<1>4. ASSUME p = 1
      PROVE  NextJob(p).items = <<>> /\ ~Holds(NextJob(p).items, Cur(p).message)
  <2>1. LoopOK(procs[p])
    BY <1>4 DEF IInv, ProcInv
  <2>2. Len(items) = 1
    BY <2>1 DEF LoopOK
  <2>3. ~(Len(items) > 1)
    BY SMTT(30), <2>2
  <2>4. Tail(items) = <<>>
    BY <1>1, <2>3, TailEmpty
  <2> QED
    BY SMTT(30), <1>2, <2>4 DEF Holds
<1>5. ASSUME p # 1
      PROVE  TimerOK(NextJob(p), now) /\ ~Holds(NextJob(p).items, Cur(p).message)
  <2>1. /\ procs[p].at \in Times /\ procs[p].at <= now /\ Due(items, procs[p].at)
    BY SMTT(30), <1>5 DEF IInv, ProcInv, TimerOK
  <2>2. Due(Tail(items), procs[p].at) /\ ~Holds(Tail(items), Cur(p).message)
    BY <1>1, <2>1, DueTail DEF Cur
  <2>3. Tail(items) = <<>> <=> ~(Len(items) > 1)
    BY <1>1, TailEmpty
  <2> QED
    BY <1>2, <1>5, <2>1, <2>2, <2>3 DEF TimerOK
<1> QED
  BY <1>2, <1>3, <1>4, <1>5

\* A goroutine that is done with an item no longer holds it, and the outcome is
\* the item's only place.
LEMMA FinishStep ==
  ASSUME IInv, NEW p \in DOMAIN procs, procs[p].pc \in {"delay", "process", "send"},
         NEW how \in Outcome, Finish(p, how),
         UNCHANGED <<now, subs, queue, timeMap, sent, cancelled>>
  PROVE  IInv'
<1> DEFINE c == Cur(p).message
<1>1. /\ procs' \in Seq(Proc) /\ DOMAIN procs' = DOMAIN procs /\ procs'[p] = NextJob(p)
      /\ \A q \in DOMAIN procs \ {p} : procs'[q] = procs[q]
      /\ procs' # <<>>
  BY UpdateProc, NextJobFacts DEF IInv, TypeOK, Finish
<1>2. c \in Message /\ p \in ProcAt(c)
  BY CurFacts
<1>3. gone' = [gone EXCEPT ![c] = @ \cup {how}]
  BY DEF Finish
<1>4. /\ gone' \in [Message -> SUBSET Outcome]
      /\ gone'[c] = gone[c] \cup {how}
      /\ \A m \in Message \ {c} : gone'[m] = gone[m]
  BY <1>2, <1>3 DEF IInv, TypeOK
<1> HIDE DEF c
<1>5. TypeOK'
  BY <1>1, <1>4 DEF IInv, TypeOK
<1>6. ProcInv'
  <2>1. LoopOK(procs'[1])
    <3>1. CASE p = 1
      BY <1>1, <3>1, NextJobFacts DEF LoopOK
    <3>2. CASE p # 1
      BY <1>1, <3>2, TypeFacts DEF IInv, ProcInv
    <3> QED
      BY <3>1, <3>2
  <2>2. ASSUME NEW q \in DOMAIN procs' \ {1} PROVE TimerOK(procs'[q], now)
    BY <1>1, <2>2, NextJobFacts DEF IInv, ProcInv
  <2> QED
    BY <2>1, <2>2 DEF IInv, ProcInv
<1>7. PlaceInv'
  <2>1. SUFFICES ASSUME NEW m \in Message
        PROVE  IF subs'[m].thresholdReached
               THEN (OnQueue(m) \/ InMap(m) \/ (\E q \in DOMAIN procs : WithProc(m, q)) \/ Gone(m))'
               ELSE Nowhere(m)'
    BY DEF PlaceInv
  <2>2. QueueAt(m)' = QueueAt(m) /\ MapAt(m)' = MapAt(m)
    BY DEF QueueAt, MapAt, Holds
  <2>3. Holds(procs[p].items, m) <=> m = c \/ Holds(procs'[p].items, m)
    BY SMTT(30), <1>1, NextJobFacts, CurFacts, HoldsTail DEF Cur, c
  <2>4. CASE m = c
    <3>1. /\ subs[m].thresholdReached /\ ProcAt(m) = {p} /\ QueueAt(m) = {}
          /\ MapAt(m) = {} /\ gone[m] = {}
      BY <1>2, <2>4, Located DEF IInv
    <3>2. ~Holds(procs'[p].items, m)
      BY <1>1, <2>4, NextJobFacts DEF c
    <3>3. ProcAt(m)' = {}
      <4>1. ASSUME NEW q \in DOMAIN procs', Holds(procs'[q].items, m) PROVE FALSE
        <5>1. q # p /\ procs'[q] = procs[q]
          BY <1>1, <3>2, <4>1
        <5>2. q \in ProcAt(m)
          BY <1>1, <4>1, <5>1 DEF ProcAt
        <5> QED
          BY <3>1, <5>1, <5>2
      <4> QED
        BY <4>1 DEF ProcAt, Holds
    <3>4. gone'[m] = {how}
      BY <1>4, <2>4, <3>1
    <3> QED
      BY <2>2, <3>1, <3>3, <3>4 DEF Gone
  <2>5. CASE m # c
    <3>1. ProcAt(m)' = ProcAt(m)
      BY <1>1, <2>3, <2>5 DEF ProcAt, Holds
    <3>2. gone'[m] = gone[m]
      BY <1>4, <2>5
    <3> QED
      BY <1>1, <2>2, <3>1, <3>2 DEF IInv, PlaceInv, Nowhere, OnQueue, InMap, WithProc, Gone
  <2> QED
    BY <2>4, <2>5
<1> QED
  BY <1>5, <1>6, <1>7 DEF IInv, EntryInv

(***************************************************************************)
(* The actions keep the invariant.                                         *)
(***************************************************************************)

\* The parts of a payload item that may come in.
LEMMA SubmissionFacts ==
  ASSUME NEW item \in Submissions
  PROVE  /\ item.message \in Message /\ item.signer \in Voter
         /\ item.protocolId \in Protocol /\ item.votingRoundId \in Nat
<1>1. item \in SubmitterPayloadItem
  BY QueueAssumption
<1> QED
  BY <1>1 DEF SubmitterPayloadItem

\* What Get finds for the item of goroutine p: the entry of its message, for the
\* round and the protocol signed in it, or nothing.
LEMMA DataFacts ==
  ASSUME IInv, NEW p \in DOMAIN procs, Data(p).policy # NoPolicy
  PROVE  Data(p) = subs[Cur(p).message] /\ Cur(p).votingRoundId = RoundOf[Cur(p).message]
<1>1. NoData.policy = NoPolicy
  BY DEF NoData, NewMessageData
<1> QED
  BY <1>1 DEF Data, Get

\* What Intake leaves of the entry of a message: its flag is never cleared.
LEMMA IntakeFacts ==
  ASSUME TypeOK, NEW m \in Message, NEW signer \in Voter, NEW sp \in RewardEpoch,
         NEW threshold \in {Threshold[sp], SixtyPercent(sp)}
  PROVE  LET md == AddSubmission(subs[m], signer, sp, threshold)
         IN  /\ md \in MessageData
             /\ md.policy = IF subs[m].policy = NoPolicy THEN sp ELSE subs[m].policy
             /\ subs[m].policy # NoPolicy =>
                  /\ subs[m].payload \subseteq md.payload
                  /\ subs[m].thresholdReached => md.thresholdReached
<1>1. Threshold[sp] \in 0 .. MaxUint16 /\ VotersOf[sp] \in SUBSET Voter
  BY PolicyAssumption DEF PolicyAssumption
<1>2. WeightOf[sp][VotersOf[sp]] \in 0 .. MaxUint16
  BY SMTT(30), <1>1, WeightAssumption DEF WeightAssumption
<1>3. SixtyPercent(sp) \in 0 .. MaxUint16
  BY SMTT(30), <1>2, SixtyPercentBound, MaxUint16Type DEF SixtyPercent
<1>4. threshold \in 0 .. MaxUint16 /\ subs[m] \in MessageData
  BY <1>1, <1>3 DEF TypeOK
<1> QED
  BY <1>4, AddSubmissionSpec

\* Intake: a message that crosses its threshold was nowhere and is now on the queue.
LEMMA IntakeStep ==
  ASSUME IInv, NEW new \in Submissions, NEW sp \in RewardEpoch,
         NEW threshold \in {Threshold[sp], SixtyPercent(sp)}, Intake(new, sp, threshold)
  PROVE  IInv'
<1>0. PICK m \in Message : m = new.message
  BY SubmissionFacts
<1> DEFINE md == AddSubmission(subs[m], new.signer, sp, threshold)
           item == [protocolId |-> new.protocolId, votingRoundId |-> new.votingRoundId,
                    message |-> m, seed |-> sp]
<1>1. /\ md \in MessageData
      /\ md.policy = IF subs[m].policy = NoPolicy THEN sp ELSE subs[m].policy
      /\ subs[m].thresholdReached => md.thresholdReached
  BY IntakeFacts, SubmissionFacts DEF IInv, EntryInv
<1>2. /\ subs' = [subs EXCEPT ![m] = md]
      /\ UNCHANGED <<now, procs, timeMap, sent, gone, cancelled>>
      /\ IF md.thresholdReached /\ ~subs[m].thresholdReached
         THEN queue' = Append(queue, item) ELSE queue' = queue
  BY <1>0 DEF Intake, CrossedThreshold
<1> HIDE DEF md
<1>3. /\ subs' \in [Message -> MessageData] /\ subs'[m] = md
      /\ \A n \in Message \ {m} : subs'[n] = subs[n]
  BY <1>1, <1>2 DEF IInv, TypeOK
<1>4. md.policy # NoPolicy
  BY SMTT(30), <1>1, PolicyAssumption DEF PolicyAssumption, NoPolicy
<1>5. EntryInv'
  BY <1>3, <1>4 DEF IInv, EntryInv
<1>6. item \in QueueItem /\ item.message = m /\ queue \in Seq(QueueItem)
  BY SubmissionFacts DEF QueueItem, IInv, TypeOK
<1> HIDE DEF item
<1>7. TypeOK'
  <2>1. queue' \in Seq(QueueItem)
    BY SMTT(30), <1>2, <1>6
  <2> QED
    BY <1>2, <1>3, <2>1 DEF IInv, TypeOK
<1>8. ProcInv'
  BY <1>2 DEF IInv, ProcInv
<1>9. CASE ~(md.thresholdReached /\ ~subs[m].thresholdReached)
  <2>1. \A n \in Message : subs'[n].thresholdReached = subs[n].thresholdReached
    <3>1. md.thresholdReached \in BOOLEAN /\ subs[m].thresholdReached \in BOOLEAN
      BY <1>1 DEF MessageData, IInv, TypeOK
    <3>2. md.thresholdReached = subs[m].thresholdReached
      BY <1>1, <1>9, <3>1
    <3> QED
      BY <1>3, <3>2
  <2>2. UNCHANGED <<queue, timeMap, gone, procs>>
    BY <1>2, <1>9
  <2>3. PlaceInv'
    BY <2>1, <2>2, QuietPlaces DEF IInv
  <2> QED
    BY <1>5, <1>7, <1>8, <2>3 DEF IInv
<1>10. CASE md.thresholdReached /\ ~subs[m].thresholdReached
  <2>1. SUFFICES ASSUME NEW n \in Message
        PROVE  IF subs'[n].thresholdReached
               THEN (OnQueue(n) \/ InMap(n) \/ (\E p \in DOMAIN procs : WithProc(n, p)) \/ Gone(n))'
               ELSE Nowhere(n)'
    BY <1>5, <1>7, <1>8 DEF IInv, PlaceInv
  <2>2. MapAt(n)' = MapAt(n) /\ ProcAt(n)' = ProcAt(n) /\ gone'[n] = gone[n]
    BY <1>2 DEF MapAt, ProcAt, Holds
  <2>3. queue' = Append(queue, item)
    BY <1>2, <1>10
  <2>4. /\ DOMAIN queue' = 1 .. Len(queue) + 1 /\ DOMAIN queue = 1 .. Len(queue)
        /\ Len(queue) \in Nat
        /\ queue'[Len(queue) + 1] = item
        /\ \A k \in 1 .. Len(queue) : queue'[k] = queue[k]
    BY SMTT(30), <1>6, <2>3
  <2>5. CASE n = m
    <3>1. Nowhere(m)
      BY <1>10 DEF IInv, PlaceInv
    <3>2. \A k \in DOMAIN queue : queue[k].message # m
      BY <3>1 DEF Nowhere, QueueAt
    <3>3. QueueAt(m)' = {Len(queue) + 1}
      BY SMTT(30), <1>6, <2>4, <3>2 DEF QueueAt
    <3>4. Len(queue) + 1 \in DOMAIN queue'
      BY SMTT(30), <2>4
    <3>5. OnQueue(m)'
      BY <2>2, <2>5, <3>1, <3>3, <3>4 DEF OnQueue, Nowhere
    <3> QED
      BY <1>3, <1>10, <2>5, <3>5
  <2>6. CASE n # m
    <3>1. QueueAt(n)' = QueueAt(n)
      BY SMTT(30), <1>6, <2>4, <2>6 DEF QueueAt
    <3>2. DOMAIN queue \subseteq DOMAIN queue'
      BY SMTT(30), <2>4
    <3> QED
      BY <1>2, <1>3, <2>2, <2>6, <3>1, <3>2
         DEF IInv, PlaceInv, Nowhere, OnQueue, InMap, WithProc, Gone
  <2> QED
    BY <2>5, <2>6
<1> QED
  BY <1>9, <1>10

\* Pop: the head of the queue moves to the Run loop.
LEMMA PopStep == IInv /\ Pop => IInv'
<1> SUFFICES ASSUME IInv, Pop PROVE IInv'
  OBVIOUS
<1> DEFINE c == Head(queue)
           new == [procs[1] EXCEPT !.pc = "check", !.items = <<c>>]
<1>1. /\ queue \in Seq(QueueItem) /\ queue # <<>> /\ procs[1] \in Proc /\ 1 \in DOMAIN procs
      /\ c \in QueueItem /\ c = queue[1] /\ Tail(queue) \in Seq(QueueItem)
      /\ DOMAIN queue = 1 .. Len(queue) /\ Len(queue) \in Nat \ {0}
      /\ DOMAIN Tail(queue) = 1 .. Len(queue) - 1
      /\ \A k \in 1 .. Len(queue) - 1 : Tail(queue)[k] = queue[k + 1]
  <2>1. queue \in Seq(QueueItem) /\ queue # <<>>
    BY DEF IInv, TypeOK, Pop
  <2>2. procs[1] \in Proc /\ 1 \in DOMAIN procs
    BY TypeFacts DEF IInv
  <2> QED
    BY SMTT(30), <2>1, <2>2
<1> HIDE DEF c
<1>2. <<c>> \in Seq(QueueItem) /\ Len(<<c>>) = 1 /\ DOMAIN <<c>> = {1} /\ <<c>>[1] = c
  BY SMTT(30), <1>1
<1>3. /\ queue' = Tail(queue) /\ procs' = [procs EXCEPT ![1] = new]
      /\ UNCHANGED <<now, subs, timeMap, sent, gone, cancelled>>
  BY DEF Pop, c
<1>4. new \in Proc /\ new.pc = "check" /\ new.items = <<c>>
  BY <1>1, <1>2 DEF Proc
<1> HIDE DEF new
<1>5. /\ procs' \in Seq(Proc) /\ DOMAIN procs' = DOMAIN procs /\ procs'[1] = new
      /\ \A q \in DOMAIN procs \ {1} : procs'[q] = procs[q]
      /\ procs' # <<>>
  BY <1>1, <1>3, <1>4, UpdateProc DEF IInv, TypeOK
<1>6. TypeOK'
  BY <1>1, <1>3, <1>5 DEF IInv, TypeOK
<1>7. ProcInv'
  <2>1. LoopOK(procs'[1])
    BY <1>2, <1>4, <1>5 DEF LoopOK
  <2> QED
    BY <1>3, <1>5, <2>1 DEF IInv, ProcInv
<1>8. procs[1].items = <<>>
  <2>1. LoopOK(procs[1]) /\ procs[1].pc = "wait"
    BY DEF IInv, ProcInv, Pop
  <2> QED
    BY <2>1 DEF LoopOK
<1>9. PlaceInv'
  <2>1. SUFFICES ASSUME NEW m \in Message
        PROVE  IF subs'[m].thresholdReached
               THEN (OnQueue(m) \/ InMap(m) \/ (\E q \in DOMAIN procs : WithProc(m, q)) \/ Gone(m))'
               ELSE Nowhere(m)'
    BY DEF PlaceInv
  <2>2. MapAt(m)' = MapAt(m) /\ gone'[m] = gone[m]
    BY <1>3 DEF MapAt, Holds
  <2>3. CASE m = c.message
    <3>1. 1 \in QueueAt(m)
      BY SMTT(30), <1>1, <2>3 DEF QueueAt
    <3>2. /\ subs[m].thresholdReached /\ QueueAt(m) = {1} /\ MapAt(m) = {}
          /\ ProcAt(m) = {} /\ gone[m] = {}
      BY <3>1, Located DEF IInv
    <3>3. QueueAt(m)' = {}
      BY SMTT(30), <1>1, <1>3, <3>2 DEF QueueAt
    <3>4. ProcAt(m)' = {1}
      <4>1. Holds(procs'[1].items, m)
        BY <1>2, <1>4, <1>5, <2>3 DEF Holds
      <4>2. \A q \in DOMAIN procs \ {1} : ~Holds(procs'[q].items, m)
        BY <1>5, <3>2 DEF ProcAt
      <4> QED
        BY SMTT(30), <1>1, <1>5, <4>1, <4>2 DEF ProcAt, Holds
    <3> QED
      BY <1>1, <1>3, <1>5, <2>2, <3>2, <3>3, <3>4 DEF WithProc
  <2>4. CASE m # c.message
    <3>1. ProcAt(m)' = ProcAt(m)
      <4>1. ~Holds(procs'[1].items, m) /\ ~Holds(procs[1].items, m)
        BY SMTT(30), <1>2, <1>4, <1>5, <1>8, <2>4 DEF Holds
      <4> QED
        BY <1>5, <4>1 DEF ProcAt, Holds
    <3>2. QueueAt(m)' = {k \in 1 .. Len(queue) - 1 : k + 1 \in QueueAt(m)}
      BY SMTT(30), <1>1, <1>3 DEF QueueAt
    <3>3. 1 \notin QueueAt(m)
      BY <1>1, <2>4 DEF QueueAt
    <3>4. ASSUME NEW k \in DOMAIN queue, QueueAt(m) = {k}
          PROVE  k - 1 \in DOMAIN queue' /\ QueueAt(m)' = {k - 1}
      <4>1. k \in 2 .. Len(queue)
        BY SMTT(30), <1>1, <3>3, <3>4
      <4>2. \A l \in 1 .. Len(queue) - 1 : l + 1 = k <=> l = k - 1
        BY SMTT(30), <1>1, <4>1
      <4> QED
        BY SMTT(30), <1>1, <1>3, <3>2, <3>4, <4>1, <4>2
    <3>5. QueueAt(m) = {} => QueueAt(m)' = {}
      BY <3>2
    <3>6. CASE OnQueue(m)
      BY <1>3, <2>2, <3>1, <3>4, <3>6, Located DEF IInv, PlaceInv, OnQueue, Nowhere
    <3>7. CASE ~OnQueue(m)
      BY <1>3, <1>5, <2>2, <3>1, <3>5, <3>7 DEF IInv, PlaceInv, Nowhere, InMap, WithProc, Gone
    <3> QED
      BY <3>6, <3>7
  <2> QED
    BY <2>3, <2>4
<1> QED
  BY <1>3, <1>6, <1>7, <1>9 DEF IInv, EntryInv

\* Insert: the item of the Run loop moves to the delay map, and a timer goroutine
\* is made if it is the first for its time.
LEMMA InsertStep == IInv /\ Insert => IInv'
<1> SUFFICES ASSUME IInv, Insert PROVE IInv'
  OBVIOUS
<1> DEFINE t == procs[1].at
           c == Cur(1)
           new == [NextJob(1) EXCEPT !.at = 0]
           loop == [procs EXCEPT ![1] = new]
<1>1. /\ 1 \in DOMAIN procs /\ procs \in Seq(Proc) /\ procs # <<>>
      /\ DOMAIN procs = 1 .. Len(procs) /\ Len(procs) \in Nat
      /\ timeMap \in [Times -> Seq(QueueItem)]
  <2>1. procs \in Seq(Proc) /\ procs # <<>>
    BY DEF IInv, TypeOK
  <2>2. timeMap \in [Times -> Seq(QueueItem)] /\ 1 \in DOMAIN procs
    BY TypeFacts DEF IInv
  <2> QED
    BY SMTT(30), <2>1, <2>2
<1>2. procs[1].pc = "insert"
  BY DEF Insert
<1>3. c \in QueueItem /\ c.message \in Message /\ 1 \in ProcAt(c.message) /\ c = procs[1].items[1]
  BY <1>1, <1>2, CurFacts
<1>4. t = SendTime(RoundOf[c.message]) /\ t \in Times /\ t \in Nat
  <2>1. LoopOK(procs[1])
    BY DEF IInv, ProcInv
  <2>2. t = SendTime(RoundOf[c.message])
    BY <1>2, <1>3, <2>1 DEF LoopOK
  <2> QED
    BY <1>3, <2>2, SendTimeType
<1>5. new \in Proc /\ new.pc = "wait" /\ new.items = <<>>
  <2>1. NextJob(1) \in Proc /\ NextJob(1).pc = "wait" /\ NextJob(1).items = <<>>
    BY <1>1, <1>2, NextJobFacts
  <2> QED
    BY <2>1 DEF Proc
<1>6. /\ procs' = IF timeMap[t] = <<>> THEN Append(loop, NewTimer(t)) ELSE loop
      /\ timeMap' = [timeMap EXCEPT ![t] = Append(@, c)]
      /\ UNCHANGED <<now, subs, queue, sent, gone, cancelled>>
  BY DEF Insert
<1> HIDE DEF t, c, new
<1>7. /\ NewTimer(t) \in Proc /\ NewTimer(t).items = <<>> /\ NewTimer(t).at = t
      /\ NewTimer(t).pc = "timer"
  <2>1. 0 \in 0 .. MaxTxSendRetries - 1
    BY SMTT(30), QueueAssumption
  <2>2. RunLoop \in Proc
    BY SMTT(30), <2>1 DEF RunLoop, Proc
  <2> QED
    BY <1>4, <2>2 DEF NewTimer, Proc, RunLoop
<1>8. /\ loop \in Seq(Proc) /\ Len(loop) = Len(procs) /\ loop[1] = new
      /\ \A q \in DOMAIN procs \ {1} : loop[q] = procs[q]
  BY SMTT(30), <1>1, <1>5
<1> HIDE DEF loop
<1>9. /\ procs' \in Seq(Proc) /\ procs' # <<>> /\ procs'[1] = new
      /\ \A q \in DOMAIN procs \ {1} : procs'[q] = procs[q]
      /\ DOMAIN procs \subseteq DOMAIN procs'
      /\ \A q \in DOMAIN procs' \ DOMAIN procs : procs'[q] = NewTimer(t)
  <2>1. CASE timeMap[t] = <<>>
    <3>1. procs' = Append(loop, NewTimer(t))
      BY <1>6, <2>1
    <3>2. procs' \in Seq(Proc) /\ Len(procs') = Len(loop) + 1
      BY SMTT(30), <1>7, <1>8, <3>1
    <3>3. /\ procs'[Len(loop) + 1] = NewTimer(t)
          /\ \A q \in 1 .. Len(loop) : procs'[q] = loop[q]
      BY SMTT(30), <1>8, <3>1
    <3>4. /\ Len(procs) \in Nat \ {0} /\ DOMAIN procs = 1 .. Len(procs)
          /\ DOMAIN procs' = 1 .. Len(procs) + 1
      BY SMTT(30), <1>1, <1>8, <3>2
    <3>5. procs' # <<>> /\ procs'[1] = new
      BY SMTT(30), <1>8, <3>2, <3>3, <3>4
    <3>6. \A q \in DOMAIN procs \ {1} : procs'[q] = procs[q]
      BY <1>8, <3>3, <3>4
    <3>7. \A q \in DOMAIN procs' \ DOMAIN procs : q = Len(loop) + 1
      BY SMTT(30), <1>8, <3>4
    <3> QED
      BY SMTT(30), <3>2, <3>3, <3>4, <3>5, <3>6, <3>7
  <2>2. CASE timeMap[t] # <<>>
    BY SMTT(30), <1>1, <1>6, <1>8, <2>2
  <2> QED
    BY <2>1, <2>2
<1>10. /\ timeMap' \in [Times -> Seq(QueueItem)]
       /\ timeMap'[t] = Append(timeMap[t], c)
       /\ \A u \in Times \ {t} : timeMap'[u] = timeMap[u]
  <2>1. timeMap \in [Times -> Seq(QueueItem)]
    BY <1>1
  <2>2. timeMap[t] \in Seq(QueueItem)
    BY <1>4, <2>1
  <2>3. Append(timeMap[t], c) \in Seq(QueueItem)
    BY SMTT(30), <1>3, <2>2
  <2>4. timeMap' = [timeMap EXCEPT ![t] = Append(timeMap[t], c)]
    BY <1>6
  <2> QED
    BY <1>4, <2>1, <2>3, <2>4
<1>11. /\ subs[c.message].thresholdReached /\ ProcAt(c.message) = {1} /\ QueueAt(c.message) = {}
       /\ MapAt(c.message) = {} /\ gone[c.message] = {}
  BY <1>3, Located DEF IInv
<1> DEFINE old == timeMap[t]
<1>12. /\ old \in Seq(QueueItem) /\ Len(old) \in Nat /\ DOMAIN old = 1 .. Len(old)
       /\ DOMAIN timeMap'[t] = 1 .. Len(old) + 1
       /\ timeMap'[t][Len(old) + 1] = c
       /\ \A k \in 1 .. Len(old) : timeMap'[t][k] = old[k]
  <2>1. old \in Seq(QueueItem)
    BY <1>1, <1>4
  <2> HIDE DEF old
  <2>2. timeMap'[t] = Append(old, c)
    BY <1>10 DEF old
  <2> QED
    BY SMTT(30), <1>3, <2>1, <2>2
<1>13. ~Holds(old, c.message)
  BY <1>1, <1>4, <1>11 DEF MapAt
<1>14. \A m : Holds(timeMap'[t], m) <=> m = c.message \/ Holds(old, m)
  <2>1. DOMAIN timeMap'[t] = DOMAIN old \cup {Len(old) + 1}
    BY SMTT(30), <1>12
  <2>2. \A k \in DOMAIN old : timeMap'[t][k] = old[k]
    BY <1>12
  <2> QED
    BY <1>12, <2>1, <2>2 DEF Holds
<1> HIDE DEF old
<1>15. TypeOK'
  BY <1>6, <1>9, <1>10 DEF IInv, TypeOK, Times
<1>16. ProcInv'
  <2>1. LoopOK(procs'[1])
    BY <1>5, <1>9 DEF LoopOK
  <2>2. TimerOK(NewTimer(t), now)
    BY SMTT(30), <1>4, <1>7 DEF TimerOK, Due
  <2>3. \A q \in DOMAIN procs' \ {1} : TimerOK(procs'[q], now)
    BY <1>9, <2>2 DEF IInv, ProcInv
  <2>4. Due(timeMap'[t], t)
    <3>1. Due(old, t)
      BY <1>4 DEF old, IInv, ProcInv
    <3>2. \A k \in 1 .. Len(old) : old[k].message # c.message
      BY <1>12, <1>13 DEF Holds
    <3>3. \A k, l \in 1 .. Len(old) + 1 :
            timeMap'[t][k].message = timeMap'[t][l].message => k = l
      <4> TAKE k, l \in 1 .. Len(old) + 1
      <4>1. CASE k \in 1 .. Len(old) /\ l \in 1 .. Len(old)
        BY <1>12, <3>1, <4>1 DEF Due
      <4>2. CASE k = Len(old) + 1 \/ l = Len(old) + 1
        BY SMTT(30), <1>12, <3>2, <4>2
      <4> QED
        BY SMTT(30), <1>12, <4>1, <4>2
    <3>4. \A k \in 1 .. Len(old) + 1 : SendTime(RoundOf[timeMap'[t][k].message]) = t
      BY SMTT(30), <1>4, <1>12, <3>1 DEF Due
    <3> QED
      BY <1>12, <3>3, <3>4 DEF Due
  <2>5. \A u \in Times : Due(timeMap'[u], u)
    BY <1>10, <2>4 DEF IInv, ProcInv
  <2> QED
    BY <1>6, <2>1, <2>3, <2>5 DEF ProcInv
<1>17. PlaceInv'
  <2>1. SUFFICES ASSUME NEW m \in Message
        PROVE  IF subs'[m].thresholdReached
               THEN (OnQueue(m) \/ InMap(m) \/ (\E q \in DOMAIN procs : WithProc(m, q)) \/ Gone(m))'
               ELSE Nowhere(m)'
    BY DEF PlaceInv
  <2>2. QueueAt(m)' = QueueAt(m) /\ gone'[m] = gone[m]
    BY <1>6 DEF QueueAt
  <2>3. ProcAt(m)' = ProcAt(m) \ {1}
    <3>1. ~Holds(new.items, m) /\ ~Holds(NewTimer(t).items, m)
      BY SMTT(30), <1>5, <1>7 DEF Holds
    <3>2. ASSUME NEW q \in DOMAIN procs', Holds(procs'[q].items, m)
          PROVE  q \in DOMAIN procs \ {1} /\ Holds(procs[q].items, m)
      BY <1>9, <3>1, <3>2
    <3>3. ASSUME NEW q \in DOMAIN procs \ {1}, Holds(procs[q].items, m)
          PROVE  q \in DOMAIN procs' /\ Holds(procs'[q].items, m)
      BY <1>9, <3>3
    <3> QED
      BY <3>2, <3>3 DEF ProcAt, Holds
  <2>4. CASE m = c.message
    <3>1. MapAt(m)' = {t}
      <4>1. Holds(timeMap'[t], m)
        BY <1>14, <2>4
      <4>2. \A u \in Times \ {t} : ~Holds(timeMap'[u], m)
        BY <1>1, <1>10, <1>11, <2>4 DEF MapAt
      <4> QED
        BY <1>4, <1>10, <4>1, <4>2 DEF MapAt, Holds
    <3>2. ProcAt(m)' = {} /\ t \in DOMAIN timeMap'
      BY <1>4, <1>10, <1>11, <2>3, <2>4
    <3>3. InMap(m)'
      BY <1>11, <2>2, <2>4, <3>1, <3>2 DEF InMap
    <3> QED
      BY <1>6, <1>11, <2>4, <3>3
  <2>5. CASE m # c.message
    <3>1. MapAt(m)' = MapAt(m)
      <4>1. \A u \in Times : Holds(timeMap'[u], m) <=> Holds(timeMap[u], m)
        BY <1>10, <1>14, <2>5 DEF old
      <4> QED
        BY <1>1, <1>10, <4>1 DEF MapAt, Holds
    <3>2. ProcAt(m)' = ProcAt(m)
      <4>1. ~Holds(procs[1].items, m)
        <5>1. LoopOK(procs[1]) /\ procs[1].items \in Seq(QueueItem)
          BY TypeFacts DEF IInv, ProcInv
        <5>2. DOMAIN procs[1].items = {1}
          BY SMTT(30), <1>2, <5>1 DEF LoopOK
        <5> QED
          BY <1>3, <2>5, <5>2 DEF Holds
      <4> QED
        BY <2>3, <4>1 DEF ProcAt
    <3>3. DOMAIN timeMap' = DOMAIN timeMap
      BY <1>1, <1>10
    <3> QED
      BY <1>6, <1>9, <2>2, <3>1, <3>2, <3>3
         DEF IInv, PlaceInv, Nowhere, OnQueue, InMap, WithProc, Gone
  <2> QED
    BY <2>4, <2>5
<1> QED
  BY <1>6, <1>15, <1>16, <1>17 DEF IInv, EntryInv

\* Fire: all items due at a time move from the delay map to its timer goroutine.
LEMMA FireStep ==
  ASSUME IInv, NEW p \in DOMAIN procs \ {1}, Fire(p)
  PROVE  IInv'
<1> DEFINE t == procs[p].at
           new == [procs[p] EXCEPT !.pc = "query", !.items = timeMap[t]]
<1>1. /\ procs[p] \in Proc /\ 1 \in DOMAIN procs
      /\ timeMap \in [Times -> Seq(QueueItem)]
  BY TypeFacts DEF IInv
<1>2. /\ procs[p].pc = "timer" /\ procs[p].items = <<>>
      /\ t \in Times /\ t <= now /\ Due(timeMap[t], t)
  <2>1. TimerOK(procs[p], now) /\ procs[p].pc = "timer" /\ t <= now
    BY DEF IInv, ProcInv, Fire
  <2>2. t \in Times /\ procs[p].items = <<>>
    BY <2>1 DEF TimerOK
  <2> QED
    BY <2>1, <2>2 DEF IInv, ProcInv
<1>3. /\ procs' = [procs EXCEPT ![p] = new] /\ timeMap' = [timeMap EXCEPT ![t] = <<>>]
      /\ UNCHANGED <<now, subs, queue, sent, gone, cancelled>>
  BY DEF Fire
<1>4. new \in Proc /\ new.pc = "query" /\ new.items = timeMap[t] /\ new.at = t
  BY <1>1, <1>2 DEF Proc
<1> HIDE DEF new, t
<1>5. /\ procs' \in Seq(Proc) /\ DOMAIN procs' = DOMAIN procs /\ procs'[p] = new
      /\ \A q \in DOMAIN procs \ {p} : procs'[q] = procs[q]
      /\ procs' # <<>>
  BY <1>3, <1>4, UpdateProc DEF IInv, TypeOK
<1>6. /\ timeMap' \in [Times -> Seq(QueueItem)] /\ timeMap'[t] = <<>>
      /\ \A u \in Times \ {t} : timeMap'[u] = timeMap[u]
  BY SMTT(30), <1>1, <1>2, <1>3
<1>7. TypeOK'
  BY <1>3, <1>5, <1>6 DEF IInv, TypeOK, Times
<1>8. ProcInv'
  <2>1. TimerOK(new, now)
    BY <1>2, <1>4 DEF TimerOK
  <2>2. \A q \in DOMAIN procs' \ {1} : TimerOK(procs'[q], now)
    BY <1>5, <2>1 DEF IInv, ProcInv
  <2>3. LoopOK(procs'[1])
    BY <1>1, <1>5 DEF IInv, ProcInv
  <2>4. \A u \in Times : Due(timeMap'[u], u)
    <3>1. Due(timeMap'[t], t)
      BY SMTT(30), <1>6 DEF Due
    <3> QED
      BY <1>6, <3>1 DEF IInv, ProcInv
  <2> QED
    BY <1>3, <2>2, <2>3, <2>4 DEF ProcInv
<1>9. PlaceInv'
  <2>1. SUFFICES ASSUME NEW m \in Message
        PROVE  IF subs'[m].thresholdReached
               THEN (OnQueue(m) \/ InMap(m) \/ (\E q \in DOMAIN procs : WithProc(m, q)) \/ Gone(m))'
               ELSE Nowhere(m)'
    BY DEF PlaceInv
  <2>2. QueueAt(m)' = QueueAt(m) /\ gone'[m] = gone[m]
    BY <1>3 DEF QueueAt
  <2>3. ~Holds(timeMap'[t], m) /\ ~Holds(procs[p].items, m)
    BY SMTT(30), <1>2, <1>6 DEF Holds
  <2>4. MapAt(m)' = MapAt(m) \ {t}
    <3>1. \A u \in Times \ {t} : Holds(timeMap'[u], m) <=> Holds(timeMap[u], m)
      BY <1>6
    <3> QED
      BY SMTT(30), <1>1, <1>6, <2>3, <3>1 DEF MapAt, Holds
  <2>5. CASE t \in MapAt(m)
    <3>1. /\ subs[m].thresholdReached /\ MapAt(m) = {t} /\ QueueAt(m) = {}
          /\ ProcAt(m) = {} /\ gone[m] = {}
      BY <2>5, Located DEF IInv
    <3>2. ProcAt(m)' = {p}
      <4>1. Holds(procs'[p].items, m)
        BY <1>4, <1>5, <2>5 DEF MapAt
      <4>2. \A q \in DOMAIN procs \ {p} : ~Holds(procs'[q].items, m)
        BY <1>5, <3>1 DEF ProcAt
      <4> QED
        BY <1>5, <4>1, <4>2 DEF ProcAt, Holds
    <3> QED
      BY <1>3, <1>5, <2>2, <2>4, <3>1, <3>2 DEF WithProc
  <2>6. CASE t \notin MapAt(m)
    <3>1. MapAt(m)' = MapAt(m) /\ DOMAIN timeMap' = DOMAIN timeMap
      BY <1>1, <1>6, <2>4, <2>6
    <3>2. ~Holds(procs'[p].items, m)
      BY <1>1, <1>2, <1>4, <1>5, <2>6 DEF MapAt
    <3>3. ProcAt(m)' = ProcAt(m)
      BY <1>5, <2>3, <3>2 DEF ProcAt, Holds
    <3> QED
      BY <1>3, <1>5, <2>2, <3>1, <3>3
         DEF IInv, PlaceInv, Nowhere, OnQueue, InMap, WithProc, Gone
  <2> QED
    BY <2>5, <2>6
<1> QED
  BY <1>3, <1>7, <1>8, <1>9 DEF IInv, EntryInv

\* QueryError: the goroutine drops all its items, which is their outcome.
LEMMA QueryErrorStep ==
  ASSUME IInv, NEW p \in DOMAIN procs \ {1}, QueryError(p)
  PROVE  IInv'
<1> DEFINE new == [procs[p] EXCEPT !.pc = "done", !.items = <<>>]
<1>1. procs[p] \in Proc /\ 1 \in DOMAIN procs /\ procs[p].items \in Seq(QueueItem)
  BY TypeFacts DEF IInv
<1>2. procs[p].pc = "query" /\ procs[p].at \in Times /\ procs[p].at <= now
  <2>1. TimerOK(procs[p], now) /\ procs[p].pc = "query"
    BY DEF IInv, ProcInv, QueryError
  <2> QED
    BY <2>1 DEF TimerOK
<1>3. /\ procs' = [procs EXCEPT ![p] = new]
      /\ gone' = [m \in Message |->
                    IF \E item \in Items(procs[p].items) : item.message = m
                    THEN gone[m] \cup {"db error"} ELSE gone[m]]
      /\ UNCHANGED <<now, subs, queue, timeMap, sent, cancelled>>
  BY DEF QueryError
<1>4. new \in Proc /\ new.pc = "done" /\ new.items = <<>> /\ new.at = procs[p].at
  <2>1. <<>> \in Seq(QueueItem)
    BY SMTT(30)
  <2> QED
    BY <1>1, <2>1 DEF Proc
<1> HIDE DEF new
<1>5. /\ procs' \in Seq(Proc) /\ DOMAIN procs' = DOMAIN procs /\ procs'[p] = new
      /\ \A q \in DOMAIN procs \ {p} : procs'[q] = procs[q]
      /\ procs' # <<>>
  BY <1>3, <1>4, UpdateProc DEF IInv, TypeOK
<1>6. \A m \in Message :
        gone'[m] = IF Holds(procs[p].items, m) THEN gone[m] \cup {"db error"} ELSE gone[m]
  <2>1. \A m : (\E item \in Items(procs[p].items) : item.message = m) <=> Holds(procs[p].items, m)
    BY DEF Items, Holds
  <2> QED
    BY <1>3, <2>1
<1>7. TypeOK'
  <2>1. gone' \in [Message -> SUBSET Outcome]
    <3>1. gone \in [Message -> SUBSET Outcome] /\ "db error" \in Outcome
      BY DEF IInv, TypeOK, Outcome
    <3> QED
      BY <1>3, <3>1
  <2> QED
    BY <1>3, <1>5, <2>1 DEF IInv, TypeOK
<1>8. ProcInv'
  <2>1. TimerOK(new, now)
    BY SMTT(30), <1>2, <1>4 DEF TimerOK, Due
  <2>2. \A q \in DOMAIN procs' \ {1} : TimerOK(procs'[q], now)
    BY <1>5, <2>1 DEF IInv, ProcInv
  <2>3. LoopOK(procs'[1])
    BY <1>1, <1>5 DEF IInv, ProcInv
  <2> QED
    BY <1>3, <2>2, <2>3 DEF IInv, ProcInv
<1>9. PlaceInv'
  <2>1. SUFFICES ASSUME NEW m \in Message
        PROVE  IF subs'[m].thresholdReached
               THEN (OnQueue(m) \/ InMap(m) \/ (\E q \in DOMAIN procs : WithProc(m, q)) \/ Gone(m))'
               ELSE Nowhere(m)'
    BY DEF PlaceInv
  <2>2. QueueAt(m)' = QueueAt(m) /\ MapAt(m)' = MapAt(m)
    BY <1>3 DEF QueueAt, MapAt, Holds
  <2>3. ~Holds(procs'[p].items, m)
    BY SMTT(30), <1>4, <1>5 DEF Holds
  <2>4. ProcAt(m)' = ProcAt(m) \ {p}
    <3>1. \A q \in DOMAIN procs \ {p} : Holds(procs'[q].items, m) <=> Holds(procs[q].items, m)
      BY <1>5
    <3> QED
      BY <1>5, <2>3, <3>1 DEF ProcAt, Holds
  <2>5. CASE p \in ProcAt(m)
    <3>1. /\ subs[m].thresholdReached /\ ProcAt(m) = {p} /\ QueueAt(m) = {}
          /\ MapAt(m) = {} /\ gone[m] = {}
      BY <2>5, Located DEF IInv
    <3>2. gone'[m] = {"db error"} /\ "db error" \in Outcome
      BY <1>6, <2>5, <3>1 DEF ProcAt, Outcome
    <3> QED
      BY <1>3, <2>2, <2>4, <3>1, <3>2 DEF Gone
  <2>6. CASE p \notin ProcAt(m)
    <3>1. ProcAt(m)' = ProcAt(m) /\ gone'[m] = gone[m]
      BY <1>6, <2>4, <2>6 DEF ProcAt
    <3> QED
      BY <1>3, <1>5, <2>2, <3>1, ZenonT(60)
         DEF IInv, PlaceInv, Nowhere, OnQueue, InMap, WithProc, Gone
  <2> QED
    BY <2>5, <2>6
<1> QED
  BY <1>3, <1>7, <1>8, <1>9 DEF IInv, EntryInv

\* Tick and Cancel move no item, and what was due stays due.
LEMMA ClockStep == IInv /\ (Tick \/ Cancel) => IInv'
<1> SUFFICES ASSUME IInv, Tick \/ Cancel PROVE IInv'
  OBVIOUS
<1>1. /\ UNCHANGED <<subs, queue, procs, timeMap, sent, gone>>
      /\ now' \in Nat /\ now <= now' /\ cancelled' \in BOOLEAN
  <2>1. now \in Nat /\ cancelled \in BOOLEAN
    BY DEF IInv, TypeOK
  <2>2. CASE Tick
    BY SMTT(30), <2>1, <2>2 DEF Tick
  <2>3. CASE Cancel
    BY SMTT(30), <2>1, <2>3 DEF Cancel
  <2> QED
    BY <2>2, <2>3
<1>2. TypeOK'
  BY <1>1 DEF IInv, TypeOK
<1>3. ProcInv'
  <2>1. ASSUME NEW p \in DOMAIN procs \ {1} PROVE TimerOK(procs[p], now')
    <3>1. TimerOK(procs[p], now) /\ procs[p].at \in Nat /\ now \in Nat
      <4>1. procs[p] \in Proc
        BY TypeFacts DEF IInv
      <4> QED
        BY <4>1 DEF IInv, ProcInv, Proc, TypeOK
    <3>2. procs[p].at <= now => procs[p].at <= now'
      BY SMTT(30), <1>1, <3>1
    <3> QED
      BY <3>1, <3>2 DEF TimerOK
  <2> QED
    BY <1>1, <2>1 DEF IInv, ProcInv
<1>4. PlaceInv'
  BY <1>1, QuietPlaces DEF IInv
<1> QED
  BY <1>1, <1>2, <1>3, <1>4 DEF IInv, EntryInv

\* The Run loop: StopRun, isVoterForCurrentEpoch, Delay and Abandon.
LEMMA LoopStep ==
  IInv /\ (StopRun \/ IsVoterForCurrentEpoch \/ Delay \/ Abandon) => IInv'
<1> SUFFICES ASSUME IInv, StopRun \/ IsVoterForCurrentEpoch \/ Delay \/ Abandon PROVE IInv'
  OBVIOUS
<1>1. 1 \in DOMAIN procs /\ procs[1] \in Proc /\ LoopOK(procs[1])
  BY TypeFacts DEF IInv, ProcInv
<1>2. sent \subseteq [message : Message, policy : RewardEpoch, signers : SUBSET Voter,
                      delayed : BOOLEAN, at : Nat]
  BY DEF IInv, TypeOK
<1>3. CASE StopRun
  <2> DEFINE new == [procs[1] EXCEPT !.pc = "done"]
  <2>1. new \in Proc /\ new.items = procs[1].items /\ LoopOK(new)
    BY <1>1, <1>3 DEF Proc, LoopOK, StopRun
  <2>2. procs' = [procs EXCEPT ![1] = new]
        /\ UNCHANGED <<now, subs, queue, timeMap, sent, gone, cancelled>>
    BY <1>3 DEF StopRun
  <2> HIDE DEF new
  <2> QED
    BY <1>1, <1>2, <2>1, <2>2, QuietStep
<1>4. CASE IsVoterForCurrentEpoch
  <2>1. PICK pc2 \in {"process", "delay"} : procs' = [procs EXCEPT ![1].pc = pc2]
    BY <1>4 DEF IsVoterForCurrentEpoch
  <2> DEFINE new == [procs[1] EXCEPT !.pc = pc2]
  <2>2. new \in Proc /\ new.items = procs[1].items /\ LoopOK(new)
    BY <1>1, <1>4 DEF Proc, LoopOK, IsVoterForCurrentEpoch
  <2>3. procs' = [procs EXCEPT ![1] = new]
        /\ UNCHANGED <<now, subs, queue, timeMap, sent, gone, cancelled>>
    BY <1>4, <2>1 DEF IsVoterForCurrentEpoch
  <2> HIDE DEF new
  <2> QED
    BY <1>1, <1>2, <2>2, <2>3, QuietStep
<1>5. CASE Delay
  <2> DEFINE st == SendTime(Cur(1).votingRoundId)
  <2>1. procs[1].pc = "delay" /\ UNCHANGED <<now, subs, queue, timeMap, sent, cancelled>>
    BY <1>5 DEF Delay
  <2>2. "no data" \in Outcome /\ "late" \in Outcome
    BY DEF Outcome
  <2>3. CASE Finish(1, "no data")
    BY <1>1, <2>1, <2>2, <2>3, FinishStep
  <2>4. CASE Finish(1, "late")
    BY <1>1, <2>1, <2>2, <2>4, FinishStep
  <2>5. CASE /\ Data(1).policy # NoPolicy
             /\ procs' = [procs EXCEPT ![1].pc = "insert", ![1].at = st] /\ UNCHANGED gone
    <3> DEFINE new == [procs[1] EXCEPT !.pc = "insert", !.at = st]
    <3>1. st \in Nat /\ Cur(1) = procs[1].items[1] /\ st = SendTime(RoundOf[procs[1].items[1].message])
      <4>1. Cur(1).message \in Message /\ Cur(1) = procs[1].items[1]
        BY <1>1, <2>1, CurFacts
      <4>2. st = SendTime(RoundOf[Cur(1).message])
        BY <1>1, <2>5, DataFacts
      <4> QED
        BY <4>1, <4>2, SendTimeType
    <3>2. new \in Proc /\ new.items = procs[1].items /\ LoopOK(new)
      BY <1>1, <2>1, <3>1 DEF Proc, LoopOK
    <3>3. procs' = [procs EXCEPT ![1] = new]
      BY <2>5
    <3> HIDE DEF new
    <3> QED
      BY <1>1, <1>2, <2>1, <2>5, <3>2, <3>3, QuietStep
  <2> QED
    BY <1>5, <2>3, <2>4, <2>5 DEF Delay
<1>6. CASE Abandon
  <2>1. /\ procs[1].pc = "send" /\ Finish(1, "cancelled") /\ "cancelled" \in Outcome
        /\ UNCHANGED <<now, subs, queue, timeMap, sent, cancelled>>
    BY <1>6 DEF Abandon, Outcome
  <2> QED
    BY <1>1, <2>1, FinishStep
<1> QED
  BY <1>3, <1>4, <1>5, <1>6

\* A goroutine that moves on to "process" or "send" and keeps its items.
LEMMA ControlStep ==
  ASSUME IInv, NEW p \in DOMAIN procs, NEW new \in Proc,
         procs[p].pc \in {"process", "send"}, new.pc \in {"process", "send"},
         new.items = procs[p].items, new.at = procs[p].at
  PROVE  IF p = 1 THEN LoopOK(new) ELSE TimerOK(new, now)
<1>1. CASE p = 1
  <2>1. LoopOK(procs[1])
    BY DEF IInv, ProcInv
  <2> QED
    BY <1>1, <2>1 DEF LoopOK
<1>2. CASE p # 1
  <2>1. TimerOK(procs[p], now)
    BY <1>2 DEF IInv, ProcInv
  <2> QED
    BY <1>2, <2>1 DEF TimerOK
<1> QED
  BY <1>1, <1>2

\* processItem, for the Run loop and for the timer goroutines.
LEMMA ProcessItemStep ==
  ASSUME IInv, NEW p \in DOMAIN procs, ProcessItem(p)
  PROVE  IInv'
<1> DEFINE SentType == [message : Message, policy : RewardEpoch, signers : SUBSET Voter,
                        delayed : BOOLEAN, at : Nat]
<1>1. procs[p] \in Proc /\ sent \subseteq SentType /\ now \in Nat
  BY TypeFacts DEF IInv, TypeOK
<1>2. CASE Process(p)
  <2>1. procs[p].pc = "process" /\ UNCHANGED <<now, subs, queue, timeMap, cancelled>>
    BY <1>2 DEF Process
  <2>2. "relayed" \in Outcome /\ "no data" \in Outcome
    BY DEF Outcome
  <2>3. CASE Finish(p, "relayed") /\ UNCHANGED sent
    BY <2>1, <2>2, <2>3, FinishStep
  <2>4. CASE Finish(p, "no data") /\ UNCHANGED sent
    BY <2>1, <2>2, <2>4, FinishStep
  <2>5. CASE Data(p).policy # NoPolicy /\ UNCHANGED gone /\
             \E S \in GreedySelections(Data(p)) :
               /\ procs' = [procs EXCEPT ![p].pc = "send", ![p].selected = S]
               /\ sent' = sent \cup {[message |-> Cur(p).message, policy |-> Data(p).policy,
                                      signers |-> S, delayed |-> p # 1, at |-> now]}
    <3>1. PICK S \in GreedySelections(Data(p)) :
               /\ procs' = [procs EXCEPT ![p].pc = "send", ![p].selected = S]
               /\ sent' = sent \cup {[message |-> Cur(p).message, policy |-> Data(p).policy,
                                      signers |-> S, delayed |-> p # 1, at |-> now]}
      BY <2>5
    <3>2. Cur(p).message \in Message /\ Data(p) \in MessageData
      <4>1. Cur(p).message \in Message
        BY <2>1, CurFacts
      <4>2. Data(p) = subs[Cur(p).message]
        BY <2>5, DataFacts
      <4> QED
        BY <4>1, <4>2 DEF IInv, TypeOK
    <3>3. S \subseteq Voter /\ Data(p).policy \in RewardEpoch
      BY <2>5, <3>2 DEF GreedySelections, MessageData
    <3>4. sent' \subseteq SentType
      <4> DEFINE r == [message |-> Cur(p).message, policy |-> Data(p).policy,
                       signers |-> S, delayed |-> p # 1, at |-> now]
      <4>1. (p # 1) \in BOOLEAN
        OBVIOUS
      <4>2. r \in SentType
        BY <1>1, <3>2, <3>3, <4>1
      <4>3. sent' = sent \cup {r}
        BY <3>1
      <4> QED
        BY <1>1, <4>2, <4>3
    <3> DEFINE new == [procs[p] EXCEPT !.pc = "send", !.selected = S]
    <3>5. new \in Proc /\ new.pc = "send" /\ new.items = procs[p].items /\ new.at = procs[p].at
      BY <1>1, <3>3 DEF Proc
    <3>6. procs' = [procs EXCEPT ![p] = new]
      BY <3>1
    <3> HIDE DEF new
    <3>7. IF p = 1 THEN LoopOK(new) ELSE TimerOK(new, now)
      BY <2>1, <3>5, ControlStep
    <3> QED
      BY <2>1, <2>5, <3>4, <3>5, <3>6, <3>7, QuietStep
  <2> QED
    BY <1>2, <2>3, <2>4, <2>5 DEF Process
<1>3. CASE SendSucceeds(p)
  <2>1. /\ procs[p].pc = "send" /\ Finish(p, "sent") /\ "sent" \in Outcome
        /\ UNCHANGED <<now, subs, queue, timeMap, sent, cancelled>>
    BY <1>3 DEF SendSucceeds, Outcome
  <2> QED
    BY <2>1, FinishStep
<1>4. CASE SendFails(p)
  <2>1. /\ procs[p].pc = "send" /\ "gave up" \in Outcome
        /\ UNCHANGED <<now, subs, queue, timeMap, sent, cancelled>>
    BY <1>4 DEF SendFails, Outcome
  <2>2. CASE procs[p].tries + 1 < MaxTxSendRetries
    <3> DEFINE new == [procs[p] EXCEPT !.tries = @ + 1]
    <3>1. new \in Proc /\ new.pc = "send" /\ new.items = procs[p].items /\ new.at = procs[p].at
      <4>1. procs[p].tries \in 0 .. MaxTxSendRetries - 1
        BY <1>1 DEF Proc
      <4>2. procs[p].tries + 1 \in 0 .. MaxTxSendRetries - 1
        BY SMTT(30), <2>2, <4>1, QueueAssumption
      <4> QED
        BY <1>1, <2>1, <4>2 DEF Proc
    <3>2. procs' = [procs EXCEPT ![p] = new] /\ UNCHANGED gone
      BY <1>4, <2>2 DEF SendFails
    <3> HIDE DEF new
    <3>3. IF p = 1 THEN LoopOK(new) ELSE TimerOK(new, now)
      BY <2>1, <3>1, ControlStep
    <3> QED
      BY <1>1, <2>1, <3>1, <3>2, <3>3, QuietStep
  <2>3. CASE ~(procs[p].tries + 1 < MaxTxSendRetries)
    <3>1. Finish(p, "gave up")
      BY <1>4, <2>3 DEF SendFails
    <3> QED
      BY <2>1, <3>1, FinishStep
  <2> QED
    BY <2>2, <2>3
<1> QED
  BY <1>2, <1>3, <1>4 DEF ProcessItem

\* The query for relayed messages moves no item.
LEMMA QueryRelayedStep ==
  ASSUME IInv, NEW p \in DOMAIN procs \ {1}, QueryRelayed(p)
  PROVE  IInv'
<1>1. procs[p] \in Proc /\ procs[p].items \in Seq(QueueItem) /\ TimerOK(procs[p], now)
  BY TypeFacts DEF IInv, ProcInv
<1>2. PICK logs \in SUBSET Message :
        procs' = [procs EXCEPT
                    ![p].pc = IF procs[p].items = <<>> THEN "done" ELSE "process",
                    ![p].relayed = Items(procs[p].items) \cap ProtocolMessageRelayed(logs)]
  BY DEF QueryRelayed
<1> DEFINE rel == Items(procs[p].items) \cap ProtocolMessageRelayed(logs)
           pc2 == IF procs[p].items = <<>> THEN "done" ELSE "process"
           new == [procs[p] EXCEPT !.pc = pc2, !.relayed = rel]
<1>3. rel \subseteq QueueItem
  BY SMTT(30), <1>1 DEF Items
<1>4. procs[p].pc = "query" /\ UNCHANGED <<now, subs, queue, timeMap, sent, gone, cancelled>>
  BY DEF QueryRelayed
<1>5. procs' = [procs EXCEPT ![p] = new]
  BY <1>2
<1> HIDE DEF rel
<1>6. new \in Proc /\ new.items = procs[p].items /\ new.at = procs[p].at /\ new.pc = pc2
  BY <1>1, <1>3 DEF Proc
<1>7. TimerOK(new, now)
  BY SMTT(30), <1>1, <1>4, <1>6 DEF TimerOK
<1>8. sent' \subseteq [message : Message, policy : RewardEpoch, signers : SUBSET Voter,
                       delayed : BOOLEAN, at : Nat]
  BY <1>4 DEF IInv, TypeOK
<1> HIDE DEF new
<1> QED
  BY <1>4, <1>5, <1>6, <1>7, <1>8, QuietStep

\* Every step keeps the invariant.
LEMMA NextInv == IInv /\ [Next]_vars => IInv'
<1> SUFFICES ASSUME IInv, [Next]_vars PROVE IInv'
  OBVIOUS
<1>1. CASE Environment
  BY <1>1, ClockStep, IntakeStep DEF Environment
<1>2. CASE Run
  <2>1. 1 \in DOMAIN procs
    BY TypeFacts DEF IInv
  <2> QED
    BY <1>2, <2>1, PopStep, LoopStep, InsertStep, ProcessItemStep DEF Run
<1>3. CASE \E p \in DOMAIN procs \ {1} : Timer(p)
  BY <1>3, FireStep, QueryRelayedStep, QueryErrorStep, ProcessItemStep DEF Timer
<1>4. CASE UNCHANGED vars
  <2>1. TypeOK' /\ ProcInv' /\ EntryInv'
    BY <1>4 DEF vars, IInv, TypeOK, ProcInv, EntryInv
  <2>2. PlaceInv'
    BY <1>4, QuietPlaces DEF vars, IInv
  <2> QED
    BY <2>1, <2>2 DEF IInv
<1> QED
  BY <1>1, <1>2, <1>3, <1>4 DEF Next

\* The initial state satisfies the invariant: nothing is stored or held.
LEMMA InitInv == Init => IInv
<1> SUFFICES ASSUME Init PROVE IInv
  OBVIOUS
<1>1. <<>> \in Seq(QueueItem) /\ DOMAIN <<>> = {}
  BY SMTT(30)
<1>2. RunLoop \in Proc /\ RunLoop.pc = "wait" /\ RunLoop.items = <<>>
  <2>1. 0 \in 0 .. MaxTxSendRetries - 1
    BY SMTT(30), QueueAssumption
  <2> QED
    BY <1>1, <2>1 DEF RunLoop, Proc
<1>3. procs \in Seq(Proc) /\ procs # <<>> /\ DOMAIN procs = {1} /\ procs[1] = RunLoop
  <2>1. procs = <<RunLoop>>
    BY DEF Init
  <2> HIDE DEF RunLoop
  <2> QED
    BY SMTT(30), <1>2, <2>1
<1>4. NoData \in MessageData /\ ~NoData.thresholdReached
  BY SMTT(30), MaxUint16Type DEF NoData, NewMessageData, MessageData
<1>5. TypeOK
  <2>1. timeMap \in [Times -> Seq(QueueItem)]
    BY <1>1 DEF Init, Times
  <2>2. subs \in [Message -> MessageData]
    BY <1>4 DEF Init
  <2> QED
    BY <1>1, <1>3, <2>1, <2>2 DEF Init, TypeOK, Times
<1>6. ProcInv
  <2>1. LoopOK(procs[1])
    BY <1>2, <1>3 DEF LoopOK
  <2>2. \A t \in Times : Due(timeMap[t], t)
    BY <1>1 DEF Init, Times, Due
  <2> QED
    BY <1>3, <2>1, <2>2 DEF ProcInv
<1>7. PlaceInv /\ EntryInv
  <2> SUFFICES ASSUME NEW m \in Message
      PROVE  Nowhere(m) /\ ~subs[m].thresholdReached
    BY DEF PlaceInv, EntryInv
  <2>1. QueueAt(m) = {} /\ gone[m] = {}
    BY SMTT(30) DEF Init, QueueAt
  <2>2. MapAt(m) = {}
    BY <1>1 DEF Init, MapAt, Holds
  <2>3. ProcAt(m) = {}
    BY <1>1, <1>2, <1>3 DEF ProcAt, Holds
  <2> QED
    BY <1>4, <2>1, <2>2, <2>3 DEF Init, Nowhere
<1> QED
  BY <1>5, <1>6, <1>7 DEF IInv

\* The places of a message are those of the four kinds.
LEMMA PlacesByKind ==
  ASSUME NEW m
  PROVE  Places(m) = {<<"queue", k>> : k \in QueueAt(m)} \cup {<<"map", t>> : t \in MapAt(m)}
                       \cup {<<"proc", p>> : p \in ProcAt(m)} \cup {<<"gone", how>> : how \in gone[m]}
  BY DEF Places, QueueAt, MapAt, ProcAt, Holds

\* One place when the threshold is crossed, none before.
LEMMA PlaceCount ==
  ASSUME IInv
  PROVE  InOnePlace
<1>1. ASSUME NEW m \in Message
      PROVE  Cardinality(Places(m)) = IF subs[m].thresholdReached THEN 1 ELSE 0
  <2>1. CASE ~subs[m].thresholdReached
    <3>1. Nowhere(m)
      BY <2>1 DEF IInv, PlaceInv
    <3>2. Places(m) = {}
      BY <3>1, PlacesByKind DEF Nowhere
    <3> QED
      BY <2>1, <3>2, FS_EmptySet
  <2>2. CASE subs[m].thresholdReached
    <3>1. \E x : Places(m) = {x}
      <4>1. CASE OnQueue(m)
        <5>1. PICK k : QueueAt(m) = {k}
          BY <4>1 DEF OnQueue
        <5>2. Places(m) = {<<"queue", k>>}
          BY <4>1, <5>1, PlacesByKind DEF OnQueue
        <5> QED
          BY <5>2
      <4>2. CASE InMap(m)
        <5>1. PICK t : MapAt(m) = {t}
          BY <4>2 DEF InMap
        <5>2. Places(m) = {<<"map", t>>}
          BY <4>2, <5>1, PlacesByKind DEF InMap
        <5> QED
          BY <5>2
      <4>3. CASE \E p \in DOMAIN procs : WithProc(m, p)
        <5>1. PICK p : WithProc(m, p)
          BY <4>3
        <5>2. Places(m) = {<<"proc", p>>}
          BY <5>1, PlacesByKind DEF WithProc
        <5> QED
          BY <5>2
      <4>4. CASE Gone(m)
        <5>1. PICK how : gone[m] = {how}
          BY <4>4 DEF Gone
        <5>2. Places(m) = {<<"gone", how>>}
          BY <4>4, <5>1, PlacesByKind DEF Gone
        <5> QED
          BY <5>2
      <4> QED
        BY <2>2, <4>1, <4>2, <4>3, <4>4 DEF IInv, PlaceInv
    <3>2. PICK x : Places(m) = {x}
      BY <3>1
    <3>3. Cardinality({x}) = 1
      BY FS_Singleton
    <3> QED
      BY <2>2, <3>2, <3>3
  <2> QED
    BY <2>1, <2>2
<1> QED
  BY <1>1 DEF IInv, InOnePlace

\* The queue, the Run loop, the delay map and the timer goroutines together hold a
\* message exactly once from the moment its weight crosses the threshold until it
\* is dealt with, for any number of messages, timers and retries: Add and the Get
\* of the timer may interleave as they like.
THEOREM InOnePlaceTheorem == Spec => []InOnePlace
<1>1. IInv => InOnePlace
  BY PlaceCount
<1> QED
  BY <1>1, InitInv, NextInv, PTL DEF Spec

(***************************************************************************)
(* What is sent, and when.                                                 *)
(***************************************************************************)

\* The only step that sends is processItem of an item that has a quorum.
LEMMA Sends ==
  ASSUME IInv, [Next]_vars, sent' # sent
  PROVE  \E p \in DOMAIN procs : \E S \in GreedySelections(Data(p)) :
           /\ procs[p].pc = "process" /\ UNCHANGED subs
           /\ Data(p).policy # NoPolicy
           /\ sent' = sent \cup {[message |-> Cur(p).message, policy |-> Data(p).policy,
                                  signers |-> S, delayed |-> p # 1, at |-> now]}
<1>1. \E p \in DOMAIN procs : Process(p)
  <2>1. 1 \in DOMAIN procs
    BY TypeFacts DEF IInv
  <2>2. CASE Environment
    BY <2>2 DEF Environment, Tick, Cancel, Intake
  <2>3. CASE Run
    BY <2>1, <2>3 DEF Run, Pop, StopRun, Abandon, IsVoterForCurrentEpoch, Delay, Insert,
                      ProcessItem, SendSucceeds, SendFails
  <2>4. CASE \E p \in DOMAIN procs \ {1} : Timer(p)
    BY <2>4 DEF Timer, Fire, QueryRelayed, QueryError, ProcessItem, SendSucceeds, SendFails
  <2>5. CASE UNCHANGED vars
    BY <2>5 DEF vars
  <2> QED
    BY <2>2, <2>3, <2>4, <2>5 DEF Next
<1>2. PICK p \in DOMAIN procs : Process(p)
  BY <1>1
<1>3. \E S \in GreedySelections(Data(p)) :
           /\ procs[p].pc = "process" /\ UNCHANGED subs
           /\ Data(p).policy # NoPolicy
           /\ sent' = sent \cup {[message |-> Cur(p).message, policy |-> Data(p).policy,
                                  signers |-> S, delayed |-> p # 1, at |-> now]}
  BY <1>2 DEF Process
<1> QED
  BY <1>3

\* A timer goroutine sends when the grace period of the round after that of the
\* message is over; the Run loop alone sends earlier.
THEOREM GracePeriodTheorem == Spec => []GracePeriodKept
<1>1. Init => GracePeriodKept
  BY DEF Init, GracePeriodKept
<1>2. ASSUME IInv, GracePeriodKept, [Next]_vars PROVE GracePeriodKept'
  <2>1. CASE sent' = sent
    BY <1>2, <2>1 DEF GracePeriodKept
  <2>2. CASE sent' # sent
    <3>1. PICK p \in DOMAIN procs : \E S \in GreedySelections(Data(p)) :
           /\ procs[p].pc = "process"
           /\ sent' = sent \cup {[message |-> Cur(p).message, policy |-> Data(p).policy,
                                  signers |-> S, delayed |-> p # 1, at |-> now]}
      BY <1>2, <2>2, Sends
    <3> PICK S \in GreedySelections(Data(p)) :
           sent' = sent \cup {[message |-> Cur(p).message, policy |-> Data(p).policy,
                               signers |-> S, delayed |-> p # 1, at |-> now]}
      BY <3>1
    <3> DEFINE r == [message |-> Cur(p).message, policy |-> Data(p).policy,
                     signers |-> S, delayed |-> p # 1, at |-> now]
    <3>2. ASSUME p # 1
          PROVE  now >= (RoundOf[Cur(p).message] + 1) * VotingPeriod + GracePeriodEndOffset
      <4>1. TimerOK(procs[p], now)
        BY <1>2, <3>2 DEF IInv, ProcInv
      <4>2. procs[p].items # <<>> /\ procs[p].items \in Seq(QueueItem)
            /\ Cur(p) = procs[p].items[1] /\ Cur(p).message \in Message
        BY <1>2, <3>1, CurFacts
      <4>3. 1 \in DOMAIN procs[p].items
        <5>1. \A seq \in Seq(QueueItem) : seq # <<>> => 1 \in DOMAIN seq
          BY SMTT(30)
        <5> QED
          BY <4>2, <5>1
      <4>4. SendTime(RoundOf[Cur(p).message]) = procs[p].at /\ procs[p].at <= now
        BY <3>1, <4>1, <4>2, <4>3 DEF TimerOK, Due
      <4>5. now \in Nat /\ SendTime(RoundOf[Cur(p).message]) \in Nat
        BY <1>2, <4>2, SendTimeType DEF IInv, TypeOK
      <4> QED
        BY <4>2, <4>4, <4>5, SendTimeType
    <3>3. ASSUME NEW q \in sent', q.delayed
          PROVE  q.at >= (RoundOf[q.message] + 1) * VotingPeriod + GracePeriodEndOffset
      <4>1. CASE q \in sent
        BY <1>2, <3>3, <4>1 DEF GracePeriodKept
      <4>2. CASE q = r
        BY <3>2, <3>3, <4>2
      <4> QED
        BY <3>1, <3>3, <4>1, <4>2
    <3> QED
      BY <3>3 DEF GracePeriodKept
  <2> QED
    BY <2>1, <2>2
<1> QED
  BY <1>1, <1>2, InitInv, NextInv, PTL DEF Spec

\* The voters' weights are additive.
LEMMA Additive ==
  ASSUME NEW e \in RewardEpoch, NEW S \in SUBSET Voter, S \subseteq VotersOf[e], NEW v \in S
  PROVE  /\ WeightOf[e][S] = WeightOf[e][S \ {v}] + WeightOf[e][{v}]
         /\ WeightOf[e][S] \in Nat /\ WeightOf[e][S \ {v}] \in Nat /\ WeightOf[e][{v}] \in Nat
<1>1. /\ S \ {v} \in SUBSET Voter /\ v \in VotersOf[e] \ (S \ {v}) /\ S \ {v} \subseteq VotersOf[e]
      /\ (S \ {v}) \cup {v} = S /\ {v} \in SUBSET Voter
  OBVIOUS
<1>2. WeightOf[e] \in [SUBSET Voter -> 0 .. MaxUint16]
  BY WeightAssumption DEF WeightAssumption
<1>3. WeightOf[e][(S \ {v}) \cup {v}] = WeightOf[e][S \ {v}] + WeightOf[e][{v}]
  <2>1. \A T \in SUBSET Voter : \A w \in VotersOf[e] \ T :
          T \subseteq VotersOf[e] =>
            WeightOf[e][T \cup {w}] = WeightOf[e][T] + WeightOf[e][{w}]
    BY WeightAssumption DEF WeightAssumption
  <2> QED
    BY <1>1, <2>1
<1>4. \A T \in SUBSET Voter : WeightOf[e][T] \in Nat
  BY SMTT(30), <1>2, MaxUint16Type
<1> QED
  BY <1>1, <1>3, <1>4

\* None of the greedily selected signatures could be left out: the lightest of
\* them could not.
LEMMA GreedyMinimal ==
  ASSUME NEW md \in MessageData, md.policy \in RewardEpoch, md.payload \subseteq VotersOf[md.policy],
         NEW S \in GreedySelections(md), NEW v \in S
  PROVE  WeightOf[md.policy][S \ {v}] <= Threshold[md.policy]
<1> DEFINE e == md.policy
           W == {WeightOf[e][{u}] : u \in S}
<1>1. S \in SUBSET Voter /\ S \subseteq VotersOf[e]
  BY DEF GreedySelections, MessageData
<1>2. \A u \in S :
        /\ WeightOf[e][S] = WeightOf[e][S \ {u}] + WeightOf[e][{u}]
        /\ WeightOf[e][S] \in Nat /\ WeightOf[e][S \ {u}] \in Nat /\ WeightOf[e][{u}] \in Nat
  BY <1>1, Additive
<1>3. W \in SUBSET Nat /\ W # {}
  BY <1>2
<1>4. PICK k \in W : \A l \in W : k <= l
  BY <1>3, LeastElement
<1>5. PICK u \in S : k = WeightOf[e][{u}]
  BY <1>4
<1>6. \A x \in S : WeightOf[e][{u}] <= WeightOf[e][{x}]
  BY <1>4, <1>5
<1>7. WeightOf[e][S \ {u}] <= Threshold[e]
  BY <1>6 DEF GreedySelections
<1>8. Threshold[e] \in Nat
  <2>1. Threshold[e] \in 0 .. MaxUint16
    BY PolicyAssumption DEF PolicyAssumption
  <2> QED
    BY SMTT(30), <2>1, MaxUint16Type
<1>9. /\ WeightOf[e][S] = WeightOf[e][S \ {u}] + WeightOf[e][{u}]
      /\ WeightOf[e][S] = WeightOf[e][S \ {v}] + WeightOf[e][{v}]
      /\ WeightOf[e][S] \in Nat /\ WeightOf[e][S \ {u}] \in Nat /\ WeightOf[e][{u}] \in Nat
      /\ WeightOf[e][S \ {v}] \in Nat /\ WeightOf[e][{v}] \in Nat
      /\ WeightOf[e][{u}] <= WeightOf[e][{v}]
  BY <1>2, <1>6
<1> HIDE DEF e
<1>10. WeightOf[e][S \ {v}] <= Threshold[e]
  BY SMTT(30), <1>7, <1>8, <1>9
<1> QED
  BY <1>10 DEF e

\* Intake keeps the weight of an entry and the meaning of its flag.
LEMMA QuorumStep ==
  ASSUME IInv, QuorumInv, [Next]_vars,
         [\A item \in Submissions, sp \in RewardEpoch :
            \A threshold \in {Threshold[sp], SixtyPercent(sp)} :
              Intake(item, sp, threshold) => subs[item.message].policy \in {NoPolicy, sp}]_vars
  PROVE  /\ QuorumInv'
         /\ \A n \in Message : subs[n].policy # NoPolicy =>
              subs'[n].policy = subs[n].policy /\ subs[n].payload \subseteq subs'[n].payload
<1>1. CASE UNCHANGED subs
  BY <1>1 DEF QuorumInv
<1>2. CASE subs' # subs
  <2>1. PICK item \in Submissions, sp \in RewardEpoch :
          \E threshold \in {Threshold[sp], SixtyPercent(sp)} : Intake(item, sp, threshold)
    <3>1. Environment
      BY <1>2 DEF Next, Run, Timer, Pop, StopRun, Abandon, IsVoterForCurrentEpoch, Delay, Insert,
           ProcessItem, Process, SendSucceeds, SendFails, Fire, QueryRelayed, QueryError, vars
    <3> QED
      BY <1>2, <3>1 DEF Environment, Tick, Cancel
  <2>2. PICK threshold \in {Threshold[sp], SixtyPercent(sp)} : Intake(item, sp, threshold)
    BY <2>1
  <2>0. PICK m \in Message, signer \in Voter : m = item.message /\ signer = item.signer
    BY SubmissionFacts
  <2> DEFINE md == AddSubmission(subs[m], signer, sp, threshold)
  <2>3. subs[m].policy \in {NoPolicy, sp}
    BY <1>2, <2>0, <2>2 DEF vars
  <2>4. subs' = [subs EXCEPT ![m] = md] /\ subs \in [Message -> MessageData]
    BY <2>0, <2>2 DEF Intake, IInv, TypeOK
  <2>5. /\ md \in MessageData /\ md.policy = sp
        /\ subs[m].policy # NoPolicy => subs[m].payload \subseteq md.payload
    BY SMTT(30), <2>3, IntakeFacts DEF IInv
  <2>6. threshold \in 0 .. MaxUint16
    <3>1. Threshold[sp] \in 0 .. MaxUint16 /\ VotersOf[sp] \in SUBSET Voter
      BY PolicyAssumption DEF PolicyAssumption
    <3>2. WeightOf[sp][VotersOf[sp]] \in 0 .. MaxUint16
      BY SMTT(30), <3>1, WeightAssumption DEF WeightAssumption
    <3>3. SixtyPercent(sp) \in 0 .. MaxUint16
      BY SMTT(30), <3>2, SixtyPercentBound, MaxUint16Type DEF SixtyPercent
    <3> QED
      BY <3>1, <3>3
  <2>7. /\ subs[m].policy # NoPolicy =>
             /\ subs[m].payload \subseteq VotersOf[subs[m].policy]
             /\ subs[m].weight = WeightOf[subs[m].policy][subs[m].payload]
        /\ subs[m] \in MessageData
    BY <2>4 DEF QuorumInv
  <2>8. /\ md.payload \subseteq VotersOf[sp]
        /\ md.weight = WeightOf[sp][md.payload]
    <3>1. /\ md.payload \subseteq VotersOf[md.policy]
          /\ md.weight = WeightOf[md.policy][md.payload]
      BY <2>6, <2>7, AddSubmissionWeight
    <3>2. md.policy = sp
      BY <2>5
    <3> HIDE DEF md
    <3> QED
      BY <3>1, <3>2
  <2>9. md.thresholdReached =>
          \/ subs[m].policy # NoPolicy /\ subs[m].thresholdReached /\ subs[m].weight <= md.weight
          \/ md.weight > threshold
    BY <2>6, <2>7, AddSubmissionThreshold
  <2> HIDE DEF md
  <2>10. /\ Threshold[sp] \in Int /\ SixtyPercent(sp) \in Int /\ md.weight \in Int
         /\ subs[m].weight \in Int
    <3>1. Threshold[sp] \in 0 .. MaxUint16 /\ VotersOf[sp] \in SUBSET Voter
      BY PolicyAssumption DEF PolicyAssumption
    <3>2. WeightOf[sp][VotersOf[sp]] \in 0 .. MaxUint16
      BY SMTT(30), <3>1, WeightAssumption DEF WeightAssumption
    <3>3. SixtyPercent(sp) \in 0 .. MaxUint16
      BY SMTT(30), <3>2, SixtyPercentBound, MaxUint16Type DEF SixtyPercent
    <3> QED
      <4>1. md.weight \in 0 .. MaxUint16 /\ subs[m].weight \in 0 .. MaxUint16
        BY <2>5, <2>7 DEF MessageData
      <4>2. \A x \in 0 .. MaxUint16 : x \in Int
        BY SMTT(30), MaxUint16Type
      <4> QED
        BY <3>1, <3>3, <4>1, <4>2
  <2>11. ASSUME md.thresholdReached
         PROVE  md.weight > Threshold[sp] \/ md.weight > SixtyPercent(sp)
    <3>1. CASE md.weight > threshold
      BY <3>1
    <3>2. CASE subs[m].policy # NoPolicy /\ subs[m].thresholdReached /\ subs[m].weight <= md.weight
      <4>1. subs[m].policy = sp
        BY <2>3, <3>2
      <4>2. subs[m].weight > Threshold[sp] \/ subs[m].weight > SixtyPercent(sp)
        BY <3>2, <4>1 DEF QuorumInv
      <4> QED
        BY SMTT(30), <2>10, <3>2, <4>2
    <3> QED
      BY <2>9, <2>11, <3>1, <3>2
  <2>12. subs'[m] = md /\ \A n \in Message \ {m} : subs'[n] = subs[n]
    BY <2>4
  <2>13. QuorumInv'
    <3> SUFFICES ASSUME NEW n \in Message, subs'[n].policy # NoPolicy
        PROVE  /\ subs'[n].payload \subseteq VotersOf[subs'[n].policy]
               /\ subs'[n].weight = WeightOf[subs'[n].policy][subs'[n].payload]
               /\ subs'[n].thresholdReached =>
                    \/ subs'[n].weight > Threshold[subs'[n].policy]
                    \/ subs'[n].weight > SixtyPercent(subs'[n].policy)
      BY DEF QuorumInv, SixtyPercent
    <3>1. CASE n = m
      BY <2>5, <2>8, <2>11, <2>12, <3>1
    <3>2. CASE n # m
      BY <2>12, <3>2 DEF QuorumInv
    <3> QED
      BY <3>1, <3>2
  <2>14. ASSUME NEW n \in Message, subs[n].policy # NoPolicy
         PROVE  subs'[n].policy = subs[n].policy /\ subs[n].payload \subseteq subs'[n].payload
    <3>1. CASE n = m
      BY <2>3, <2>5, <2>12, <2>14, <3>1
    <3>2. CASE n # m
      BY <2>12, <3>2
    <3> QED
      BY <3>1, <3>2
  <2> QED
    BY <2>13, <2>14
<1> QED
  BY <1>1, <1>2

\* What is sent when an item is processed is a quorum.
LEMMA SendIsQuorum ==
  ASSUME IInv, QuorumInv, NEW p \in DOMAIN procs, procs[p].pc = "process",
         Data(p).policy # NoPolicy, NEW S \in GreedySelections(Data(p))
  PROVE  LET e == Data(p).policy
         IN  /\ Data(p) = subs[Cur(p).message]
             /\ S \subseteq Data(p).payload \cap VotersOf[e]
             /\ WeightOf[e][S] > Threshold[e] \/ WeightOf[e][S] > SixtyPercent(e)
             /\ \A v \in S : WeightOf[e][S \ {v}] <= Threshold[e]
<1>1. Cur(p).message \in Message /\ subs[Cur(p).message].thresholdReached
  BY CurFacts
<1>2. Data(p) = subs[Cur(p).message]
  BY DataFacts
<1>3. subs \in [Message -> MessageData]
  BY DEF IInv, TypeOK
<1>4. PICK m \in Message : m = Cur(p).message
  BY <1>1
<1>5. /\ subs[m] \in MessageData /\ subs[m].policy \in RewardEpoch
      /\ S \in GreedySelections(subs[m])
  BY <1>2, <1>3, <1>4 DEF MessageData
<1>6. /\ subs[m].payload \subseteq VotersOf[subs[m].policy]
      /\ subs[m].weight = WeightOf[subs[m].policy][subs[m].payload]
      /\ \/ subs[m].weight > Threshold[subs[m].policy]
         \/ subs[m].weight > SixtyPercent(subs[m].policy)
  BY <1>1, <1>2, <1>4 DEF QuorumInv
<1>7. \A v \in S : WeightOf[subs[m].policy][S \ {v}] <= Threshold[subs[m].policy]
  BY <1>5, <1>6, GreedyMinimal
<1>8. /\ S \subseteq subs[m].payload
      /\ S = subs[m].payload \/ WeightOf[subs[m].policy][S] > Threshold[subs[m].policy]
  BY <1>5 DEF GreedySelections
<1>9. \/ WeightOf[subs[m].policy][S] > Threshold[subs[m].policy]
      \/ WeightOf[subs[m].policy][S] > SixtyPercent(subs[m].policy)
  BY <1>6, <1>8
<1>10. S \subseteq subs[m].payload \cap VotersOf[subs[m].policy]
  BY <1>6, <1>8
<1> QED
  BY <1>2, <1>4, <1>7, <1>9, <1>10

\* A relay transaction carries stored signatures of registered voters that
\* outweigh the threshold or 60%, none of which could be left out (processItem,
\* PrepareFinalizationResults), as long as addPayload is never called for a
\* message with another policy than the one its entry has.
THEOREM SentQuorumTheorem == Spec /\ OnePolicyPerMessage => []SentQuorum
<1> DEFINE Sent == \A r \in sent : r.message \in Message /\ r.policy # NoPolicy
           J == IInv /\ QuorumInv /\ Sent /\ SentQuorum
           One == \A item \in Submissions, sp \in RewardEpoch :
                    \A threshold \in {Threshold[sp], SixtyPercent(sp)} :
                      Intake(item, sp, threshold) => subs[item.message].policy \in {NoPolicy, sp}
<1>1. Init => J
  <2>1. Init => IInv
    BY InitInv
  <2>2. Init => QuorumInv
    <3>1. NoData.policy = NoPolicy
      BY DEF NoData, NewMessageData
    <3> QED
      BY <3>1 DEF Init, QuorumInv
  <2>3. Init => Sent /\ SentQuorum
    BY DEF Init, SentQuorum
  <2> QED
    BY <2>1, <2>2, <2>3
<1>2. J /\ [Next]_vars /\ [One]_vars => J'
  <2> SUFFICES ASSUME J, [Next]_vars, [One]_vars PROVE J'
    OBVIOUS
  <2>1. IInv'
    BY NextInv
  <2>2. /\ QuorumInv'
        /\ \A n \in Message : subs[n].policy # NoPolicy =>
             subs'[n].policy = subs[n].policy /\ subs[n].payload \subseteq subs'[n].payload
    BY QuorumStep
  <2>3. ASSUME NEW r \in sent
        PROVE  /\ r.message \in Message /\ r.policy # NoPolicy
               /\ r.policy = subs'[r.message].policy
               /\ r.signers \subseteq subs'[r.message].payload \cap VotersOf[r.policy]
               /\ \/ WeightOf[r.policy][r.signers] > Threshold[r.policy]
                  \/ WeightOf[r.policy][r.signers] > SixtyPercent(r.policy)
               /\ \A v \in r.signers : WeightOf[r.policy][r.signers \ {v}] <= Threshold[r.policy]
    <3>1. /\ r.message \in Message /\ r.policy # NoPolicy
          /\ r.policy = subs[r.message].policy
          /\ r.signers \subseteq subs[r.message].payload \cap VotersOf[r.policy]
          /\ \/ WeightOf[r.policy][r.signers] > Threshold[r.policy]
             \/ WeightOf[r.policy][r.signers] > SixtyPercent(r.policy)
          /\ \A v \in r.signers : WeightOf[r.policy][r.signers \ {v}] <= Threshold[r.policy]
      BY <2>3 DEF SentQuorum
    <3>2. /\ subs'[r.message].policy = subs[r.message].policy
          /\ subs[r.message].payload \subseteq subs'[r.message].payload
      <4>1. PICK n \in Message : n = r.message
        BY <3>1
      <4>2. subs[n].policy # NoPolicy
        BY <3>1, <4>1
      <4>3. subs'[n].policy = subs[n].policy /\ subs[n].payload \subseteq subs'[n].payload
        BY <2>2, <4>2
      <4> QED
        BY <4>1, <4>3
    <3>3. r.signers \subseteq subs'[r.message].payload \cap VotersOf[r.policy]
      BY <3>1, <3>2
    <3> QED
      BY <3>1, <3>2, <3>3
  <2>4. CASE sent' = sent
    BY <2>1, <2>2, <2>3, <2>4 DEF SentQuorum, SixtyPercent
  <2>5. CASE sent' # sent
    <3>1. PICK p \in DOMAIN procs : \E S \in GreedySelections(Data(p)) :
             /\ procs[p].pc = "process" /\ UNCHANGED subs
             /\ Data(p).policy # NoPolicy
             /\ sent' = sent \cup {[message |-> Cur(p).message, policy |-> Data(p).policy,
                                    signers |-> S, delayed |-> p # 1, at |-> now]}
      BY <2>5, Sends
    <3>2. PICK S \in GreedySelections(Data(p)) :
             /\ procs[p].pc = "process" /\ UNCHANGED subs
             /\ Data(p).policy # NoPolicy
             /\ sent' = sent \cup {[message |-> Cur(p).message, policy |-> Data(p).policy,
                                    signers |-> S, delayed |-> p # 1, at |-> now]}
      BY <3>1
    <3> DEFINE q == [message |-> Cur(p).message, policy |-> Data(p).policy,
                     signers |-> S, delayed |-> p # 1, at |-> now]
    <3>3. /\ q.message = Cur(p).message /\ q.policy = Data(p).policy /\ q.signers = S
          /\ sent' = sent \cup {q}
      <4>1. sent' = sent \cup {q}
        BY <3>2
      <4> QED
        BY <4>1
    <3> HIDE DEF q
    <3>4. /\ Data(p) = subs[q.message]
          /\ S \subseteq Data(p).payload \cap VotersOf[q.policy]
          /\ WeightOf[q.policy][S] > Threshold[q.policy] \/ WeightOf[q.policy][S] > SixtyPercent(q.policy)
          /\ \A v \in S : WeightOf[q.policy][S \ {v}] <= Threshold[q.policy]
      BY <3>2, <3>3, SendIsQuorum
    <3>5. q.message \in Message /\ q.policy # NoPolicy /\ q.policy = subs'[q.message].policy
      BY <3>2, <3>3, <3>4, CurFacts
    <3>6. q.signers \subseteq subs'[q.message].payload \cap VotersOf[q.policy]
      BY <3>2, <3>3, <3>4
    <3>7. /\ \/ WeightOf[q.policy][q.signers] > Threshold[q.policy]
             \/ WeightOf[q.policy][q.signers] > SixtyPercent(q.policy)
          /\ \A v \in q.signers : WeightOf[q.policy][q.signers \ {v}] <= Threshold[q.policy]
      BY <3>3, <3>4
    <3>8. \A r \in sent' : r \in sent \/ r = q
      BY <3>3
    <3>9. Sent'
      BY <2>3, <3>5, <3>8
    <3>10. SentQuorum'
      BY <2>3, <3>5, <3>6, <3>7, <3>8 DEF SentQuorum, SixtyPercent
    <3> QED
      BY <2>1, <2>2, <3>9, <3>10
  <2> QED
    BY <2>4, <2>5
<1>3. J => SentQuorum
  OBVIOUS
<1> HIDE DEF J
<1> QED
  BY <1>1, <1>2, <1>3, PTL DEF Spec, OnePolicyPerMessage, One
==============================================================================
