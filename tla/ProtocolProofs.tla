---------------------------- MODULE ProtocolProofs ----------------------------
(***************************************************************************)
(* Proofs about the package client/protocol.  First the WaitGroup and the  *)
(* reveals of the protocol client (ProtocolClient), for every period,      *)
(* every pair of start offsets and any number of epochs; then what the     *)
(* RunEpoch of a submitter sends (Submitters), for any number of           *)
(* sub-protocols, rounds and retries.                                      *)
(*                                                                         *)
(* That wg.Done comes after the wg.Add of its epoch is a matter of time    *)
(* only: the goroutine of submit1 has the shorter sleep.  The invariant    *)
(* follows each goroutine from its sleep to its end, and compares the two  *)
(* of an epoch.                                                            *)
(***************************************************************************)
EXTENDS ProtocolClient, Submitters, FiniteSetTheorems, WellFoundedInduction, TLAPS

\* Leaves without a pragma are for Zenon; the others need arithmetic or records.
USE ZenonT(30)

Started == {"run", "done"}

\* No goroutine before the ticker has delivered its epoch, and none for a
\* submitter that is not configured.
TickInv ==
  /\ pc \in {"start", "ask", "next"} =>
       \A s \in Submitter, e \in VotingEpoch : go[s][e] = "none"
  /\ \A s \in Submitter, e \in VotingEpoch : go[s][e] # "none" => s \in Enabled /\ e < tickEpoch

\* The clock does not pass the end of a sleep, and no sleep ends early.
SleepInv ==
  \A s \in Submitter, e \in VotingEpoch :
    /\ go[s][e] = "sleep" => now <= wake[s][e]
    /\ go[s][e] # "none" => wake[s][e] >= e * Period + SleepTime(s)

\* RunEpoch was called when the sleep was over.
BeganInv ==
  \A s \in Submitter, e \in VotingEpoch :
    /\ go[s][e] \in Started => began[s][e] = wake[s][e]
    /\ go[s][e] \notin Started => began[s][e] = -1

\* The two goroutines of an epoch are made together, and that of submit1 wakes up
\* first.
OrderInv ==
  Paired => \A e \in VotingEpoch :
    /\ go["submit1"][e] = "none" <=> go["submit2"][e] = "none"
    /\ go["submit1"][e] # "none" => wake["submit1"][e] < wake["submit2"][e]
    /\ go["submit2"][e] \in Started => go["submit1"][e] \in Started

\* In its epoch, submit2 starts after submit1, as in the sample configuration.
LaterReveal == StartOffset["submit1"] < StartOffset["submit2"]

\* The ticker delivers every epoch from its first one on, each at its very start.
ExactInv ==
  /\ pc = "select" /\ tickEpoch \in VotingEpoch => now <= tickEpoch * Period
  /\ \A s \in Submitter, e \in VotingEpoch :
       /\ go[s][e] # "none" => wake[s][e] = e * Period + SleepTime(s)
       /\ go[s][e] \in Started => wake[s][e] <= now
  /\ \A d, e \in VotingEpoch :
       go["submit1"][d] # "none" /\ d <= e /\ e < tickEpoch => go["submit1"][e] # "none"

\* A released wg.Wait finds the counter at zero, and no commit is left that could
\* raise it again.
WaitInv ==
  /\ pc # "panic"
  /\ ~Paired => wg = 0 /\ pc \notin {"waiting", "released"}
  /\ pc = "released" => wg = 0 /\ \A e \in VotingEpoch : go["submit1"][e] # "sleep"

IInv == TypeOK /\ TickInv /\ SleepInv /\ BeganInv /\ OrderInv /\ CounterIsOpen

\* Epoch numbers are natural numbers.
LEMMA IndexType ==
  ASSUME NEW t \in Nat, NEW p \in Nat \ {0}
  PROVE  EpochIndex(t, 0, p) \in Nat
<1>1. t - 0 = t
  BY SMTT(30)
<1>2. t \div p \in Nat
  BY SMTT(30)
<1> QED
  BY SMTT(30), <1>1, <1>2 DEF EpochIndex, TruncDiv

\* A sleep is not negative, and submit1 sleeps less than submit2 does.
LEMMA SleepType ==
  /\ \A s \in Submitter : SleepTime(s) \in Nat
  /\ SleepTime("submit1") < SleepTime("submit2")
<1>1. \A s \in Submitter : StartOffset[s] \in Nat
  BY ProtocolAssumption
<1>2. Period \in Nat
  BY ProtocolAssumption
<1> QED
  BY SMTT(30), <1>1, <1>2, OffsetAssumption DEF SleepTime, Submitter

\* There are finitely many open commits.
LEMMA OpenFinite == IsFiniteSet(Open) /\ Cardinality(Open) \in Nat
<1>1. IsFiniteSet(VotingEpoch)
  BY SMTT(30), ProtocolAssumption, FS_Interval DEF VotingEpoch
<1>2. IsFiniteSet(Open)
  BY <1>1, FS_Subset DEF Open
<1> QED
  BY <1>2, FS_CardinalityType

\* The initial state satisfies the invariant.
LEMMA InitInv == Init => IInv
<1> SUFFICES ASSUME Init PROVE IInv
  OBVIOUS
<1>1. TypeOK
  <2>1. registered \subseteq Nat
    BY SMTT(30) DEF Init
  <2>2. go \in [Submitter -> [VotingEpoch -> {"none", "sleep", "run", "done"}]]
    BY DEF Init
  <2>3. wake \in [Submitter -> [VotingEpoch -> Nat]]
    BY DEF Init
  <2>4. began \in [Submitter -> [VotingEpoch -> Nat \cup {-1}]]
    BY DEF Init
  <2>5. pc = "start" /\ cancelled \in BOOLEAN /\ others \in BOOLEAN
    BY DEF Init
  <2>6. now \in Nat /\ checked \in Nat /\ tickEpoch \in Nat /\ wg \in Int
    BY SMTT(30) DEF Init
  <2> QED
    BY <2>1, <2>2, <2>3, <2>4, <2>5, <2>6 DEF TypeOK
<1>2. TickInv /\ SleepInv /\ BeganInv /\ OrderInv
  BY DEF Init, TickInv, SleepInv, BeganInv, OrderInv, Started, Submitter
<1>3. Open = {}
  BY DEF Init, Open, Submitter
<1>4. CounterIsOpen
  BY <1>3, FS_EmptySet DEF Init, CounterIsOpen
<1> QED
  BY <1>1, <1>2, <1>4 DEF IInv

\* Where nothing happens to the goroutines, and Run does not go back to waiting
\* for its registration, only the clock may move, and not past a sleep.
LEMMA FrameInv ==
  ASSUME IInv, UNCHANGED <<goVars, tickEpoch>>, TypeOK',
         pc' \in {"start", "ask", "next"} => pc \in {"start", "ask", "next"},
         \A s \in Submitter, e \in VotingEpoch : go[s][e] = "sleep" => now' <= wake[s][e]
  PROVE  IInv'
<1>1. TickInv' /\ SleepInv'
  BY DEF IInv, TickInv, SleepInv, goVars
<1>2. BeganInv' /\ OrderInv'
  BY DEF IInv, BeganInv, OrderInv, goVars
<1>3. Open' = Open
  BY DEF Open, goVars
<1>4. CounterIsOpen'
  BY <1>3 DEF IInv, CounterIsOpen, goVars
<1> QED
  BY <1>1, <1>2, <1>4 DEF IInv

\* The steps that leave the goroutines alone: the environment, the wait for the
\* registration, and the shutdown.
LEMMA QuietSteps ==
  ASSUME IInv,
         \/ Tick \/ Register \/ Cancel \/ OthersStop \/ Exit
         \/ ReadRewardEpoch \/ RegistryError \/ WaitForNextRewardEpoch
         \/ StopSubmitters \/ WaitReturns
         \/ UNCHANGED vars
  PROVE  IInv'
<1> USE DEF IInv
<1>0. RewardLength \in Nat \ {0} /\ now \in Nat
  BY ProtocolAssumption DEF TypeOK
<1>1. CASE Tick
  <2>1. TypeOK'
    BY SMTT(30), <1>1 DEF Tick, TypeOK, goVars
  <2>2. \A s \in Submitter, e \in VotingEpoch : go[s][e] = "sleep" => now' <= wake[s][e]
    BY SMTT(30), <1>1 DEF Tick, TypeOK
  <2> QED
    BY <1>1, <2>1, <2>2, FrameInv DEF Tick
<1>2. CASE Register
  <2>1. EpochIndex(now, 0, RewardLength) \in Nat
    BY <1>0, IndexType
  <2>2. registered' \subseteq Nat
    <3>1. registered' = registered \cup {EpochIndex(now, 0, RewardLength) + 1}
      BY <1>2 DEF Register
    <3>2. EpochIndex(now, 0, RewardLength) + 1 \in Nat
      BY SMTT(30), <2>1
    <3>3. registered \subseteq Nat
      BY DEF TypeOK
    <3> QED
      BY <3>1, <3>2, <3>3
  <2>3. TypeOK'
    BY <1>2, <2>2 DEF Register, TypeOK, goVars
  <2> QED
    BY <1>2, <2>3, FrameInv DEF Register, SleepInv
<1>3. CASE ReadRewardEpoch
  <2>1. EpochIndex(now, 0, RewardLength) \in Nat
    BY <1>0, IndexType
  <2>2. TypeOK'
    BY <1>3, <2>1 DEF ReadRewardEpoch, TypeOK, goVars
  <2> QED
    BY <1>3, <2>2, FrameInv DEF ReadRewardEpoch, SleepInv
<1>4. CASE Cancel \/ OthersStop \/ Exit \/ UNCHANGED vars
  <2>1. UNCHANGED <<goVars, tickEpoch, now, registered, checked>> /\ (pc' = pc \/ pc' = "exit")
    BY <1>4 DEF Cancel, OthersStop, Exit, vars
  <2>2. cancelled' \in BOOLEAN /\ others' \in BOOLEAN
    BY <1>4 DEF Cancel, OthersStop, Exit, vars, TypeOK
  <2>3. TypeOK'
    BY <2>1, <2>2 DEF TypeOK, goVars
  <2> QED
    BY <2>1, <2>3, FrameInv DEF SleepInv
<1>5. CASE RegistryError \/ WaitForNextRewardEpoch \/ StopSubmitters \/ WaitReturns
  <2>1. /\ UNCHANGED <<goVars, tickEpoch, now, registered, checked>>
        /\ pc' \in {"failed", "waiting", "returned", "panic"} \/ (pc = "next" /\ pc' = "start")
    BY <1>5 DEF RegistryError, WaitForNextRewardEpoch, StopSubmitters, WaitReturns
  <2>2. cancelled' \in BOOLEAN /\ others' \in BOOLEAN
    BY <1>5 DEF RegistryError, WaitForNextRewardEpoch, StopSubmitters, WaitReturns, TypeOK
  <2>3. TypeOK'
    BY <2>1, <2>2 DEF TypeOK, goVars
  <2> QED
    BY <2>1, <2>3, FrameInv DEF SleepInv
<1> QED
  BY <1>1, <1>2, <1>3, <1>4, <1>5

\* The ticker is made before there is any goroutine.
LEMMA IsRegisteredInv ==
  ASSUME IInv, IsRegistered
  PROVE  IInv'
<1> USE DEF IInv
<1>1. EpochIndex(now, 0, Period) \in Nat
  BY ProtocolAssumption, IndexType DEF TypeOK
<1>2. \A s \in Submitter, e \in VotingEpoch : go[s][e] = "none"
  BY DEF IsRegistered, NewEpochTicker, TickInv
<1>3. UNCHANGED <<goVars, now, registered, checked, cancelled, others>>
  BY DEF IsRegistered, NewEpochTicker
<1>4. tickEpoch' \in Nat /\ pc' \in {"select", "next"}
  BY SMTT(30), <1>1 DEF IsRegistered, NewEpochTicker, TypeOK
<1>5. TypeOK'
  BY <1>3, <1>4 DEF TypeOK, goVars
<1>6. TickInv' /\ SleepInv' /\ BeganInv' /\ OrderInv'
  BY <1>2, <1>3 DEF TickInv, SleepInv, BeganInv, OrderInv, goVars
<1>7. Open' = Open
  BY <1>3 DEF Open, goVars
<1>8. CounterIsOpen'
  BY <1>3, <1>7 DEF CounterIsOpen, goVars
<1> QED
  BY <1>5, <1>6, <1>8

\* An epoch of the ticker makes a sleeping goroutine for each submitter, and opens
\* nothing yet.
LEMMA TickerInv ==
  ASSUME IInv, TickerTick
  PROVE  IInv'
<1> USE DEF IInv
<1>1. /\ tickEpoch \in VotingEpoch /\ tickEpoch \in Nat /\ now \in Nat
      /\ tickEpoch * Period <= now /\ pc = "select" /\ Period \in Nat
      /\ tickEpoch * Period \in Nat
  BY SMTT(30), ProtocolAssumption DEF TickerTick, TickerReady, StartTime, TypeOK
<1>2. \A s \in Submitter : go[s][tickEpoch] = "none"
  BY SMTT(30), <1>1 DEF TickInv
<1>3. UNCHANGED <<now, registered, pc, checked, began, wg, cancelled, others>> /\ tickEpoch' = tickEpoch + 1
  BY DEF TickerTick
<1>4. /\ go' \in [Submitter -> [VotingEpoch -> {"none", "sleep", "run", "done"}]]
      /\ \A s \in Submitter, e \in VotingEpoch :
           go'[s][e] = IF s \in Enabled /\ e = tickEpoch THEN "sleep" ELSE go[s][e]
  BY <1>1 DEF TickerTick, TypeOK
<1>5. \A s \in Submitter : now + SleepTime(s) \in Nat
  BY SMTT(30), <1>1, SleepType
<1>6. /\ wake' \in [Submitter -> [VotingEpoch -> Nat]]
      /\ \A s \in Submitter, e \in VotingEpoch :
           wake'[s][e] = IF e = tickEpoch THEN now + SleepTime(s) ELSE wake[s][e]
  BY <1>1, <1>5 DEF TickerTick, TypeOK
<1>7. TypeOK'
  BY SMTT(30), <1>1, <1>3, <1>4, <1>6 DEF TypeOK
<1>8. TickInv'
  BY SMTT(30), <1>1, <1>3, <1>4 DEF TickInv, VotingEpoch
<1>9. SleepInv'
  <2> SUFFICES ASSUME NEW s \in Submitter, NEW e \in VotingEpoch
               PROVE  /\ go'[s][e] = "sleep" => now' <= wake'[s][e]
                      /\ go'[s][e] # "none" => wake'[s][e] >= e * Period + SleepTime(s)
    BY DEF SleepInv, SleepTime
  <2>1. SleepTime(s) \in Nat
    BY SleepType
  <2>2. CASE e = tickEpoch
    BY SMTT(30), <1>1, <1>3, <1>6, <2>1, <2>2
  <2>3. CASE e # tickEpoch
    BY SMTT(30), <1>3, <1>4, <1>6, <2>3 DEF SleepInv
  <2> QED
    BY <2>2, <2>3
<1>10. BeganInv'
  BY SMTT(30), <1>2, <1>3, <1>4, <1>6 DEF BeganInv, Started
<1>11. OrderInv'
  <2> SUFFICES ASSUME Paired, NEW e \in VotingEpoch
               PROVE  /\ go'["submit1"][e] = "none" <=> go'["submit2"][e] = "none"
                      /\ go'["submit1"][e] # "none" => wake'["submit1"][e] < wake'["submit2"][e]
                      /\ go'["submit2"][e] \in Started => go'["submit1"][e] \in Started
    BY DEF OrderInv, Paired
  <2>0. /\ {"submit1", "submit2"} \subseteq Submitter /\ {"submit1", "submit2"} \subseteq Enabled
        /\ SleepTime("submit1") \in Nat /\ SleepTime("submit2") \in Nat
    BY SleepType DEF Submitter, Paired
  <2>1. CASE e = tickEpoch
    BY SMTT(30), <1>1, <1>4, <1>6, <2>0, <2>1, SleepType DEF Started
  <2>2. CASE e # tickEpoch
    BY SMTT(30), <1>4, <1>6, <2>0, <2>2 DEF OrderInv
  <2> QED
    BY SMTT(30), <2>1, <2>2
<1>12. Open' = Open
  <2>1. \A s \in Submitter, e \in VotingEpoch :
          /\ go'[s][e] \in {"run", "done"} <=> go[s][e] \in {"run", "done"}
          /\ go'[s][e] = "done" <=> go[s][e] = "done"
    BY SMTT(30), <1>2, <1>4
  <2> QED
    BY SMTT(30), <2>1 DEF Open, Submitter
<1>13. CounterIsOpen'
  BY <1>3, <1>12 DEF CounterIsOpen, Paired
<1> QED
  BY <1>7, <1>8, <1>9, <1>10, <1>11, <1>13

\* A goroutine wakes up: the commit of an epoch opens it and is counted, and the
\* reveal of an epoch finds it open.
LEMMA WakeUpInv ==
  ASSUME IInv, NEW s \in Submitter, NEW e \in VotingEpoch, WakeUp(s, e)
  PROVE  IInv'
<1> USE DEF IInv
<1>1. /\ UNCHANGED <<now, registered, pc, checked, tickEpoch, wake, cancelled, others>>
      /\ go[s][e] = "sleep" /\ wake[s][e] <= now
  BY DEF WakeUp
<1>2. /\ go' \in [Submitter -> [VotingEpoch -> {"none", "sleep", "run", "done"}]]
      /\ \A t \in Submitter, d \in VotingEpoch :
           go'[t][d] = IF t = s /\ d = e THEN "run" ELSE go[t][d]
  BY DEF WakeUp, TypeOK
<1>3. /\ began' \in [Submitter -> [VotingEpoch -> Nat \cup {-1}]]
      /\ \A t \in Submitter, d \in VotingEpoch :
           began'[t][d] = IF t = s /\ d = e THEN now ELSE began[t][d]
  BY DEF WakeUp, TypeOK
<1>4. wg' \in Int
  BY SMTT(30) DEF WakeUp, TypeOK
<1>5. TypeOK'
  BY <1>1, <1>2, <1>3, <1>4 DEF TypeOK
<1>6. TickInv'
  BY <1>1, <1>2 DEF TickInv
<1>7. SleepInv'
  BY SMTT(30), <1>1, <1>2 DEF SleepInv, SleepTime
<1>8. now = wake[s][e]
  <2>1. now \in Nat /\ wake[s][e] \in Nat
    BY DEF TypeOK
  <2>2. now <= wake[s][e]
    BY <1>1 DEF SleepInv
  <2> QED
    BY SMTT(30), <1>1, <2>1, <2>2
<1>9. BeganInv'
  <2> SUFFICES ASSUME NEW t \in Submitter, NEW d \in VotingEpoch
               PROVE  /\ go'[t][d] \in Started => began'[t][d] = wake'[t][d]
                      /\ go'[t][d] \notin Started => began'[t][d] = -1
    BY DEF BeganInv
  <2>1. CASE t = s /\ d = e
    <3>1. go'[t][d] = "run" /\ began'[t][d] = now /\ wake'[t][d] = now
      BY SMTT(30), <1>1, <1>2, <1>3, <1>8, <2>1
    <3> QED
      BY <3>1 DEF Started
  <2>2. CASE ~(t = s /\ d = e)
    <3>1. go'[t][d] = go[t][d] /\ began'[t][d] = began[t][d] /\ wake'[t][d] = wake[t][d]
      BY SMTT(30), <1>1, <1>2, <1>3, <2>2
    <3> QED
      BY <3>1 DEF BeganInv
  <2> QED
    BY <2>1, <2>2
<1>10. Paired /\ s = "submit2" => go["submit1"][e] \in Started
  <2> SUFFICES ASSUME Paired, s = "submit2" PROVE go["submit1"][e] \in Started
    OBVIOUS
  <2>1. go["submit1"][e] # "none" /\ wake["submit1"][e] < wake["submit2"][e]
    BY <1>1 DEF OrderInv
  <2>2. "submit1" \in Submitter /\ wake["submit1"][e] \in Nat /\ now \in Nat
    BY DEF TypeOK, Submitter
  <2>3. go["submit1"][e] # "sleep"
    BY SMTT(30), <1>8, <2>1, <2>2 DEF SleepInv
  <2> QED
    BY SMTT(30), <2>1, <2>2, <2>3 DEF TypeOK, Started
<1>11. OrderInv'
  <2> SUFFICES ASSUME Paired, NEW d \in VotingEpoch
               PROVE  /\ go'["submit1"][d] = "none" <=> go'["submit2"][d] = "none"
                      /\ go'["submit1"][d] # "none" => wake'["submit1"][d] < wake'["submit2"][d]
                      /\ go'["submit2"][d] \in Started => go'["submit1"][d] \in Started
    BY DEF OrderInv, Paired
  <2>1. "submit1" \in Submitter /\ "submit2" \in Submitter
    BY DEF Submitter
  <2>2. /\ go["submit1"][d] = "none" <=> go["submit2"][d] = "none"
        /\ go["submit1"][d] # "none" => wake["submit1"][d] < wake["submit2"][d]
        /\ go["submit2"][d] \in Started => go["submit1"][d] \in Started
    BY DEF OrderInv
  <2> QED
    BY SMTT(30), <1>1, <1>2, <1>10, <2>1, <2>2 DEF Started
<1>12. CounterIsOpen'
  <2> SUFFICES ASSUME Paired PROVE wg' = Cardinality(Open')
    BY DEF CounterIsOpen, Paired
  <2>0. wg = Cardinality(Open)
    BY DEF CounterIsOpen
  <2>1. CASE s = "submit1"
    <3>1. go["submit2"][e] # "done"
      BY <1>1, <2>1 DEF OrderInv, Started
    <3>2. Open' = Open \cup {e} /\ e \notin Open
      BY SMTT(30), <1>1, <1>2, <2>1, <3>1 DEF Open, Submitter
    <3>3. Cardinality(Open') = Cardinality(Open) + 1
      BY <3>2, OpenFinite, FS_AddElement
    <3> QED
      BY <2>0, <2>1, <3>3 DEF WakeUp
  <2>2. CASE s # "submit1"
    <3>1. Open' = Open
      BY SMTT(30), <1>1, <1>2, <2>2 DEF Open, Submitter
    <3> QED
      BY <2>0, <2>2, <3>1 DEF WakeUp
  <2> QED
    BY <2>1, <2>2
<1> QED
  BY <1>5, <1>6, <1>7, <1>9, <1>11, <1>12

\* A goroutine ends: the reveal of an epoch closes it and is counted off.
LEMMA RunEpochEndsInv ==
  ASSUME IInv, NEW s \in Submitter, NEW e \in VotingEpoch, RunEpochEnds(s, e)
  PROVE  IInv'
<1> USE DEF IInv
<1>1. /\ UNCHANGED <<now, registered, checked, tickEpoch, wake, began, cancelled, others>>
      /\ go[s][e] = "run" /\ (pc' = pc \/ pc' \in {"panic", "released"})
  BY DEF RunEpochEnds
<1>2. /\ go' \in [Submitter -> [VotingEpoch -> {"none", "sleep", "run", "done"}]]
      /\ \A t \in Submitter, d \in VotingEpoch :
           go'[t][d] = IF t = s /\ d = e THEN "done" ELSE go[t][d]
  BY DEF RunEpochEnds, TypeOK
<1>3. wg' = (IF s = "submit2" /\ Paired THEN wg - 1 ELSE wg) /\ wg' \in Int
  BY SMTT(30) DEF RunEpochEnds, TypeOK
<1>4. TypeOK'
  BY <1>1, <1>2, <1>3 DEF TypeOK
<1>5. TickInv'
  BY SMTT(30), <1>1, <1>2 DEF TickInv
<1>6. SleepInv'
  BY SMTT(30), <1>1, <1>2 DEF SleepInv, SleepTime
<1>7. BeganInv'
  BY SMTT(30), <1>1, <1>2 DEF BeganInv, Started
<1>8. OrderInv'
  <2> SUFFICES ASSUME Paired, NEW d \in VotingEpoch
               PROVE  /\ go'["submit1"][d] = "none" <=> go'["submit2"][d] = "none"
                      /\ go'["submit1"][d] # "none" => wake'["submit1"][d] < wake'["submit2"][d]
                      /\ go'["submit2"][d] \in Started => go'["submit1"][d] \in Started
    BY DEF OrderInv, Paired
  <2>1. "submit1" \in Submitter /\ "submit2" \in Submitter
    BY DEF Submitter
  <2>2. /\ go["submit1"][d] = "none" <=> go["submit2"][d] = "none"
        /\ go["submit1"][d] # "none" => wake["submit1"][d] < wake["submit2"][d]
        /\ go["submit2"][d] \in Started => go["submit1"][d] \in Started
    BY DEF OrderInv
  <2> QED
    BY SMTT(30), <1>1, <1>2, <2>1, <2>2 DEF Started
<1>9. CounterIsOpen'
  <2> SUFFICES ASSUME Paired PROVE wg' = Cardinality(Open')
    BY DEF CounterIsOpen, Paired
  <2>0. wg = Cardinality(Open)
    BY DEF CounterIsOpen
  <2>1. CASE s = "submit2"
    <3>1. go["submit1"][e] \in Started
      BY <1>1, <2>1 DEF OrderInv, Started
    <3>2. Open' = Open \ {e} /\ e \in Open
      BY SMTT(30), <1>1, <1>2, <2>1, <3>1 DEF Open, Submitter, Started
    <3>3. Cardinality(Open') = Cardinality(Open) - 1
      BY <3>2, OpenFinite, FS_RemoveElement
    <3> QED
      BY <1>3, <2>0, <2>1, <3>3
  <2>2. CASE s # "submit2"
    <3>1. Open' = Open
      BY SMTT(30), <1>1, <1>2, <2>2 DEF Open, Submitter
    <3> QED
      BY <1>3, <2>0, <2>2, <3>1
  <2> QED
    BY <2>1, <2>2
<1> QED
  BY <1>4, <1>5, <1>6, <1>7, <1>8, <1>9

\* Every step preserves the invariant.
LEMMA StepInv == IInv /\ [Next]_vars => IInv'
<1> SUFFICES ASSUME IInv, [Next]_vars PROVE IInv'
  OBVIOUS
<1>1. ASSUME NEW s \in Submitter, NEW e \in VotingEpoch, Goroutine(s, e) PROVE IInv'
  BY <1>1, WakeUpInv, RunEpochEndsInv DEF Goroutine
<1>2. CASE Environment \/ Run \/ UNCHANGED vars
  BY <1>2, QuietSteps, IsRegisteredInv, TickerInv DEF Environment, Run, Registration
<1> QED
  BY <1>1, <1>2 DEF Next

\* The invariant holds of every behaviour of the protocol client.
THEOREM Inductive == Spec => []IInv
  BY InitInv, StepInv, PTL DEF Spec

\* The type invariant of the protocol client.
THEOREM TypeCorrect == Spec => []TypeOK
<1>1. IInv => TypeOK
  BY DEF IInv
<1> QED
  BY <1>1, Inductive, PTL

\* The WaitGroup counts exactly the commits that await their reveal
\* (ProtocolClient.Run).
THEOREM CounterTheorem == Spec => []CounterIsOpen
<1>1. IInv => CounterIsOpen
  BY DEF IInv
<1> QED
  BY <1>1, Inductive, PTL

\* No reveal begins before the epoch it reveals is over, or before its commit.
THEOREM RevealTheorem == Spec => []RevealAfterEpoch
<1>1. IInv => RevealAfterEpoch
  <2> SUFFICES ASSUME IInv, NEW e \in VotingEpoch, began["submit2"][e] >= 0
               PROVE  /\ began["submit2"][e] >= (e + 1) * Period + StartOffset["submit2"]
                      /\ "submit1" \in Enabled => began["submit1"][e] \in 0 .. began["submit2"][e] - 1
    BY DEF RevealAfterEpoch
  <2> USE DEF IInv
  <2>1. "submit1" \in Submitter /\ "submit2" \in Submitter
    BY DEF Submitter
  <2>2. go["submit2"][e] \in Started /\ began["submit2"][e] = wake["submit2"][e]
    <3>1. go["submit2"][e] \notin Started => began["submit2"][e] = -1
      BY <2>1 DEF BeganInv
    <3> QED
      BY SMTT(30), <2>1, <3>1 DEF BeganInv
  <2>3. go["submit2"][e] # "none"
    BY <2>2 DEF Started
  <2>4. wake["submit2"][e] >= e * Period + SleepTime("submit2")
    BY <2>1, <2>3 DEF SleepInv
  <2>5. e \in Int /\ Period \in Int /\ StartOffset["submit2"] \in Int
    BY SMTT(30), <2>1, ProtocolAssumption DEF VotingEpoch
  <2>6. e * Period + SleepTime("submit2") = (e + 1) * Period + StartOffset["submit2"]
    <3>1. (e + 1) * Period = e * Period + Period
      BY SMTT(30), <2>5
    <3>2. e * Period \in Int
      BY SMTT(30), <2>5
    <3> QED
      BY SMTT(30), <2>5, <3>1, <3>2 DEF SleepTime
  <2>7. ASSUME "submit1" \in Enabled PROVE began["submit1"][e] \in 0 .. began["submit2"][e] - 1
    <3>1. Paired
      BY <2>1, <2>3, <2>7 DEF Paired, TickInv
    <3>2. go["submit1"][e] \in Started /\ wake["submit1"][e] < wake["submit2"][e]
      BY <2>2, <3>1 DEF OrderInv, Started
    <3>3. began["submit1"][e] = wake["submit1"][e]
      BY <2>1, <3>2 DEF BeganInv
    <3>4. wake["submit1"][e] \in Nat /\ wake["submit2"][e] \in Nat
      BY <2>1 DEF TypeOK
    <3> QED
      BY SMTT(30), <2>2, <3>2, <3>3, <3>4
  <2> QED
    BY <2>2, <2>4, <2>6, <2>7
<1> QED
  BY <1>1, Inductive, PTL

\* A shutdown that returns leaves no commit without its reveal (wg.Wait of Run).
THEOREM ReturnTheorem == Spec => NoneOpenOnReturn
<1>1. IInv /\ [Next]_vars => [pc # "returned" /\ pc' = "returned" /\ Paired => Open = {}]_vars
  <2> SUFFICES ASSUME IInv, [Next]_vars, pc # "returned", pc' = "returned", Paired
               PROVE  Open = {}
    OBVIOUS
  <2> USE DEF IInv
  <2>1. WaitForNextRewardEpoch \/ StopSubmitters \/ WaitReturns
    <3>1. ~UNCHANGED vars
      BY DEF vars
    <3>2. ~Environment
      BY DEF Environment, Tick, Register, Cancel, OthersStop, Exit
    <3>3. ~(ReadRewardEpoch \/ IsRegistered \/ RegistryError \/ TickerTick)
      BY DEF ReadRewardEpoch, IsRegistered, RegistryError, TickerTick
    <3>4. ASSUME NEW s \in Submitter, NEW e \in VotingEpoch PROVE ~Goroutine(s, e)
      BY DEF Goroutine, WakeUp, RunEpochEnds
    <3> QED
      BY <3>1, <3>2, <3>3, <3>4 DEF Next, Run, Registration
  <2>2. CASE WaitForNextRewardEpoch
    BY <2>2 DEF WaitForNextRewardEpoch, TickInv, Open, Submitter
  <2>3. CASE StopSubmitters \/ WaitReturns
    <3>1. wg = 0
      <4>1. wg \in Nat
        BY OpenFinite DEF CounterIsOpen
      <4> QED
        BY SMTT(30), <2>3, <4>1 DEF StopSubmitters, WaitReturns
    <3>2. Cardinality(Open) = 0
      BY <3>1 DEF CounterIsOpen
    <3> QED
      BY <3>2, OpenFinite, FS_EmptySet
  <2> QED
    BY <2>1, <2>2, <2>3
<1> QED
  BY <1>1, Inductive, PTL DEF Spec, NoneOpenOnReturn

(***************************************************************************)
(* No panic.                                                               *)
(***************************************************************************)

\* The order of the naturals as the relation the library reasons about.
LEMMA NatLess ==
  ASSUME NEW x \in Nat, NEW y \in Nat, x < y
  PROVE  <<x, y>> \in OpToRel(<, Nat)
<1>1. <<x, y>> \in {ss \in Nat \X Nat : ss[1] < ss[2]}
  OBVIOUS
<1> QED
  BY <1>1 DEF OpToRel

\* A set of epochs that is not empty has a first one.
LEMMA FirstEpoch ==
  ASSUME NEW S \in SUBSET Nat, S # {}
  PROVE  \E k \in S : \A l \in S : k <= l
<1>1. IsWellFoundedOn(OpToRel(<, Nat), Nat)
  BY NatLessThanWellFounded
<1>2. PICK x \in S : \A y \in S : ~(<<y, x>> \in OpToRel(<, Nat))
  BY <1>1, WFMin
<1>3. \A y \in S : ~(y < x)
  BY <1>2, NatLess
<1> QED
  BY SMTT(30), <1>3

\* An epoch that the ticker makes next begins in the future.
LEMMA NextStart ==
  ASSUME NEW t \in Nat, NEW p \in Nat \ {0}
  PROVE  t <= (EpochIndex(t, 0, p) + 1) * p
<1>1. t - 0 = t
  BY SMTT(30)
<1>2. EpochIndex(t, 0, p) = t \div p
  BY SMTT(30), <1>1 DEF EpochIndex, TruncDiv
<1>3. t <= (t \div p + 1) * p
  BY SMTT(30)
<1> QED
  BY <1>2, <1>3

\* The clock and the ticker keep to the starts of the epochs.
LEMMA ExactStep ==
  ASSUME IInv, ExactInv, [Next]_vars
  PROVE  ExactInv'
<1> USE DEF IInv
<1>0. /\ now \in Nat /\ tickEpoch \in Nat /\ Period \in Nat \ {0}
      /\ tickEpoch * Period \in Nat /\ (tickEpoch + 1) * Period = tickEpoch * Period + Period
  BY SMTT(30), ProtocolAssumption DEF TypeOK
<1>1. ASSUME go' = go, wake' = wake, tickEpoch' = tickEpoch,
             pc' = "select" /\ tickEpoch \in VotingEpoch => now' <= tickEpoch * Period,
             now' \in Nat, now <= now'
      PROVE  ExactInv'
  <2>1. \A s \in Submitter, e \in VotingEpoch : wake[s][e] \in Nat
    BY DEF TypeOK
  <2>2. \A s \in Submitter, e \in VotingEpoch : wake[s][e] <= now => wake[s][e] <= now'
    BY SMTT(30), <1>0, <1>1, <2>1
  <2> QED
    BY <1>1, <2>2 DEF ExactInv, SleepTime
<1>2. CASE Tick
  <2>1. go' = go /\ wake' = wake /\ tickEpoch' = tickEpoch /\ pc' = pc /\ now' = now + 1
    BY <1>2 DEF Tick, goVars
  <2>2. pc = "select" /\ tickEpoch \in VotingEpoch => ~(tickEpoch * Period <= now)
    BY SMTT(30), <1>0, <1>2 DEF Tick, TickerReady, StartTime
  <2>3. now' \in Nat /\ now <= now'
    BY SMTT(30), <1>0, <2>1
  <2>4. pc' = "select" /\ tickEpoch \in VotingEpoch => now' <= tickEpoch * Period
    BY SMTT(30), <1>0, <2>1, <2>2
  <2> QED
    BY <1>1, <2>1, <2>3, <2>4
<1>3. CASE \/ Register \/ Cancel \/ OthersStop \/ Exit
           \/ ReadRewardEpoch \/ RegistryError \/ WaitForNextRewardEpoch
           \/ StopSubmitters \/ WaitReturns \/ UNCHANGED vars
  <2>1. /\ go' = go /\ wake' = wake /\ tickEpoch' = tickEpoch /\ now' = now
        /\ pc' = "select" => pc = "select"
    BY <1>3 DEF Register, Cancel, OthersStop, Exit, ReadRewardEpoch, RegistryError,
                WaitForNextRewardEpoch, StopSubmitters, WaitReturns, vars, goVars
  <2> QED
    BY <1>0, <1>1, <2>1 DEF ExactInv
<1>4. CASE IsRegistered
  <2>1. /\ go' = go /\ wake' = wake /\ now' = now
        /\ pc' = "select" => tickEpoch' = EpochIndex(now, 0, Period) + 1
    BY <1>4 DEF IsRegistered, NewEpochTicker, goVars
  <2>2. \A s \in Submitter, e \in VotingEpoch : go[s][e] = "none"
    BY <1>4 DEF IsRegistered, TickInv
  <2>3. pc' = "select" => now' <= tickEpoch' * Period
    BY <1>0, <2>1, NextStart
  <2>4. "submit1" \in Submitter
    BY DEF Submitter
  <2> QED
    BY <2>1, <2>2, <2>3, <2>4 DEF ExactInv
<1>5. CASE TickerTick
  <2>1. /\ tickEpoch \in VotingEpoch /\ now = tickEpoch * Period /\ pc = "select"
    <3>1. /\ tickEpoch \in VotingEpoch /\ pc = "select"
          /\ 0 + tickEpoch * Period <= now /\ now <= tickEpoch * Period
      BY <1>5 DEF TickerTick, TickerReady, StartTime, ExactInv
    <3> QED
      BY SMTT(30), <1>0, <3>1
  <2>2. now' = now /\ pc' = pc /\ tickEpoch' = tickEpoch + 1
    BY <1>5 DEF TickerTick
  <2>3. \A s \in Submitter, e \in VotingEpoch :
          go'[s][e] = IF s \in Enabled /\ e = tickEpoch THEN "sleep" ELSE go[s][e]
    BY <1>5, <2>1 DEF TickerTick, TypeOK
  <2>4. \A s \in Submitter, e \in VotingEpoch :
          wake'[s][e] = IF e = tickEpoch THEN now + SleepTime(s) ELSE wake[s][e]
    BY <1>5, <2>1 DEF TickerTick, TypeOK
  <2>5. now' <= tickEpoch' * Period
    BY SMTT(30), <1>0, <2>1, <2>2
  <2>6. ASSUME NEW s \in Submitter, NEW e \in VotingEpoch, go'[s][e] # "none"
        PROVE  wake'[s][e] = e * Period + SleepTime(s)
    <3>1. CASE e = tickEpoch
      BY <2>1, <2>4, <3>1
    <3>2. CASE e # tickEpoch
      BY <2>3, <2>4, <2>6, <3>2 DEF ExactInv
    <3> QED
      BY <3>1, <3>2
  <2>7. ASSUME NEW d \in VotingEpoch, NEW e \in VotingEpoch, go'["submit1"][d] # "none",
               d <= e, e < tickEpoch'
        PROVE  go'["submit1"][e] # "none"
    <3>1. "submit1" \in Submitter
      BY DEF Submitter
    <3>2. "submit1" \in Enabled
      BY <2>3, <2>7, <3>1 DEF TickInv
    <3>3. CASE e = tickEpoch
      BY <2>3, <3>1, <3>2, <3>3
    <3>4. CASE e # tickEpoch
      <4>1. d < tickEpoch /\ e < tickEpoch
        BY SMTT(30), <1>0, <2>2, <2>7, <3>4 DEF VotingEpoch
      <4>2. go["submit1"][d] # "none" /\ go'["submit1"][e] = go["submit1"][e]
        BY SMTT(30), <1>0, <2>3, <2>7, <3>1, <3>4, <4>1
      <4> QED
        BY <2>7, <4>1, <4>2 DEF ExactInv
    <3> QED
      BY <3>3, <3>4
  <2>8. ASSUME NEW s \in Submitter, NEW e \in VotingEpoch, go'[s][e] \in Started
        PROVE  wake'[s][e] <= now'
    <3>1. e # tickEpoch /\ go'[s][e] = go[s][e]
      <4>1. go[s][tickEpoch] = "none"
        BY SMTT(30), <1>0, <2>1 DEF TickInv
      <4> QED
        BY <2>3, <2>8, <4>1 DEF Started
    <3> QED
      BY <2>2, <2>4, <2>8, <3>1 DEF ExactInv
  <2> QED
    BY <2>5, <2>6, <2>7, <2>8 DEF ExactInv, SleepTime
<1>6. ASSUME NEW s \in Submitter, NEW e \in VotingEpoch, Goroutine(s, e)
      PROVE  ExactInv'
  <2>1. /\ wake' = wake /\ tickEpoch' = tickEpoch /\ now' = now
        /\ pc' = "select" => pc = "select"
    BY <1>6 DEF Goroutine, WakeUp, RunEpochEnds
  <2>2. \A t \in Submitter, d \in VotingEpoch : go'[t][d] = "none" <=> go[t][d] = "none"
    <3> SUFFICES ASSUME NEW t \in Submitter, NEW d \in VotingEpoch
                 PROVE  go'[t][d] = "none" <=> go[t][d] = "none"
      OBVIOUS
    <3>1. CASE t = s /\ d = e
      BY SMTT(30), <1>6, <3>1 DEF Goroutine, WakeUp, RunEpochEnds, TypeOK
    <3>2. CASE ~(t = s /\ d = e)
      BY SMTT(30), <1>6, <3>2 DEF Goroutine, WakeUp, RunEpochEnds, TypeOK
    <3> QED
      BY <3>1, <3>2
  <2>3. "submit1" \in Submitter
    BY DEF Submitter
  <2>4. \A t \in Submitter, d \in VotingEpoch : go'[t][d] \in Started => wake[t][d] <= now
    <3> SUFFICES ASSUME NEW t \in Submitter, NEW d \in VotingEpoch, go'[t][d] \in Started
                 PROVE  wake[t][d] <= now
      OBVIOUS
    <3>1. CASE t = s /\ d = e
      BY <1>6, <3>1 DEF Goroutine, WakeUp, RunEpochEnds, ExactInv, Started
    <3>2. CASE ~(t = s /\ d = e)
      <4>1. go'[t][d] = go[t][d]
        BY SMTT(30), <1>6, <3>2 DEF Goroutine, WakeUp, RunEpochEnds, TypeOK
      <4> QED
        BY <4>1 DEF ExactInv
    <3> QED
      BY <3>1, <3>2
  <2> QED
    BY <2>1, <2>2, <2>3, <2>4 DEF ExactInv, SleepTime
<1> QED
  BY <1>2, <1>3, <1>4, <1>5, <1>6 DEF Next, Environment, Run, Registration

\* Epochs are in the order of their starts.
LEMMA MulOrder ==
  ASSUME NEW x \in Nat, NEW y \in Nat, NEW p \in Nat \ {0}, x * p <= y * p
  PROVE  x <= y
<1> SUFFICES ASSUME x >= y + 1 PROVE FALSE
  BY SMTT(30)
<1>1. PICK z \in Nat : x = y + 1 + z
  BY SMTT(30), x - (y + 1) \in Nat
<1>2. x * p = y * p + p + z * p
  BY SMTT(30), <1>1
<1>3. y * p \in Nat /\ z * p \in Nat
  BY SMTT(30)
<1> QED
  BY SMTT(30), <1>2, <1>3

\* A commit that sleeps while another was begun leaves an epoch open.
SleepOpen ==
  \A d, b \in VotingEpoch :
    go["submit1"][d] \in Started /\ go["submit1"][b] = "sleep" => Open # {}

\* While the commit of an epoch sleeps, the reveal of the epoch before it does too.
LEMMA SleepLeavesOpen == LaterReveal /\ IInv /\ ExactInv /\ Paired => SleepOpen
<1> SUFFICES ASSUME LaterReveal, IInv, ExactInv, Paired,
                    NEW d \in VotingEpoch, NEW b \in VotingEpoch,
                    go["submit1"][d] \in Started, go["submit1"][b] = "sleep"
             PROVE  Open # {}
  BY DEF SleepOpen
<1> USE DEF IInv
<1>0. /\ "submit1" \in Submitter /\ "submit2" \in Submitter
      /\ VotingEpoch \subseteq Nat /\ Period \in Nat \ {0} /\ now \in Nat
      /\ StartOffset["submit1"] \in Nat /\ StartOffset["submit2"] \in Nat
  BY SMTT(30), ProtocolAssumption DEF Submitter, VotingEpoch, TypeOK
<1>1. now <= b * Period + StartOffset["submit1"] /\ d * Period + StartOffset["submit1"] <= now
  <2>1. go["submit1"][d] # "none" /\ go["submit1"][b] # "none"
    BY DEF Started
  <2>2. /\ wake["submit1"][d] = d * Period + StartOffset["submit1"] + 0
        /\ wake["submit1"][b] = b * Period + StartOffset["submit1"] + 0
    BY SMTT(30), <1>0, <2>1 DEF ExactInv, SleepTime
  <2>3. now <= wake["submit1"][b] /\ wake["submit1"][d] <= now
    BY <1>0 DEF ExactInv, SleepInv
  <2> QED
    BY SMTT(30), <1>0, <2>2, <2>3
<1>2. d < b
  <2>1. d * Period <= b * Period
    <3>1. d \in Nat /\ b \in Nat /\ Period \in Nat
      BY <1>0
    <3>2. d * Period \in Nat /\ b * Period \in Nat
      BY SMTT(30), <3>1
    <3> QED
      BY SMTT(30), <1>0, <1>1, <3>2
  <2>2. d <= b
    BY <1>0, <2>1, MulOrder
  <2>3. d # b
    BY DEF Started
  <2>4. d \in Nat /\ b \in Nat
    BY <1>0
  <2> QED
    BY SMTT(30), <2>2, <2>3, <2>4
<1>3. PICK k \in {e \in VotingEpoch : go["submit1"][e] = "sleep" /\ d < e} :
        \A l \in {e \in VotingEpoch : go["submit1"][e] = "sleep" /\ d < e} : k <= l
  <2>1. {e \in VotingEpoch : go["submit1"][e] = "sleep" /\ d < e} \in SUBSET Nat
    BY <1>0
  <2>2. b \in {e \in VotingEpoch : go["submit1"][e] = "sleep" /\ d < e}
    BY <1>2
  <2> QED
    BY <2>1, <2>2, FirstEpoch
<1>4. k - 1 \in VotingEpoch /\ d <= k - 1 /\ k - 1 < k /\ k - 1 < tickEpoch
  <2>1. k < tickEpoch
    BY <1>0, <1>3 DEF TickInv
  <2> QED
    BY SMTT(30), <1>0, <1>3, <2>1, ProtocolAssumption DEF VotingEpoch, TypeOK
<1>5. go["submit1"][k - 1] \in Started
  <2>1. go["submit1"][k - 1] # "none"
    BY <1>4 DEF ExactInv, Started
  <2>2. go["submit1"][k - 1] # "sleep"
    <3>1. CASE d = k - 1
      BY <3>1 DEF Started
    <3>2. CASE d # k - 1
      <4>1. d < k - 1 /\ ~(k <= k - 1)
        BY SMTT(30), <1>0, <1>4, <3>2
      <4> QED
        BY <1>3, <1>4, <4>1
    <3> QED
      BY <3>1, <3>2
  <2> QED
    BY SMTT(30), <1>0, <1>4, <2>1, <2>2 DEF TypeOK, Started
<1>6. go["submit2"][k - 1] \notin Started
  <2> SUFFICES ASSUME go["submit2"][k - 1] \in Started PROVE FALSE
    OBVIOUS
  <2>1. wake["submit2"][k - 1] <= now /\ wake["submit2"][k - 1] = (k - 1) * Period + SleepTime("submit2")
    BY <1>0, <1>4 DEF ExactInv, Started
  <2>2. now <= wake["submit1"][k] /\ wake["submit1"][k] = k * Period + SleepTime("submit1")
    BY <1>0, <1>3 DEF ExactInv, SleepInv
  <2>3. (k - 1) * Period = k * Period - Period /\ k * Period \in Nat
    BY SMTT(30), <1>0, <1>3
  <2>4. /\ SleepTime("submit2") = StartOffset["submit2"] + Period
        /\ SleepTime("submit1") = StartOffset["submit1"] + 0
    BY DEF SleepTime
  <2> QED
    BY SMTT(30), <1>0, <2>1, <2>2, <2>3, <2>4 DEF LaterReveal
<1>7. k - 1 \in Open
  BY <1>4, <1>5, <1>6 DEF Open, Started
<1> QED
  BY <1>7

\* The same after a step.
LEMMA OpenLater ==
  /\ LaterReveal' /\ IInv' /\ ExactInv' /\ Paired' => SleepOpen'
  /\ IsFiniteSet(Open)'
  BY SleepLeavesOpen, OpenFinite, PTL

\* No step panics, and the wait is released only when no commit can follow.
LEMMA WaitStep ==
  ASSUME IInv, WaitInv, [Next]_vars, IInv', Paired => SleepOpen', IsFiniteSet(Open')
  PROVE  WaitInv'
<1> USE DEF IInv
<1>0. "submit1" \in Submitter /\ "submit2" \in Submitter /\ (Paired' <=> Paired)
  BY DEF Submitter, Paired
<1>1. CASE \/ Tick \/ Register \/ Cancel \/ OthersStop \/ Exit
           \/ ReadRewardEpoch \/ IsRegistered \/ RegistryError \/ WaitForNextRewardEpoch
           \/ UNCHANGED vars
  <2>1. go' = go /\ wg' = wg /\ (pc' = pc \/ pc' \in {"exit", "ask", "select", "next", "failed", "start", "returned"})
    BY <1>1 DEF Tick, Register, Cancel, OthersStop, Exit, ReadRewardEpoch, IsRegistered,
                RegistryError, WaitForNextRewardEpoch, vars, goVars
  <2> QED
    BY <1>0, <2>1 DEF WaitInv
<1>2. CASE TickerTick
  <2>1. pc = "select" /\ pc' = pc /\ wg' = wg
    BY <1>2 DEF TickerTick, TickerReady
  <2> QED
    BY <1>0, <2>1 DEF WaitInv
<1>3. CASE StopSubmitters \/ WaitReturns
  <2>1. go' = go /\ wg' = wg /\ (pc' = "returned" \/ pc' = "panic" \/ (pc' = "waiting" /\ Paired))
    BY <1>3 DEF StopSubmitters, WaitReturns, goVars
  <2>2. pc' # "panic"
    BY <1>3 DEF StopSubmitters, WaitReturns, WaitInv
  <2> QED
    BY <1>0, <2>1, <2>2 DEF WaitInv
<1>4. ASSUME NEW s \in Submitter, NEW e \in VotingEpoch, WakeUp(s, e)
      PROVE  WaitInv'
  <2>1. /\ pc' = pc /\ go[s][e] = "sleep" /\ go'[s][e] = "run"
        /\ wg' = IF s = "submit1" /\ Paired THEN wg + 1 ELSE wg
        /\ \A t \in Submitter, d \in VotingEpoch : go'[t][d] = "sleep" => go[t][d] = "sleep"
    BY <1>4 DEF WakeUp, TypeOK
  <2>2. pc = "released" => s # "submit1"
    BY <2>1 DEF WaitInv
  <2> QED
    BY <1>0, <2>1, <2>2 DEF WaitInv
<1>5. ASSUME NEW s \in Submitter, NEW e \in VotingEpoch, RunEpochEnds(s, e)
      PROVE  WaitInv'
  <2>1. /\ go[s][e] = "run" /\ go'[s][e] = "done"
        /\ wg' = IF s = "submit2" /\ Paired THEN wg - 1 ELSE wg
        /\ \A t \in Submitter, d \in VotingEpoch : go'[t][d] = "sleep" => go[t][d] = "sleep"
    BY <1>5 DEF RunEpochEnds, TypeOK
  <2>2. pc' = CASE wg' < 0 -> "panic"
                [] wg' = 0 /\ wg > 0 /\ pc = "waiting" -> "released"
                [] OTHER -> pc
    BY <1>5, <2>1 DEF RunEpochEnds
  <2>3. wg' \in Nat
    <3>1. CASE Paired
      BY <1>0, <3>1, FS_CardinalityType DEF CounterIsOpen
    <3>2. CASE ~Paired
      BY SMTT(30), <2>1, <3>2 DEF WaitInv
    <3> QED
      BY <3>1, <3>2
  <2>4. pc' # "panic" /\ (pc' = pc \/ (pc' = "released" /\ pc = "waiting" /\ wg' = 0 /\ wg > 0))
    BY SMTT(30), <2>2, <2>3 DEF WaitInv
  <2>5. ~Paired => wg' = 0 /\ pc' \notin {"waiting", "released"}
    BY <2>1, <2>4 DEF WaitInv
  <2>6. CASE pc = "released"
    <3>1. Paired /\ wg = 0
      BY <2>6 DEF WaitInv
    <3>2. wg' = 0
      BY SMTT(30), <2>1, <2>3, <3>1
    <3> QED
      BY <1>0, <2>1, <2>4, <2>5, <2>6, <3>2 DEF WaitInv
  <2>7. CASE pc # "released" /\ pc' = "released"
    <3>1. Paired /\ wg' = 0 /\ wg > 0
      BY <2>4, <2>7 DEF WaitInv
    <3>2. s = "submit2"
      BY SMTT(30), <2>1, <3>1
    <3>3. go'["submit1"][e] \in Started
      BY <1>0, <2>1, <3>1, <3>2 DEF OrderInv, Started
    <3>4. Open' = {}
      <4>1. Cardinality(Open') = 0
        BY SMTT(30), <1>0, <3>1 DEF CounterIsOpen
      <4> QED
        BY SMTT(30), <4>1, FS_EmptySet
    <3>5. \A d \in VotingEpoch : go'["submit1"][d] # "sleep"
      BY <3>1, <3>3, <3>4 DEF SleepOpen
    <3> QED
      BY <1>0, <2>4, <2>5, <3>1, <3>5 DEF WaitInv
  <2>8. CASE pc # "released" /\ pc' # "released"
    BY <1>0, <2>4, <2>5, <2>8 DEF WaitInv
  <2> QED
    BY <2>6, <2>7, <2>8
<1> QED
  BY <1>1, <1>2, <1>3, <1>4, <1>5 DEF Next, Environment, Run, Registration, Goroutine

\* Where submit2 starts later in its epoch than submit1, the WaitGroup of Run is
\* never below zero and never in use again before wg.Wait has returned: no panic.
THEOREM NoPanicTheorem ==
  ASSUME LaterReveal
  PROVE  Spec => []NoPanic
<1>1. Init => ExactInv /\ WaitInv
  BY SMTT(30) DEF Init, ExactInv, WaitInv, Started, Submitter, VotingEpoch
<1>2. IInv /\ ExactInv /\ [Next]_vars => ExactInv'
  BY ExactStep
<1>3. IInv' /\ ExactInv' => (Paired => SleepOpen')
  BY OpenLater DEF LaterReveal, Paired
<1>4. IsFiniteSet(Open')
  BY OpenLater
<1>5. IInv /\ WaitInv /\ [Next]_vars /\ IInv' /\ ExactInv' => WaitInv'
  BY <1>3, <1>4, WaitStep
<1>6. WaitInv => NoPanic
  BY DEF WaitInv, NoPanic
<1> QED
  BY <1>1, <1>2, <1>5, <1>6, Inductive, PTL DEF Spec

(***************************************************************************)
(* What RunEpoch sends.                                                    *)
(***************************************************************************)

Ascending(s) == \A x, y \in DOMAIN s : x < y => s[x] < s[y]

\* What has been read in this round is in the buffer, the rest of what was asked
\* for is still to be sent, and only requests not yet read are under way.
ReadInv ==
  runPc = "read" =>
    /\ round < Rounds
    /\ copied = SubProtocol \ Sent
    /\ protocolsToSend = copied \ Range(buffer) /\ Range(buffer) \subseteq copied
    /\ \A k \in Range(buffer) : k < i
    /\ \A k \in SubProtocol : channels[k].state # "none" => k >= i /\ k \in protocolsToSend

SubmitInv ==
  runPc = "submit" =>
    /\ round < Rounds /\ tries < SubmitRetries
    /\ copied = SubProtocol \ Sent
    /\ protocolsToSend = copied \ Range(buffer) /\ Range(buffer) \subseteq copied
    /\ buffer # <<>>

FetchInv ==
  \A k \in SubProtocol : channels[k].state = "fetch" => channels[k].tries < FetchRetries

SentInv ==
  /\ \A n \in DOMAIN accepted : accepted[n] # <<>> /\ Ascending(accepted[n])
  /\ \A n, k \in DOMAIN accepted : n # k => Range(accepted[n]) \cap Range(accepted[k]) = {}
  /\ runPc \in {"loop", "done"} => protocolsToSend = SubProtocol \ Sent

RunEpochInv ==
  /\ RunEpochTypeOK /\ ReadInv /\ SubmitInv /\ FetchInv /\ SentInv
  /\ AnswersAreFresh /\ Ascending(buffer) /\ InOrder

(***************************************************************************)
(* Sequences.                                                              *)
(***************************************************************************)

\* Writing a larger payload at the end of the buffer.
LEMMA AppendAscending ==
  ASSUME NEW s \in Seq(SubProtocol), Ascending(s), NEW k \in SubProtocol,
         \A l \in Range(s) : l < k
  PROVE  /\ Append(s, k) \in Seq(SubProtocol) /\ Ascending(Append(s, k))
         /\ Range(Append(s, k)) = Range(s) \cup {k} /\ Append(s, k) # <<>>
<1> DEFINE t == Append(s, k)
<1>1. /\ Len(s) \in Nat /\ DOMAIN s = 1 .. Len(s)
      /\ t \in Seq(SubProtocol) /\ Len(t) = Len(s) + 1 /\ DOMAIN t = 1 .. Len(s) + 1
      /\ \A x \in 1 .. Len(s) : t[x] = s[x]
      /\ t[Len(s) + 1] = k
  BY SMTT(30)
<1> HIDE DEF t
<1>2. \A x \in DOMAIN s : s[x] \in Range(s)
  BY DEF Range
<1>3. Ascending(t)
  <2> SUFFICES ASSUME NEW x \in DOMAIN t, NEW y \in DOMAIN t, x < y PROVE t[x] < t[y]
    BY DEF Ascending
  <2>1. x \in 1 .. Len(s)
    BY SMTT(30), <1>1
  <2>2. CASE y \in 1 .. Len(s)
    BY <1>1, <2>1, <2>2 DEF Ascending
  <2>3. CASE y = Len(s) + 1
    BY <1>1, <1>2, <2>1, <2>3
  <2> QED
    BY SMTT(30), <1>1, <2>2, <2>3
<1>4. Range(t) = Range(s) \cup {k}
  <2>1. \A z \in Range(t) : z \in Range(s) \cup {k}
    BY SMTT(30), <1>1, <1>2 DEF Range
  <2>2. Range(s) \subseteq Range(t)
    BY SMTT(30), <1>1 DEF Range
  <2>3. k \in Range(t)
    BY SMTT(30), <1>1 DEF Range
  <2> QED
    BY <2>1, <2>2, <2>3
<1>5. t # <<>>
  BY SMTT(30), <1>1
<1> QED
  BY <1>1, <1>3, <1>4, <1>5 DEF t

\* One more transaction.
LEMMA AppendTx ==
  ASSUME NEW txs \in Seq(Seq(SubProtocol)), NEW s \in Seq(SubProtocol)
  PROVE  /\ Append(txs, s) \in Seq(Seq(SubProtocol))
         /\ DOMAIN Append(txs, s) = DOMAIN txs \cup {Len(txs) + 1} /\ Len(txs) + 1 \notin DOMAIN txs
         /\ \A n \in DOMAIN txs : Append(txs, s)[n] = txs[n]
         /\ Append(txs, s)[Len(txs) + 1] = s
BY SMTT(30)

\* A buffer that holds something is not empty, and an empty one holds nothing.
LEMMA RangeEmpty ==
  ASSUME NEW s \in Seq(SubProtocol)
  PROVE  /\ s = <<>> => Range(s) = {}
         /\ Range(s) \subseteq SubProtocol
<1>1. s = <<>> => DOMAIN s = {}
  BY SMTT(30)
<1>2. \A x \in DOMAIN s : s[x] \in SubProtocol
  BY SMTT(30)
<1> QED
  BY <1>1, <1>2 DEF Range

\* An ascending sequence does not repeat a payload.
LEMMA AscendingInjective ==
  ASSUME NEW s \in Seq(SubProtocol), Ascending(s)
  PROVE  IsInjective(s)
<1> SUFFICES ASSUME NEW x \in DOMAIN s, NEW y \in DOMAIN s, s[x] = s[y] PROVE x = y
  BY DEF IsInjective
<1>1. x \in Int /\ y \in Int /\ s[x] \in Nat /\ s[y] \in Nat
  BY SMTT(30), SubmitterAssumption DEF SubProtocol
<1>2. ~(x < y) /\ ~(y < x)
  BY SMTT(30), <1>1 DEF Ascending
<1> QED
  BY SMTT(30), <1>1, <1>2

(***************************************************************************)
(* The steps.                                                              *)
(***************************************************************************)

LEMMA Bounds ==
  ASSUME RunEpochTypeOK
  PROVE  /\ Rounds \in Nat /\ round \in Nat /\ SubmitRetries \in Nat /\ SubmitRetries > 0
         /\ tries \in Nat
<1>1. Rounds \in Nat /\ SubmitRetries \in Nat /\ SubmitRetries > 0
  BY SMTT(30), SubmitterAssumption DEF Rounds, SubmitRetries
<1>2. round \in 0 .. Rounds /\ tries \in 0 .. SubmitRetries
  BY DEF RunEpochTypeOK
<1> QED
  BY SMTT(30), <1>1, <1>2

LEMMA RunEpochInitInv == RunEpochInit => RunEpochInv
<1> SUFFICES ASSUME RunEpochInit PROVE RunEpochInv
  OBVIOUS
<1>1. <<>> \in Seq(SubProtocol) /\ <<>> \in Seq(Seq(SubProtocol)) /\ DOMAIN (<<>>) = {}
  BY SMTT(30)
<1>2. /\ SubmitRetries \in Nat /\ Rounds \in Nat /\ NProtocols + 1 \in Nat /\ 1 \in 1 .. NProtocols + 1
      /\ 0 \in 0 .. SubmitRetries /\ 0 \in 0 .. Rounds
  BY SMTT(30), SubmitterAssumption DEF SubmitRetries, Rounds
<1>3. channels \in [SubProtocol -> [state : {"none", "fetch", "ok", "not ok", "failed"},
                                    tries : 0 .. FetchRetries, round : Nat]]
  <2>1. NoFetch \in [state : {"none", "fetch", "ok", "not ok", "failed"},
                     tries : 0 .. FetchRetries, round : Nat]
    BY SMTT(30), SubmitterAssumption DEF NoFetch
  <2> QED
    BY <2>1 DEF RunEpochInit
<1>4. RunEpochTypeOK
  BY <1>1, <1>2, <1>3 DEF RunEpochInit, RunEpochTypeOK
<1>5. \A k \in SubProtocol : channels[k].state = "none"
  BY DEF RunEpochInit, NoFetch
<1>6. Sent = {}
  BY <1>1 DEF RunEpochInit, Sent
<1>7. ReadInv /\ SubmitInv /\ FetchInv /\ AnswersAreFresh
  BY <1>5 DEF RunEpochInit, ReadInv, SubmitInv, FetchInv, AnswersAreFresh
<1>8. SentInv /\ Ascending(buffer) /\ InOrder
  <2>1. DOMAIN accepted = {} /\ DOMAIN landed = {} /\ DOMAIN buffer = {}
    BY <1>1 DEF RunEpochInit
  <2>2. SentInv
    BY <1>6, <2>1 DEF RunEpochInit, SentInv
  <2> QED
    BY <2>1, <2>2 DEF Ascending, InOrder
<1> QED
  BY <1>4, <1>7, <1>8 DEF RunEpochInv

LEMMA StartRoundStep ==
  ASSUME RunEpochInv, StartRound
  PROVE  RunEpochInv'
<1>1. RunEpochTypeOK /\ SentInv /\ AnswersAreFresh /\ FetchInv
  BY DEF RunEpochInv
<1>2. \A k \in SubProtocol : channels[k].state = "none"
  BY <1>1 DEF AnswersAreFresh, StartRound
<1>3. Rounds' = Rounds /\ Sent' = Sent /\ round \in Nat /\ round < Rounds
  <2>1. /\ kind' = kind /\ accepted' = accepted /\ round < Rounds /\ round \in 0 .. Rounds
    BY <1>1 DEF StartRound, sendVars, RunEpochTypeOK
  <2>2. Rounds \in Nat
    BY SubmitterAssumption DEF Rounds
  <2>3. Rounds' = Rounds /\ Sent' = Sent
    BY <2>1 DEF Rounds, Sent
  <2> QED
    BY SMTT(30), <2>1, <2>2, <2>3
<1>4. <<>> \in Seq(SubProtocol) /\ DOMAIN (<<>>) = {}
  BY SMTT(30)
<1>5. /\ channels' \in [SubProtocol -> [state : {"none", "fetch", "ok", "not ok", "failed"},
                                       tries : 0 .. FetchRetries, round : Nat]]
      /\ \A k \in SubProtocol :
           IF k \in protocolsToSend
           THEN /\ channels'[k].tries = 0 /\ channels'[k].round = round
                /\ channels'[k].state = "fetch" => FetchRetries # 0
           ELSE channels'[k].state = "none"
  <2>1. 0 \in 0 .. FetchRetries
    BY SMTT(30), SubmitterAssumption
  <2>2. [state |-> IF FetchRetries = 0 THEN "failed" ELSE "fetch", tries |-> 0, round |-> round]
          \in [state : {"none", "fetch", "ok", "not ok", "failed"}, tries : 0 .. FetchRetries, round : Nat]
    BY <1>3, <2>1
  <2>3. channels' = [k \in SubProtocol |->
                    IF k \in protocolsToSend
                    THEN [state |-> IF FetchRetries = 0 THEN "failed" ELSE "fetch",
                          tries |-> 0, round |-> round]
                    ELSE channels[k]]
    BY DEF StartRound
  <2>4. channels \in [SubProtocol -> [state : {"none", "fetch", "ok", "not ok", "failed"},
                                      tries : 0 .. FetchRetries, round : Nat]]
    BY <1>1 DEF RunEpochTypeOK
  <2>5. channels' \in [SubProtocol -> [state : {"none", "fetch", "ok", "not ok", "failed"},
                                       tries : 0 .. FetchRetries, round : Nat]]
    BY <2>2, <2>3, <2>4
  <2>6. ASSUME NEW k \in SubProtocol
        PROVE IF k \in protocolsToSend
           THEN /\ channels'[k].tries = 0 /\ channels'[k].round = round
                /\ channels'[k].state = "fetch" => FetchRetries # 0
           ELSE channels'[k].state = "none"
    BY <1>2, <2>3
  <2> QED
    BY <2>5, <2>6
<1>6. 1 \in 1 .. NProtocols + 1 /\ SubProtocol \subseteq Nat \ {0}
  BY SMTT(30), SubmitterAssumption DEF SubProtocol
<1>7. RunEpochTypeOK'
  <2>1. round' \in 0 .. Rounds' /\ i' \in 1 .. NProtocols + 1
    BY <1>1, <1>3, <1>6 DEF RunEpochTypeOK, StartRound
  <2>2. /\ protocolsToSend' = protocolsToSend /\ copied' = protocolsToSend /\ buffer' = <<>>
        /\ runPc' = "read" /\ kind' = kind /\ tries' = tries /\ accepted' = accepted /\ landed' = landed
    BY DEF StartRound, sendVars
  <2> QED
    BY <1>1, <1>4, <1>5, <2>1, <2>2 DEF RunEpochTypeOK, SubmitRetries
<1>8. Range(buffer') = {} /\ Ascending(buffer')
  BY <1>4 DEF StartRound, Range, Ascending
<1>9. ReadInv'
  <2>1. copied' = SubProtocol \ Sent' /\ protocolsToSend' = copied'
    BY <1>1, <1>3 DEF StartRound, SentInv
  <2>2. round' < Rounds'
    BY <1>3 DEF StartRound
  <2>3. \A k \in SubProtocol : channels'[k].state # "none" => k >= i' /\ k \in protocolsToSend'
    <3>1. i' = 1 /\ protocolsToSend' = protocolsToSend
      BY DEF StartRound
    <3>2. \A k \in SubProtocol : k >= 1
      BY SMTT(30), <1>6
    <3>3. \A k \in SubProtocol : channels'[k].state # "none" => k \in protocolsToSend
      BY <1>5
    <3> QED
      BY <3>1, <3>2, <3>3
  <2> QED
    BY <1>8, <2>1, <2>2, <2>3 DEF ReadInv
<1>10. SubmitInv' /\ AnswersAreFresh'
  BY <1>5 DEF SubmitInv, AnswersAreFresh, StartRound
<1>11. FetchInv'
  <2>1. \A k \in SubProtocol :
          channels'[k].state = "fetch" => channels'[k].tries = 0 /\ FetchRetries # 0
    BY <1>5
  <2> QED
    BY SMTT(30), <2>1, SubmitterAssumption DEF FetchInv
<1>12. SentInv' /\ InOrder'
  BY DEF RunEpochInv, SentInv, InOrder, StartRound, sendVars
<1> QED
  BY <1>7, <1>8, <1>9, <1>10, <1>11, <1>12 DEF RunEpochInv

LEMMA FetchStep ==
  ASSUME RunEpochInv, NEW k \in SubProtocol, Fetch(k)
  PROVE  RunEpochInv'
<1>1. RunEpochTypeOK /\ FetchInv /\ AnswersAreFresh /\ ReadInv
  BY DEF RunEpochInv
<1>2. /\ UNCHANGED <<kind, runPc, round, protocolsToSend, copied, i, buffer, tries, accepted, landed>>
      /\ channels[k].state = "fetch"
  BY DEF Fetch, FetchSucceeds, FetchNotOK, FetchFails, sendVars
<1>3. Rounds' = Rounds /\ Sent' = Sent
  BY <1>2 DEF Rounds, Sent
<1>4. channels \in [SubProtocol -> [state : {"none", "fetch", "ok", "not ok", "failed"},
                                    tries : 0 .. FetchRetries, round : Nat]]
  BY <1>1 DEF RunEpochTypeOK
<1>5. /\ channels[k].tries \in Nat /\ channels[k].tries < FetchRetries /\ FetchRetries \in Nat
      /\ channels[k].tries + 1 \in 0 .. FetchRetries
      /\ channels[k] \in [state : {"none", "fetch", "ok", "not ok", "failed"},
                          tries : 0 .. FetchRetries, round : Nat]
  <2>1. channels[k] \in [state : {"none", "fetch", "ok", "not ok", "failed"},
                         tries : 0 .. FetchRetries, round : Nat]
    BY <1>4
  <2>2. channels[k].tries < FetchRetries
    BY <1>1, <1>2 DEF FetchInv
  <2>3. channels[k].tries \in 0 .. FetchRetries
    BY <2>1
  <2>4. FetchRetries \in Nat
    BY SubmitterAssumption
  <2>5. /\ channels[k].tries \in Nat /\ channels[k].tries + 1 \in 0 .. FetchRetries
    BY SMTT(30), <2>2, <2>3, <2>4
  <2> QED
    BY <2>1, <2>2, <2>4, <2>5
<1>6. PICK c \in [state : {"none", "fetch", "ok", "not ok", "failed"},
                  tries : 0 .. FetchRetries, round : Nat] :
        /\ channels' = [channels EXCEPT ![k] = c]
        /\ c.state # "none" /\ c.round = channels[k].round
        /\ c.state = "fetch" => c.tries < FetchRetries
  <2>1. CASE FetchSucceeds(k) \/ FetchNotOK(k)
    <3>1. PICK st \in {"ok", "not ok"} : channels' = [channels EXCEPT ![k].state = st]
      BY <2>1 DEF FetchSucceeds, FetchNotOK
    <3>2. channels' = [channels EXCEPT ![k] = [channels[k] EXCEPT !.state = st]]
      BY <3>1
    <3>3. PICK c : c = [channels[k] EXCEPT !.state = st]
      OBVIOUS
    <3>4. /\ c \in [state : {"none", "fetch", "ok", "not ok", "failed"},
                     tries : 0 .. FetchRetries, round : Nat]
          /\ c.state = st /\ c.round = channels[k].round
      BY <1>5, <3>3
    <3>5. channels' = [channels EXCEPT ![k] = c]
      BY <3>2, <3>3
    <3> QED
      BY <3>4, <3>5
  <2>2. CASE FetchFails(k)
    <3> DEFINE n == channels[k].tries + 1
               c == [channels[k] EXCEPT !.tries = n,
                                        !.state = IF n = FetchRetries THEN "failed" ELSE "fetch"]
    <3>1. channels' = [channels EXCEPT ![k] = c]
      BY <1>4, <2>2 DEF FetchFails
    <3>2. /\ c \in [state : {"none", "fetch", "ok", "not ok", "failed"},
                    tries : 0 .. FetchRetries, round : Nat]
          /\ c.state # "none" /\ c.round = channels[k].round
          /\ c.state = "fetch" => c.tries < FetchRetries
      <4>1. c.tries = n /\ c.state = (IF n = FetchRetries THEN "failed" ELSE "fetch")
            /\ c.round = channels[k].round
        BY <1>5
      <4>2. n # FetchRetries => n < FetchRetries
        <5>1. n \in 0 .. FetchRetries /\ FetchRetries \in Nat
          BY <1>5
        <5> HIDE DEF n
        <5> QED
          BY SMTT(30), <5>1
      <4>3. c \in [state : {"none", "fetch", "ok", "not ok", "failed"},
                   tries : 0 .. FetchRetries, round : Nat]
        BY <1>5
      <4> HIDE DEF c, n
      <4> QED
        BY <4>1, <4>2, <4>3
    <3> HIDE DEF c
    <3> QED
      BY <3>1, <3>2
  <2> QED
    BY <2>1, <2>2 DEF Fetch
<1>7. /\ channels'[k] = c /\ \A l \in SubProtocol \ {k} : channels'[l] = channels[l]
      /\ channels' \in [SubProtocol -> [state : {"none", "fetch", "ok", "not ok", "failed"},
                                        tries : 0 .. FetchRetries, round : Nat]]
  BY <1>4, <1>6
<1>8. RunEpochTypeOK'
  BY <1>1, <1>2, <1>3, <1>7 DEF RunEpochTypeOK, SubmitRetries
<1>9. ReadInv'
  <2>1. \A l \in SubProtocol : channels'[l].state # "none" => channels[l].state # "none"
    BY <1>2, <1>7
  <2> QED
    BY <1>1, <1>2, <1>3, <2>1 DEF ReadInv
<1>10. AnswersAreFresh' /\ FetchInv'
  BY <1>1, <1>2, <1>6, <1>7 DEF AnswersAreFresh, FetchInv
<1>11. SubmitInv' /\ SentInv' /\ Ascending(buffer)' /\ InOrder'
  <2>1. SubmitInv'
    BY <1>2, <1>3 DEF RunEpochInv, SubmitInv, SubmitRetries
  <2>2. SentInv'
    BY <1>2, <1>3 DEF RunEpochInv, SentInv
  <2> QED
    BY <1>2, <2>1, <2>2 DEF RunEpochInv, Ascending, InOrder
<1> QED
  BY <1>8, <1>9, <1>10, <1>11 DEF RunEpochInv

LEMMA ReadAnswerStep ==
  ASSUME RunEpochInv, ReadAnswer
  PROVE  RunEpochInv'
<1>1. RunEpochTypeOK /\ FetchInv /\ AnswersAreFresh /\ ReadInv /\ Ascending(buffer)
  BY DEF RunEpochInv
<1>2. /\ UNCHANGED <<kind, runPc, round, copied, tries, accepted, landed>>
      /\ runPc = "read" /\ i \in SubProtocol /\ i' = i + 1
  BY DEF ReadAnswer, sendVars
<1>3. Rounds' = Rounds /\ Sent' = Sent
  BY <1>2 DEF Rounds, Sent
<1>4. channels \in [SubProtocol -> [state : {"none", "fetch", "ok", "not ok", "failed"},
                                    tries : 0 .. FetchRetries, round : Nat]]
      /\ buffer \in Seq(SubProtocol)
  BY <1>1 DEF RunEpochTypeOK
<1>5. /\ round < Rounds /\ copied = SubProtocol \ Sent
      /\ protocolsToSend = copied \ Range(buffer) /\ Range(buffer) \subseteq copied
      /\ \A k \in Range(buffer) : k < i
      /\ \A k \in SubProtocol : channels[k].state # "none" => k >= i /\ k \in protocolsToSend
  BY <1>1, <1>2 DEF ReadInv
<1>6. i \in Nat /\ i + 1 \in 1 .. NProtocols + 1 /\ SubProtocol \subseteq Nat
  BY SMTT(30), <1>2, SubmitterAssumption DEF SubProtocol
<1>7. Range(buffer) \subseteq Nat
  BY <1>4, <1>6, RangeEmpty
\* The answer of i is consumed, or there was none.
<1>8. /\ channels' \in [SubProtocol -> [state : {"none", "fetch", "ok", "not ok", "failed"},
                                        tries : 0 .. FetchRetries, round : Nat]]
      /\ channels'[i].state = "none"
      /\ \A k \in SubProtocol \ {i} : channels'[k] = channels[k]
  <2>1. CASE i \notin protocolsToSend
    <3>1. channels' = channels
      BY <2>1 DEF ReadAnswer
    <3> QED
      BY <1>2, <1>4, <1>5, <2>1, <3>1
  <2>2. CASE i \in protocolsToSend
    <3>1. channels' = [channels EXCEPT ![i] = NoFetch]
      BY <2>2 DEF ReadAnswer
    <3>2. NoFetch.state = "none"
          /\ NoFetch \in [state : {"none", "fetch", "ok", "not ok", "failed"},
                          tries : 0 .. FetchRetries, round : Nat]
      BY SMTT(30), SubmitterAssumption DEF NoFetch
    <3> QED
      BY <1>2, <1>4, <3>1, <3>2
  <2> QED
    BY <2>1, <2>2
<1>9. \/ UNCHANGED <<protocolsToSend, buffer>>
      \/ /\ i \in protocolsToSend
         /\ buffer' = Append(buffer, i) /\ protocolsToSend' = protocolsToSend \ {i}
  BY DEF ReadAnswer
<1>10. /\ buffer' \in Seq(SubProtocol) /\ Ascending(buffer')
       /\ \/ Range(buffer') = Range(buffer)
          \/ Range(buffer') = Range(buffer) \cup {i} /\ i \in copied
       /\ protocolsToSend' = copied \ Range(buffer')
       /\ i \in protocolsToSend' => i \in protocolsToSend
       /\ protocolsToSend \subseteq protocolsToSend' \cup {i}
  <2>1. CASE UNCHANGED <<protocolsToSend, buffer>>
    <3>1. protocolsToSend' = protocolsToSend /\ buffer' = buffer
      BY <2>1
    <3>2. Range(buffer') = Range(buffer)
      BY <3>1
    <3>3. buffer' \in Seq(SubProtocol) /\ Ascending(buffer')
      BY <1>1, <1>4, <3>1
    <3>4. protocolsToSend' = copied \ Range(buffer')
      BY <1>5, <3>1, <3>2
    <3>5. protocolsToSend \subseteq protocolsToSend' \cup {i}
      BY <3>1
    <3> QED
      BY <3>1, <3>2, <3>3, <3>4, <3>5
  <2>2. CASE /\ i \in protocolsToSend
             /\ buffer' = Append(buffer, i) /\ protocolsToSend' = protocolsToSend \ {i}
    <3>1. /\ Append(buffer, i) \in Seq(SubProtocol) /\ Ascending(Append(buffer, i))
          /\ Range(Append(buffer, i)) = Range(buffer) \cup {i}
      BY <1>1, <1>2, <1>4, <1>5, AppendAscending
    <3> QED
      BY <1>5, <2>2, <3>1
  <2> QED
    BY <1>9, <2>1, <2>2
<1>11. RunEpochTypeOK'
  <2>1. protocolsToSend' \subseteq SubProtocol
    BY <1>1, <1>10 DEF RunEpochTypeOK
  <2>2. i' \in 1 .. NProtocols + 1
    BY <1>2, <1>6
  <2> QED
    BY <1>1, <1>2, <1>3, <1>8, <1>10, <2>1, <2>2 DEF RunEpochTypeOK, SubmitRetries
<1>12. ReadInv'
  <2>1. \A k \in Range(buffer') : k < i'
    BY SMTT(30), <1>2, <1>5, <1>6, <1>7, <1>10
  <2>2. \A k \in SubProtocol : channels'[k].state # "none" => k >= i' /\ k \in protocolsToSend'
    <3> SUFFICES ASSUME NEW k \in SubProtocol, channels'[k].state # "none"
                 PROVE  k >= i' /\ k \in protocolsToSend'
      OBVIOUS
    <3>1. k # i
      BY <1>8
    <3>2. k >= i /\ k \in protocolsToSend
      BY <1>5, <1>8, <3>1
    <3> QED
      BY SMTT(30), <1>2, <1>6, <1>10, <3>1, <3>2
  <2>3. Range(buffer') \subseteq copied'
    BY <1>2, <1>5, <1>10
  <2> QED
    BY <1>2, <1>3, <1>5, <1>10, <2>1, <2>2, <2>3 DEF ReadInv
<1>13. AnswersAreFresh' /\ FetchInv'
  BY <1>1, <1>2, <1>8 DEF AnswersAreFresh, FetchInv
<1>14. SubmitInv' /\ SentInv' /\ InOrder'
  <2>1. SubmitInv'
    BY <1>2 DEF SubmitInv
  <2>2. SentInv'
    BY <1>2, <1>3 DEF RunEpochInv, SentInv
  <2> QED
    BY <1>2, <2>1, <2>2 DEF RunEpochInv, InOrder
<1> QED
  BY <1>10, <1>11, <1>12, <1>13, <1>14 DEF RunEpochInv

LEMMA AnswersReadStep ==
  ASSUME RunEpochInv, AnswersRead
  PROVE  RunEpochInv'
<1>1. RunEpochTypeOK /\ ReadInv /\ AnswersAreFresh
  BY DEF RunEpochInv
<1>2. /\ UNCHANGED <<kind, protocolsToSend, copied, channels, i, buffer, accepted, landed>>
      /\ runPc = "read" /\ i \notin SubProtocol /\ tries' = 0
      /\ IF protocolsToSend # copied
         THEN runPc' = "submit" /\ round' = round
         ELSE runPc' = "loop" /\ round' = round + 1
  BY DEF AnswersRead
<1>3. Rounds' = Rounds /\ Sent' = Sent /\ Range(buffer') = Range(buffer)
  BY <1>2 DEF Rounds, Sent
<1>4. /\ round < Rounds /\ copied = SubProtocol \ Sent
      /\ protocolsToSend = copied \ Range(buffer) /\ Range(buffer) \subseteq copied
      /\ \A k \in SubProtocol : channels[k].state # "none" => k >= i
  BY <1>1, <1>2 DEF ReadInv
<1>5. \A k \in SubProtocol : channels[k].state = "none"
  <2>1. i \in 1 .. NProtocols + 1
    BY <1>1 DEF RunEpochTypeOK
  <2>2. \A k \in SubProtocol : ~(k >= i)
    BY SMTT(30), <1>2, <2>1, SubmitterAssumption DEF SubProtocol
  <2> QED
    BY <1>4, <2>2
<1>6. round \in Nat /\ Rounds \in Nat /\ SubmitRetries \in Nat /\ SubmitRetries > 0
  BY <1>1, Bounds
<1>7. RunEpochTypeOK'
  <2>1. round' \in 0 .. Rounds'
    BY SMTT(30), <1>2, <1>3, <1>4, <1>6
  <2>2. tries' \in 0 .. SubmitRetries
    BY SMTT(30), <1>2, <1>6
  <2>3. runPc' \in {"loop", "read", "submit", "done"}
    BY <1>2
  <2> QED
    BY <1>1, <1>2, <2>1, <2>2, <2>3 DEF RunEpochTypeOK, SubmitRetries
<1>8. ReadInv' /\ AnswersAreFresh'
  BY <1>2, <1>5 DEF ReadInv, AnswersAreFresh
<1>9. SubmitInv'
  <2> SUFFICES ASSUME runPc' = "submit" PROVE SubmitInv'
    BY DEF SubmitInv
  <2>1. protocolsToSend # copied /\ round' = round
    BY <1>2
  <2>2. Range(buffer) # {}
    BY <1>4, <2>1
  <2>3. buffer # <<>>
    BY <1>1, <2>2, RangeEmpty DEF RunEpochTypeOK
  <2>4. round' < Rounds' /\ tries' < SubmitRetries
    BY <1>2, <1>3, <1>4, <1>6, <2>1
  <2> QED
    BY <1>2, <1>3, <1>4, <2>3, <2>4 DEF SubmitInv, SubmitRetries
<1>10. SentInv'
  <2>1. runPc' = "loop" => protocolsToSend' = SubProtocol \ Sent'
    BY <1>2, <1>3, <1>4
  <2>2. runPc' # "done"
    BY <1>2
  <2> QED
    BY <1>2, <2>1, <2>2 DEF RunEpochInv, SentInv
<1>11. FetchInv' /\ Ascending(buffer)' /\ InOrder'
  BY <1>2 DEF RunEpochInv, FetchInv, Ascending, InOrder
<1> QED
  BY <1>7, <1>8, <1>9, <1>10, <1>11 DEF RunEpochInv

LEMMA SubmitSucceedsStep ==
  ASSUME RunEpochInv, SubmitSucceeds
  PROVE  RunEpochInv'
<1>1. RunEpochTypeOK /\ SubmitInv /\ AnswersAreFresh /\ SentInv /\ Ascending(buffer) /\ InOrder
  BY DEF RunEpochInv
<1>2. /\ UNCHANGED <<kind, protocolsToSend, copied, channels, i, buffer, tries>>
      /\ runPc = "submit" /\ runPc' = "loop" /\ round' = round + 1
      /\ accepted' = Append(accepted, buffer) /\ landed' = Append(landed, buffer)
  BY DEF SubmitSucceeds
<1>3. Rounds' = Rounds
  BY <1>2 DEF Rounds
<1>4. /\ round < Rounds /\ copied = SubProtocol \ Sent
      /\ protocolsToSend = copied \ Range(buffer) /\ Range(buffer) \subseteq copied
      /\ buffer # <<>>
  BY <1>1, <1>2 DEF SubmitInv
<1>5. round \in Nat /\ Rounds \in Nat
  BY <1>1, Bounds
<1>6. /\ accepted \in Seq(Seq(SubProtocol)) /\ landed \in Seq(Seq(SubProtocol))
      /\ buffer \in Seq(SubProtocol)
  BY <1>1 DEF RunEpochTypeOK
<1>a. PICK a : a = Len(accepted) + 1
  OBVIOUS
<1>l. PICK l : l = Len(landed) + 1
  OBVIOUS
<1>7. /\ accepted' \in Seq(Seq(SubProtocol))
      /\ DOMAIN accepted' = DOMAIN accepted \cup {a} /\ a \notin DOMAIN accepted
      /\ \A n \in DOMAIN accepted : accepted'[n] = accepted[n]
      /\ accepted'[a] = buffer
  <2>1. /\ Append(accepted, buffer) \in Seq(Seq(SubProtocol))
        /\ DOMAIN Append(accepted, buffer) = DOMAIN accepted \cup {Len(accepted) + 1}
        /\ Len(accepted) + 1 \notin DOMAIN accepted
        /\ \A n \in DOMAIN accepted : Append(accepted, buffer)[n] = accepted[n]
        /\ Append(accepted, buffer)[Len(accepted) + 1] = buffer
    BY <1>6, AppendTx
  <2>2. accepted' = Append(accepted, buffer)
    BY <1>2
  <2> QED
    BY <1>a, <2>1, <2>2
<1>8. /\ landed' \in Seq(Seq(SubProtocol))
      /\ DOMAIN landed' = DOMAIN landed \cup {l}
      /\ \A n \in DOMAIN landed : landed'[n] = landed[n]
      /\ landed'[l] = buffer
  <2>1. /\ Append(landed, buffer) \in Seq(Seq(SubProtocol))
        /\ DOMAIN Append(landed, buffer) = DOMAIN landed \cup {Len(landed) + 1}
        /\ Len(landed) + 1 \notin DOMAIN landed
        /\ \A n \in DOMAIN landed : Append(landed, buffer)[n] = landed[n]
        /\ Append(landed, buffer)[Len(landed) + 1] = buffer
    BY <1>6, AppendTx
  <2>2. landed' = Append(landed, buffer)
    BY <1>2
  <2> QED
    BY <1>l, <2>1, <2>2
<1>9. RunEpochTypeOK'
  <2>1. round' \in 0 .. Rounds'
    BY SMTT(30), <1>2, <1>3, <1>4, <1>5
  <2>2. runPc' \in {"loop", "read", "submit", "done"}
    BY <1>2
  <2> QED
    BY <1>1, <1>2, <1>7, <1>8, <2>1, <2>2 DEF RunEpochTypeOK, SubmitRetries
<1>10. \A n \in DOMAIN accepted : Range(accepted[n]) \subseteq Sent
  BY DEF Sent
<1>11. \A n \in DOMAIN accepted : Range(accepted[n]) \cap Range(buffer) = {}
  BY <1>4, <1>10
<1>12. Sent' = Sent \cup Range(buffer)
  <2>1. Sent' = UNION {Range(accepted'[n]) : n \in DOMAIN accepted'}
    BY DEF Sent
  <2>2. \A z : z \in Sent' <=> \E n \in DOMAIN accepted' : z \in Range(accepted'[n])
    BY <2>1
  <2>3. \A z : z \in Sent <=> \E n \in DOMAIN accepted : z \in Range(accepted[n])
    BY DEF Sent
  <2>4. \A z : (\E n \in DOMAIN accepted' : z \in Range(accepted'[n]))
               <=> (\E n \in DOMAIN accepted : z \in Range(accepted[n])) \/ z \in Range(buffer)
    BY <1>7
  <2>5. \A z : z \in Sent' <=> z \in Sent \/ z \in Range(buffer)
    BY <2>2, <2>3, <2>4
  <2> QED
    BY <2>5
<1>13. SentInv'
  <2>1. protocolsToSend' = SubProtocol \ Sent'
    BY <1>2, <1>4, <1>12
  <2>2. \A n \in DOMAIN accepted' : accepted'[n] # <<>> /\ Ascending(accepted'[n])
    BY <1>1, <1>4, <1>7 DEF SentInv
  <2>3. ASSUME NEW n \in DOMAIN accepted', NEW k \in DOMAIN accepted', n # k
        PROVE  Range(accepted'[n]) \cap Range(accepted'[k]) = {}
    <3>1. CASE n \in DOMAIN accepted /\ k \in DOMAIN accepted
      BY <1>1, <1>7, <2>3, <3>1 DEF SentInv
    <3>2. CASE n = a /\ k \in DOMAIN accepted
      BY <1>7, <1>11, <3>2
    <3>3. CASE n \in DOMAIN accepted /\ k = a
      BY <1>7, <1>11, <3>3
    <3> QED
      BY <1>7, <2>3, <3>1, <3>2, <3>3
  <2> QED
    BY <2>1, <2>2, <2>3 DEF SentInv
<1>14. InOrder'
  BY <1>1, <1>8 DEF InOrder, Ascending
<1>15. ReadInv' /\ SubmitInv'
  BY <1>2 DEF ReadInv, SubmitInv
<1>16. AnswersAreFresh' /\ FetchInv' /\ Ascending(buffer)'
  BY <1>1, <1>2 DEF RunEpochInv, AnswersAreFresh, FetchInv, Ascending
<1> QED
  BY <1>9, <1>13, <1>14, <1>15, <1>16 DEF RunEpochInv

LEMMA SubmitFailsStep ==
  ASSUME RunEpochInv, SubmitFails
  PROVE  RunEpochInv'
<1>1. RunEpochTypeOK /\ SubmitInv /\ AnswersAreFresh /\ SentInv /\ Ascending(buffer) /\ InOrder
  BY DEF RunEpochInv
<1>2. /\ UNCHANGED <<kind, copied, channels, i, buffer, accepted>>
      /\ runPc = "submit" /\ tries' = tries + 1 /\ landed' \in {landed, Append(landed, buffer)}
      /\ IF tries' < SubmitRetries
         THEN runPc' = runPc /\ round' = round /\ protocolsToSend' = protocolsToSend
         ELSE runPc' = "loop" /\ round' = round + 1 /\ protocolsToSend' = copied
  BY DEF SubmitFails
<1>3. Rounds' = Rounds /\ Sent' = Sent /\ Range(buffer') = Range(buffer)
  BY <1>2 DEF Rounds, Sent
<1>4. /\ round < Rounds /\ tries < SubmitRetries /\ copied = SubProtocol \ Sent
      /\ protocolsToSend = copied \ Range(buffer) /\ Range(buffer) \subseteq copied
      /\ buffer # <<>>
  BY <1>1, <1>2 DEF SubmitInv
<1>5. round \in Nat /\ Rounds \in Nat /\ tries \in Nat /\ SubmitRetries \in Nat
  BY <1>1, Bounds
<1>6. /\ landed \in Seq(Seq(SubProtocol)) /\ buffer \in Seq(SubProtocol)
      /\ protocolsToSend \subseteq SubProtocol /\ copied \subseteq SubProtocol
  BY <1>1 DEF RunEpochTypeOK
<1>7. /\ landed' \in Seq(Seq(SubProtocol))
      /\ \A n \in DOMAIN landed' :
           (n \in DOMAIN landed /\ landed'[n] = landed[n]) \/ landed'[n] = buffer
  <2>1. /\ Append(landed, buffer) \in Seq(Seq(SubProtocol))
        /\ DOMAIN Append(landed, buffer) = DOMAIN landed \cup {Len(landed) + 1}
        /\ \A n \in DOMAIN landed : Append(landed, buffer)[n] = landed[n]
        /\ Append(landed, buffer)[Len(landed) + 1] = buffer
    BY <1>6, AppendTx
  <2>2. CASE landed' = landed
    BY <1>6, <2>2
  <2>3. CASE landed' = Append(landed, buffer)
    BY <2>1, <2>3
  <2> QED
    BY <1>2, <2>2, <2>3
<1>8. RunEpochTypeOK'
  <2>1. round' \in 0 .. Rounds'
    BY SMTT(30), <1>2, <1>3, <1>4, <1>5
  <2>2. runPc' \in {"loop", "read", "submit", "done"} /\ protocolsToSend' \subseteq SubProtocol
    BY <1>2, <1>6
  <2>3. tries' \in 0 .. SubmitRetries
    BY SMTT(30), <1>2, <1>4, <1>5
  <2> QED
    BY <1>1, <1>2, <1>7, <2>1, <2>2, <2>3 DEF RunEpochTypeOK, SubmitRetries
<1>9. SubmitInv'
  <2> SUFFICES ASSUME runPc' = "submit" PROVE SubmitInv'
    BY DEF SubmitInv
  <2>1. tries' < SubmitRetries /\ round' = round /\ protocolsToSend' = protocolsToSend
    BY <1>2
  <2> QED
    BY <1>2, <1>3, <1>4, <2>1 DEF SubmitInv, SubmitRetries
<1>10. SentInv'
  <2>1. runPc' \in {"loop", "done"} => protocolsToSend' = SubProtocol \ Sent'
    BY <1>2, <1>3, <1>4
  <2> QED
    BY <1>1, <1>2, <2>1 DEF SentInv
<1>11. InOrder'
  BY <1>1, <1>7 DEF InOrder, Ascending
<1>12. ReadInv'
  BY <1>2 DEF ReadInv
<1>13. AnswersAreFresh' /\ FetchInv' /\ Ascending(buffer)'
  <2>1. \A k \in SubProtocol : channels'[k].state = "none"
    BY <1>1, <1>2 DEF AnswersAreFresh
  <2> QED
    BY <1>1, <1>2, <2>1 DEF AnswersAreFresh, FetchInv, Ascending
<1> QED
  BY <1>8, <1>9, <1>10, <1>11, <1>12, <1>13 DEF RunEpochInv

LEMMA NextInv == RunEpochInv /\ [RunEpochNext]_runEpochVars => RunEpochInv'
<1> SUFFICES ASSUME RunEpochInv, [RunEpochNext]_runEpochVars PROVE RunEpochInv'
  OBVIOUS
<1>1. CASE Return
  <2>1. /\ UNCHANGED <<kind, round, protocolsToSend, copied, channels, i, buffer, tries, accepted, landed>>
        /\ runPc = "loop" /\ runPc' = "done"
    BY <1>1 DEF Return, sendVars
  <2>2. RunEpochTypeOK'
    BY <2>1 DEF RunEpochInv, RunEpochTypeOK, Rounds, SubmitRetries
  <2>3. SentInv'
    BY <2>1 DEF RunEpochInv, SentInv, Sent
  <2>4. ReadInv' /\ SubmitInv' /\ AnswersAreFresh'
    BY <2>1 DEF RunEpochInv, ReadInv, SubmitInv, AnswersAreFresh
  <2>5. FetchInv' /\ Ascending(buffer)' /\ InOrder'
    BY <2>1 DEF RunEpochInv, FetchInv, Ascending, InOrder
  <2> QED
    BY <2>2, <2>3, <2>4, <2>5 DEF RunEpochInv
<1>2. CASE UNCHANGED runEpochVars
  <2>1. UNCHANGED <<kind, runPc, round, protocolsToSend, copied, channels, i, buffer, tries, accepted, landed>>
    BY <1>2 DEF runEpochVars, sendVars
  <2>2. RunEpochTypeOK'
    BY <2>1 DEF RunEpochInv, RunEpochTypeOK, Rounds, SubmitRetries
  <2>3. SentInv' /\ ReadInv' /\ SubmitInv'
    <3>1. Rounds' = Rounds /\ Sent' = Sent
      BY <2>1 DEF Rounds, Sent
    <3>2. SentInv'
      BY <2>1, <3>1 DEF RunEpochInv, SentInv
    <3>3. ReadInv'
      BY <2>1, <3>1 DEF RunEpochInv, ReadInv
    <3>4. SubmitInv'
      BY <2>1, <3>1 DEF RunEpochInv, SubmitInv, SubmitRetries
    <3> QED
      BY <3>2, <3>3, <3>4
  <2>4. AnswersAreFresh' /\ FetchInv' /\ Ascending(buffer)' /\ InOrder'
    BY <2>1 DEF RunEpochInv, AnswersAreFresh, FetchInv, Ascending, InOrder
  <2> QED
    BY <2>2, <2>3, <2>4 DEF RunEpochInv
<1> QED
  BY <1>1, <1>2, StartRoundStep, FetchStep, ReadAnswerStep, AnswersReadStep, SubmitSucceedsStep,
     SubmitFailsStep DEF RunEpochNext, RunEpoch

(***************************************************************************)
(* The results.                                                            *)
(***************************************************************************)

\* RunEpoch (submitter.go): a sub-protocol's data is in at most one successful
\* transaction, between rounds those in none are to be sent, and no transaction
\* is sent for a round without data.
THEOREM ToSendTheorem == RunEpochSpec => []ToSendIsUnsent
<1>1. RunEpochInv => ToSendIsUnsent
  <2> SUFFICES ASSUME RunEpochInv PROVE ToSendIsUnsent
    OBVIOUS
  <2>1. \A n \in DOMAIN accepted : IsInjective(accepted[n])
    <3>1. ASSUME NEW n \in DOMAIN accepted PROVE IsInjective(accepted[n])
      <4>1. accepted \in Seq(Seq(SubProtocol))
        BY DEF RunEpochInv, RunEpochTypeOK
      <4>2. accepted[n] \in Seq(SubProtocol)
        BY SMTT(30), <4>1
      <4>3. Ascending(accepted[n])
        BY DEF RunEpochInv, SentInv
      <4> QED
        BY <4>2, <4>3, AscendingInjective
    <3> QED
      BY <3>1
  <2> QED
    BY <2>1 DEF RunEpochInv, SentInv, ToSendIsUnsent
<1> QED
  BY <1>1, RunEpochInitInv, NextInv, PTL DEF RunEpochSpec

\* getDataWithRetry: every answer is read in the round that asked for it, so no
\* goroutine is left behind and no old answer is used.
THEOREM FreshTheorem == RunEpochSpec => []AnswersAreFresh
<1>1. RunEpochInv => AnswersAreFresh
  BY DEF RunEpochInv
<1> QED
  BY <1>1, RunEpochInitInv, NextInv, PTL DEF RunEpochSpec

\* RunEpoch reads the answers in the order of the sub-protocols: every transaction
\* on the chain has its payloads in that order.
THEOREM InOrderTheorem == RunEpochSpec => []InOrder
<1>1. RunEpochInv => InOrder
  BY DEF RunEpochInv
<1> QED
  BY <1>1, RunEpochInitInv, NextInv, PTL DEF RunEpochSpec
==============================================================================
