---------------------------- MODULE ProtocolClient ----------------------------
(***************************************************************************)
(* ProtocolClient.Run (client/protocol/protocol_client.go) with the        *)
(* EpochTicker of utils/time.go: it waits until the voter is registered,   *)
(* then starts, at every voting epoch, one goroutine for each submitter    *)
(* that sleeps and runs the submitter.  submit2 reveals in the following   *)
(* epoch what submit1 committed to, so a shutdown waits, with a            *)
(* sync.WaitGroup, for the submit2 of every submit1 that was run.          *)
(*                                                                         *)
(* RunEpoch of a submitter is a step that begins and, some time later, a   *)
(* step that ends (module Submitters has the inside).  The other           *)
(* clients of the process stop in their own time once the context is       *)
(* cancelled; the process exits when all have stopped.                     *)
(***************************************************************************)
EXTENDS Epoch, FiniteSets

CONSTANTS
  Enabled,       \* submitters that are configured
  StartOffset,   \* startOffset of each submitter, in ticks
  Period,        \* ticks per voting epoch; epoch 0 starts at tick 0
  RewardLength,  \* ticks per reward epoch
  MaxEpoch,      \* bound: last voting epoch of the ticker
  MaxTime        \* bound: last tick

Submitter == {"submit1", "submit2", "submitSignatures"}
VotingEpoch == 1 .. MaxEpoch

ASSUME ProtocolAssumption ==
  /\ Enabled \subseteq Submitter
  /\ StartOffset \in [Submitter -> Nat]
  /\ Period \in Nat \ {0} /\ RewardLength \in Nat \ {0}
  /\ MaxEpoch \in Nat /\ MaxTime \in Nat

\* The commit of an epoch starts before the reveal of that epoch does.
ASSUME OffsetAssumption == StartOffset["submit1"] < Period + StartOffset["submit2"]

VARIABLES
  now,         \* wall clock
  registered,  \* reward epochs for which the voter registry has the voter
  pc,          \* control of Run
  checked,     \* currentEpoch of waitUntilRegistered
  tickEpoch,   \* epoch the ticker delivers next
  go,          \* goroutine of each submitter and epoch
  wake,        \* when that goroutine's sleep is over
  began,       \* when that goroutine called RunEpoch, or -1
  wg,          \* counter of the WaitGroup
  cancelled,   \* ctx.Done() is closed
  others       \* the other clients of the process are running

goVars == <<go, wake, began, wg>>
vars == <<now, registered, pc, checked, tickEpoch, goVars, cancelled, others>>

\* Mutant of SleepTime: submit2 in the same epoch.
SleepTimeSameEpoch(s) == StartOffset[s]

\* Mutant of SleepTime: submit1 sleeps for a whole epoch as well.
SleepTimeBoth(s) == StartOffset[s] + IF s # "submitSignatures" THEN Period ELSE 0

\* Submit2 sleeps for the rest of the epoch as well.
SleepTime(s) == StartOffset[s] + IF s = "submit2" THEN Period ELSE 0

Paired == {"submit1", "submit2"} \subseteq Enabled
Exited == pc \in {"panic", "exit"}

(***************************************************************************)
(* The environment.                                                        *)
(***************************************************************************)

\* The ticker has an epoch for the loop of Run.
TickerReady ==
  pc = "select" /\ tickEpoch \in VotingEpoch /\ StartTime(tickEpoch, 0, Period) <= now

\* Goroutines whose sleep is over, and the ticker, run before the clock moves on.
Tick ==
  /\ now < MaxTime
  /\ ~Exited
  /\ ~TickerReady
  /\ \A s \in Submitter, e \in VotingEpoch : go[s][e] = "sleep" => now < wake[s][e]
  /\ now' = now + 1
  /\ UNCHANGED <<registered, pc, checked, tickEpoch, goVars, cancelled, others>>

\* The voter is registered for the coming reward epoch.
Register ==
  LET r == EpochIndex(now, 0, RewardLength) + 1
  IN  /\ ~Exited
      /\ r \notin registered
      /\ registered' = registered \cup {r}
      /\ UNCHANGED <<now, pc, checked, tickEpoch, goVars, cancelled, others>>

\* A signal, or another client that failed.
Cancel ==
  /\ ~cancelled
  /\ cancelled' = TRUE
  /\ UNCHANGED <<now, registered, pc, checked, tickEpoch, goVars, others>>

OthersStop ==
  /\ cancelled
  /\ others
  /\ others' = FALSE
  /\ UNCHANGED <<now, registered, pc, checked, tickEpoch, goVars, cancelled>>

\* wg.Wait of main.
Exit ==
  /\ pc \in {"returned", "failed"}
  /\ ~others
  /\ pc' = "exit"
  /\ UNCHANGED <<now, registered, checked, tickEpoch, goVars, cancelled, others>>

(***************************************************************************)
(* waitUntilRegistered.                                                    *)
(***************************************************************************)

\* The reward epoch is read, then the registry is asked.
ReadRewardEpoch ==
  /\ pc = "start"
  /\ checked' = EpochIndex(now, 0, RewardLength)
  /\ pc' = "ask"
  /\ UNCHANGED <<now, registered, tickEpoch, goVars, cancelled, others>>

\* NewEpochTicker: its first epoch is the next one.
NewEpochTicker == EpochIndex(now, 0, Period) + 1

\* The answer may arrive long after the epoch was read, but not through a cancelled
\* context.  If the voter is registered the ticker is made.
IsRegistered ==
  /\ pc = "ask"
  /\ ~cancelled
  /\ IF checked \in registered
     THEN /\ pc' = "select"
          /\ tickEpoch' = NewEpochTicker
     ELSE /\ pc' = "next"
          /\ UNCHANGED tickEpoch
  /\ UNCHANGED <<now, registered, checked, goVars, cancelled, others>>

\* The retries of the question end with an error, at the latest when the context is
\* cancelled; the error also cancels the others.
RegistryError ==
  /\ pc = "ask"
  /\ pc' = "failed"
  /\ cancelled' = TRUE
  /\ UNCHANGED <<now, registered, checked, tickEpoch, goVars, others>>

\* Mutant of WaitForNextRewardEpoch: the same reward epoch is asked about again.
WaitForNextRewardEpochStale ==
  /\ pc = "next"
  /\ \/ /\ StartTime(checked + 1, 0, RewardLength) <= now
        /\ pc' = "ask"
     \/ /\ StartTime(checked + 1, 0, RewardLength) >= now
        /\ cancelled
        /\ pc' = "returned"
  /\ UNCHANGED <<now, registered, checked, tickEpoch, goVars, cancelled, others>>

\* Mutant of WaitForNextRewardEpoch: ctx.Done() is not selected.
WaitForNextRewardEpochNoDone ==
  /\ pc = "next"
  /\ StartTime(checked + 1, 0, RewardLength) <= now
  /\ pc' = "start"
  /\ UNCHANGED <<now, registered, checked, tickEpoch, goVars, cancelled, others>>

WaitForNextRewardEpoch ==
  /\ pc = "next"
  /\ \/ /\ StartTime(checked + 1, 0, RewardLength) <= now
        /\ pc' = "start"
     \/ /\ StartTime(checked + 1, 0, RewardLength) >= now
        /\ cancelled
        /\ pc' = "returned"
  /\ UNCHANGED <<now, registered, checked, tickEpoch, goVars, cancelled, others>>

(***************************************************************************)
(* The loop of Run and its goroutines.                                     *)
(***************************************************************************)

\* Mutant of TickerTick: submit2 only where there is no submit1.
TickerTickElse ==
  /\ TickerReady
  /\ go' = [s \in Submitter |-> IF s \in Enabled /\ (s = "submit2" => "submit1" \notin Enabled)
                                THEN [go[s] EXCEPT ![tickEpoch] = "sleep"] ELSE go[s]]
  /\ wake' = [s \in Submitter |-> [wake[s] EXCEPT ![tickEpoch] = now + SleepTime(s)]]
  /\ tickEpoch' = tickEpoch + 1
  /\ UNCHANGED <<now, registered, pc, checked, began, wg, cancelled, others>>

\* The ticker delivers an epoch and every submitter gets a goroutine.
TickerTick ==
  /\ TickerReady
  /\ go' = [s \in Submitter |-> IF s \in Enabled THEN [go[s] EXCEPT ![tickEpoch] = "sleep"] ELSE go[s]]
  /\ wake' = [s \in Submitter |-> [wake[s] EXCEPT ![tickEpoch] = now + SleepTime(s)]]
  /\ tickEpoch' = tickEpoch + 1
  /\ UNCHANGED <<now, registered, pc, checked, began, wg, cancelled, others>>

\* Mutant of WakeUp: the WaitGroup counts the reveals that run.
WakeUpCountsReveal(s, e) ==
  /\ ~Exited
  /\ go[s][e] = "sleep"
  /\ wake[s][e] <= now
  /\ go' = [go EXCEPT ![s][e] = "run"]
  /\ began' = [began EXCEPT ![s][e] = now]
  /\ wg' = IF s = "submit2" /\ Paired THEN wg + 1 ELSE wg
  /\ UNCHANGED <<now, registered, pc, checked, tickEpoch, wake, cancelled, others>>

\* The sleep is over: wg.Add for submit1, then RunEpoch begins.
WakeUp(s, e) ==
  /\ ~Exited
  /\ go[s][e] = "sleep"
  /\ wake[s][e] <= now
  /\ go' = [go EXCEPT ![s][e] = "run"]
  /\ began' = [began EXCEPT ![s][e] = now]
  /\ wg' = IF s = "submit1" /\ Paired THEN wg + 1 ELSE wg
  /\ UNCHANGED <<now, registered, pc, checked, tickEpoch, wake, cancelled, others>>

\* RunEpoch returns; wg.Done for submit2, which panics below zero and releases
\* the waiting Run at zero.
RunEpochEnds(s, e) ==
  LET count == IF s = "submit2" /\ Paired THEN wg - 1 ELSE wg
  IN  /\ ~Exited
      /\ go[s][e] = "run"
      /\ go' = [go EXCEPT ![s][e] = "done"]
      /\ wg' = count
      /\ pc' = CASE count < 0 -> "panic"
                 [] count = 0 /\ wg > 0 /\ pc = "waiting" -> "released"
                 [] OTHER -> pc
      /\ UNCHANGED <<now, registered, checked, tickEpoch, wake, began, cancelled, others>>

\* Mutant of StopSubmitters: no wait.
StopSubmittersAtOnce ==
  /\ pc = "select"
  /\ cancelled
  /\ pc' = "returned"
  /\ UNCHANGED <<now, registered, checked, tickEpoch, goVars, cancelled, others>>

\* ctx.Done() is selected; wg.Wait returns at once if the counter is zero.
StopSubmitters ==
  /\ pc = "select"
  /\ cancelled
  /\ pc' = IF Paired /\ wg > 0 THEN "waiting" ELSE "returned"
  /\ UNCHANGED <<now, registered, checked, tickEpoch, goVars, cancelled, others>>

\* The released wg.Wait panics if the counter is in use again.
WaitReturns ==
  /\ pc = "released"
  /\ pc' = IF wg = 0 THEN "returned" ELSE "panic"
  /\ UNCHANGED <<now, registered, checked, tickEpoch, goVars, cancelled, others>>

(***************************************************************************)
(* The specification.                                                      *)
(***************************************************************************)

Init ==
  /\ now = 0
  /\ registered \in SUBSET {0}
  /\ pc = "start" /\ checked = 0 /\ tickEpoch = 0
  /\ go = [s \in Submitter |-> [e \in VotingEpoch |-> "none"]]
  /\ wake = [s \in Submitter |-> [e \in VotingEpoch |-> 0]]
  /\ began = [s \in Submitter |-> [e \in VotingEpoch |-> -1]]
  /\ wg = 0 /\ cancelled = FALSE /\ others = TRUE

Environment == Tick \/ Register \/ Cancel \/ OthersStop \/ Exit

Registration == ReadRewardEpoch \/ IsRegistered \/ RegistryError \/ WaitForNextRewardEpoch

Run == Registration \/ TickerTick \/ StopSubmitters \/ WaitReturns

Goroutine(s, e) == WakeUp(s, e) \/ RunEpochEnds(s, e)

Next == Environment \/ Run \/ \E s \in Submitter, e \in VotingEpoch : Goroutine(s, e)

Spec == Init /\ [][Next]_vars

\* Time passes, goroutines are scheduled, RunEpoch returns, and the question to the
\* registry ends with an answer or an error.
FairSpec ==
  /\ Spec
  /\ WF_vars(Tick) /\ WF_vars(Exit) /\ WF_vars(OthersStop)
  /\ WF_vars(Registration) /\ WF_vars(TickerTick)
  /\ WF_vars(StopSubmitters) /\ WF_vars(WaitReturns)
  /\ \A s \in Submitter, e \in VotingEpoch : WF_vars(Goroutine(s, e))

(***************************************************************************)
(* Properties.                                                             *)
(***************************************************************************)

TypeOK ==
  /\ now \in Nat /\ registered \subseteq Nat
  /\ pc \in {"start", "ask", "next", "select", "waiting", "released",
             "returned", "failed", "exit", "panic"}
  /\ checked \in Nat /\ tickEpoch \in Nat
  /\ go \in [Submitter -> [VotingEpoch -> {"none", "sleep", "run", "done"}]]
  /\ wake \in [Submitter -> [VotingEpoch -> Nat]]
  /\ began \in [Submitter -> [VotingEpoch -> Nat \cup {-1}]]
  /\ wg \in Int
  /\ cancelled \in BOOLEAN /\ others \in BOOLEAN

\* Epochs whose data submit1 has committed to and submit2 has not yet revealed.
Open ==
  {e \in VotingEpoch : go["submit1"][e] \in {"run", "done"} /\ go["submit2"][e] # "done"}

\* The counter, which knows nothing of epochs, is the number of commits that
\* still await their reveal; in particular it is never below zero.
CounterIsOpen == Paired => wg = Cardinality(Open)

\* "Making sure both submit1 & submit2 have completed": when Run returns from a
\* shutdown no commit that was begun is without its reveal.
NoneOpenOnReturn == [][pc # "returned" /\ pc' = "returned" /\ Paired => Open = {}]_vars

\* With submit2 later in its epoch than submit1 in its own, the counter
\* does not come back from zero while the shutdown waits: no panic.
NoPanic == pc # "panic"

\* A reveal begins in or after the epoch that follows the one it reveals, and the
\* commit of that epoch has begun before it.
RevealAfterEpoch ==
  \A e \in VotingEpoch : began["submit2"][e] >= 0 =>
    /\ began["submit2"][e] >= (e + 1) * Period + StartOffset["submit2"]
    /\ "submit1" \in Enabled => began["submit1"][e] \in 0 .. began["submit2"][e] - 1

\* "if running submitter1, and submitter2 is enabled, we need to wait for it to
\* complete before shutdown": the process does not exit with a commit open.
NoneOpenOnExit == pc = "exit" /\ Paired => Open = {}

\* A cancelled client stops, also while reveals are still to come.
ShutdownCompletes == cancelled ~> Exited

\* Every voting epoch the ticker comes to is committed to, revealed and signed for,
\* unless the client is stopped.
EpochSubmitted ==
  \A e \in VotingEpoch :
    (pc = "select" /\ tickEpoch = e) ~> (cancelled \/ \A s \in Enabled : go[s][e] = "done")

\* The last reward epoch that begins within the bound.
LastRewardEpoch == EpochIndex(MaxTime, 0, RewardLength)

\* A voter registered for a reward epoch ahead is let in, however late the answers
\* about earlier epochs came and whatever epoch began in the meantime, unless the
\* client is stopped.
RegisteredIsLetIn ==
  LastRewardEpoch \in registered ~> (pc \notin {"start", "ask", "next"} \/ cancelled)
==============================================================================
