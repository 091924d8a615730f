----------------------------- MODULE EpochClient -----------------------------
(***************************************************************************)
(* The reward epoch client (client/epoch): four listener goroutines poll   *)
(* the indexer database for events and hand them, one at a time over       *)
(* unbuffered channels, to the loop of RunContext, which answers each with *)
(* a transaction.  What was delivered is remembered only as the timestamp  *)
(* of the last event (eventRangeStart); a restart computes it anew.  When  *)
(* the client starts and ends is up to the process (module Process).       *)
(*                                                                         *)
(* The contracts are the environment.  Reward epochs follow the schedule;  *)
(* in epoch e - 1 the vote power block of e is selected and its signing    *)
(* policy initialized; some time after epoch e the uptime vote of e is     *)
(* enabled, and it is signed until a signature reaches the threshold.      *)
(* Events of one kind have different timestamps.                           *)
(***************************************************************************)
EXTENDS Epoch, Sequences

CONSTANTS
  Enablings,         \* possible configurations: the sets of enabled features
  Window,            \* signing_window of uptime votes and of rewards
  Length,            \* ticks per reward epoch; epoch 0 starts at tick 0
  MaxTxSendRetries,
  Malformed,         \* events (kind and epoch) whose log cannot be parsed
  Horizon(_),        \* bound: the last tick under each configuration
  MaxTime            \* bound: the latest of them

Feature == {"registration", "uptime", "rewards", "protocol", "finalizer"}
Kind == {"vpbs", "policy", "uptime", "signed"}
RewardEpochs == 0 .. MaxTime \div Length + 1

ASSUME EpochClientAssumption ==
  /\ Enablings \subseteq SUBSET Feature
  /\ Window \in Nat /\ Length \in Nat \ {0} /\ MaxTxSendRetries \in Nat \ {0}
  /\ Malformed \subseteq Kind \X RewardEpochs
  /\ MaxTime \in Nat /\ \A f \in Enablings : Horizon(f) \in 0 .. MaxTime

Event == [kind : Kind, epoch : RewardEpochs, thresholdReached : BOOLEAN, ts : Nat]

VARIABLES
  enabled,    \* the enabled features of the configuration
  now,        \* wall clock
  logs,       \* events in the indexer database
  running,    \* RunContext runs
  startEpoch, \* currentEpoch of the uptime and reward listeners
  cursor,     \* eventRangeStart of each listener
  fetched,    \* logs each listener still has to go through, by timestamp
  handling,   \* the event RunContext is at work on: <<>> or <<event>>
  pc,         \* its step
  tries,      \* failed attempts of the transaction
  handled     \* history: events received since the client started

listenVars == <<startEpoch, cursor, fetched>>
loopVars == <<handling, pc, tries, handled>>
epochVars == <<enabled, now, logs, running, listenVars, loopVars>>

Current == EpochIndex(now, 0, Length)
Listening(k) ==
  CASE k \in {"vpbs", "policy"} -> "registration" \in enabled
    [] k = "uptime" -> "uptime" \in enabled
    [] k = "signed" -> "rewards" \in enabled
Emitted(k, e) == \E l \in logs : l.kind = k /\ l.epoch = e /\ l.thresholdReached

(***************************************************************************)
(* The environment.                                                        *)
(***************************************************************************)

Tick ==
  /\ now < Horizon(enabled)
  /\ now' = now + 1
  /\ UNCHANGED <<enabled, logs, running, listenVars, loopVars>>

\* An event is emitted and indexed.  Only signatures of uptime votes are emitted
\* more than once per epoch, until one of them reaches the threshold.
Emit(k, e, threshold) ==
  /\ Listening(k)
  /\ ~Emitted(k, e)
  /\ ~threshold => k = "signed" /\ ~\E l \in logs : l.kind = k /\ l.epoch = e
  /\ CASE k = "vpbs" -> Current = e - 1
       [] k = "policy" -> Current = e - 1 /\ Emitted("vpbs", e)
       [] k \in {"uptime", "signed"} -> now > EndTime(e, 0, Length)
  /\ \A l \in logs : l.kind = k => l.ts < now
  /\ logs' = logs \cup {[kind |-> k, epoch |-> e, thresholdReached |-> threshold, ts |-> now]}
  /\ UNCHANGED <<enabled, now, running, listenVars, loopVars>>

(***************************************************************************)
(* Start and end.                                                          *)
(***************************************************************************)

\* Mutant of RangeStart: only events from now on.
RangeStartNow(k) == now

\* eventRangeStart of a listener that starts now.
RangeStart(k) ==
  StartTime(IF k \in {"vpbs", "policy"} THEN Current - 1 ELSE Current - Window + 1, 0, Length)

\* RunContext starts its listeners.
Start ==
  /\ ~running
  /\ running' = TRUE
  /\ startEpoch' = Current
  /\ cursor' = [k \in Kind |-> RangeStart(k)]
  /\ fetched' = [k \in Kind |-> {}]
  /\ handling' = <<>> /\ pc' = "select" /\ tries' = 0 /\ handled' = {}
  /\ UNCHANGED <<enabled, now, logs>>

\* Mutant of Return: handlers run in goroutines of their own.
ReturnAnywhere ==
  /\ running
  /\ running' = FALSE
  /\ UNCHANGED <<enabled, now, logs, listenVars, loopVars>>

\* The select of RunContext takes ctx.Done, so between two handlers only.
Return ==
  /\ running
  /\ pc = "select"
  /\ running' = FALSE
  /\ UNCHANGED <<enabled, now, logs, listenVars, loopVars>>

\* The process ends, and its memory is lost.
Gone ==
  /\ running' = FALSE
  /\ startEpoch' = 0 /\ cursor' = [k \in Kind |-> 0] /\ fetched' = [k \in Kind |-> {}]
  /\ handling' = <<>> /\ pc' = "select" /\ tries' = 0 /\ handled' = {}
  /\ UNCHANGED <<enabled, now, logs>>

(***************************************************************************)
(* The listeners.                                                          *)
(***************************************************************************)

\* The first and the last of the logs in S, which the database returns in order.
Earliest(S) == CHOOSE l \in S : \A m \in S : l.ts <= m.ts
Latest(S) == CHOOSE l \in S : \A m \in S : m.ts <= l.ts

Parses(l) == <<l.kind, l.epoch>> \notin Malformed

\* Mutant of FetchLogs: the range includes its start.
FetchLogsFrom(k) ==
  {l \in logs : l.kind = k /\ cursor[k] <= l.ts /\ l.ts <= now}

\* FetchLogsByAddressAndTopic0 for the range from eventRangeStart to now.
FetchLogs(k) ==
  {l \in logs : l.kind = k /\ cursor[k] < l.ts /\ l.ts <= now}

\* Mutant of Poll: the policy listener is started under the flag of uptime votes.
PollWrongFlag(k) ==
  LET found == FetchLogs(k)
  IN  /\ running /\ Listening(k) /\ (k = "policy" => "uptime" \in enabled)
      /\ fetched[k] = {}
      /\ found # {}
      /\ k \in {"vpbs", "policy"} => Parses(Latest(found))
      /\ fetched' = [fetched EXCEPT ![k] = IF k \in {"vpbs", "policy"} THEN {Latest(found)} ELSE found]
      /\ UNCHANGED <<enabled, now, logs, running, startEpoch, cursor, loopVars>>

\* A listener polls: the registration listeners take the last log only.
Poll(k) ==
  LET found == FetchLogs(k)
  IN  /\ running /\ Listening(k)
      /\ fetched[k] = {}
      /\ found # {}
      /\ k \in {"vpbs", "policy"} => Parses(Latest(found))
      /\ fetched' = [fetched EXCEPT ![k] = IF k \in {"vpbs", "policy"} THEN {Latest(found)} ELSE found]
      /\ UNCHANGED <<enabled, now, logs, running, startEpoch, cursor, loopVars>>

\* Mutant of Wanted: the window is one epoch shorter.
WantedShorter(l) ==
  \/ l.kind \in {"vpbs", "policy"}
  \/ l.thresholdReached /\ l.epoch > startEpoch - Window

\* The events a listener hands on.
Wanted(l) ==
  \/ l.kind \in {"vpbs", "policy"}
  \/ l.thresholdReached /\ l.epoch >= startEpoch - Window

\* A log that cannot be parsed, or is not wanted, is passed over.
PassOver(k) ==
  /\ running
  /\ fetched[k] # {}
  /\ ~Parses(Earliest(fetched[k])) \/ ~Wanted(Earliest(fetched[k]))
  /\ cursor' = IF Parses(Earliest(fetched[k])) THEN [cursor EXCEPT ![k] = Earliest(fetched[k]).ts] ELSE cursor
  /\ fetched' = [fetched EXCEPT ![k] = @ \ {Earliest(@)}]
  /\ UNCHANGED <<enabled, now, logs, running, startEpoch, loopVars>>

\* The loop of RunContext receives the event.
Receive(k) ==
  /\ running
  /\ pc = "select"
  /\ fetched[k] # {}
  /\ Parses(Earliest(fetched[k])) /\ Wanted(Earliest(fetched[k]))
  /\ cursor' = [cursor EXCEPT ![k] = Earliest(fetched[k]).ts]
  /\ fetched' = [fetched EXCEPT ![k] = @ \ {Earliest(@)}]
  /\ handling' = <<Earliest(fetched[k])>>
  /\ handled' = handled \cup {Earliest(fetched[k])}
  /\ pc' = IF k = "uptime" THEN "send" ELSE "check"
  /\ tries' = 0
  /\ UNCHANGED <<enabled, now, logs, running, startEpoch>>

(***************************************************************************)
(* The handlers of RunContext.                                             *)
(***************************************************************************)

\* Possible answers of isFutureEpoch: an error of the contract counts as no.
IsFutureEpoch(e) == {FALSE, e > Current}

\* getRewardsHash finds a valid file or answer with the hash of the epoch, or not.
GetRewardsHash == BOOLEAN

\* What the handler asks before it sends anything; if the answer is no, the event
\* is dropped.
Check ==
  /\ running
  /\ pc = "check"
  /\ \E ok \in IF handling[1].kind = "signed" THEN GetRewardsHash ELSE IsFutureEpoch(handling[1].epoch) :
       IF ok
       THEN pc' = "send" /\ UNCHANGED handling
       ELSE pc' = "select" /\ handling' = <<>>
  /\ UNCHANGED <<enabled, now, logs, running, listenVars, tries, handled>>

\* ExecuteWithRetry: an attempt succeeds.
SendSucceeds ==
  /\ running
  /\ pc = "send"
  /\ pc' = "select" /\ handling' = <<>>
  /\ UNCHANGED <<enabled, now, logs, running, listenVars, tries, handled>>

\* An attempt fails; after the last one the event is given up.
SendFails ==
  /\ running
  /\ pc = "send"
  /\ tries' = tries + 1
  /\ IF tries' < MaxTxSendRetries
     THEN UNCHANGED <<pc, handling>>
     ELSE pc' = "select" /\ handling' = <<>>
  /\ UNCHANGED <<enabled, now, logs, running, listenVars, handled>>

Attempt(k) == pc = "send" /\ handling[1].kind = k /\ (SendSucceeds \/ SendFails)

\* The transactions.  An error of the contract that says the signature is not
\* needed any more counts as success; RegisterVoter knows no such error.
RegisterVoter == Attempt("vpbs")
SignNewSigningPolicy == Attempt("policy")
SignUptimeVote == Attempt("uptime")
SignRewards == Attempt("signed")

(***************************************************************************)
(* The specification.                                                      *)
(***************************************************************************)

EpochInit ==
  /\ enabled \in Enablings
  /\ now = 0 /\ logs = {} /\ running = FALSE
  /\ startEpoch = 0 /\ cursor = [k \in Kind |-> 0] /\ fetched = [k \in Kind |-> {}]
  /\ handling = <<>> /\ pc = "select" /\ tries = 0 /\ handled = {}

Environment ==
  Tick \/ \E k \in Kind, e \in RewardEpochs, threshold \in BOOLEAN : Emit(k, e, threshold)

Listener(k) == Poll(k) \/ PassOver(k)

Handler == Check \/ RegisterVoter \/ SignNewSigningPolicy \/ SignUptimeVote \/ SignRewards

(***************************************************************************)
(* Properties.                                                             *)
(***************************************************************************)

EpochTypeOK ==
  /\ enabled \in SUBSET Feature /\ now \in Nat /\ logs \subseteq Event /\ running \in BOOLEAN
  /\ startEpoch \in Nat /\ cursor \in [Kind -> Int] /\ fetched \in [Kind -> SUBSET Event]
  /\ handling \in Seq(Event) /\ pc \in {"select", "check", "send"}
  /\ pc # "select" <=> handling # <<>>
  /\ tries \in 0 .. MaxTxSendRetries
  /\ handled \subseteq Event

\* No event is handed to RunContext twice by one process, however often the
\* database is polled while an event waits for its handler.
DeliveredOnce == [][handling = <<>> /\ handling' # <<>> => handling'[1] \notin handled]_epochVars

\* RunContext has received the event of kind k for epoch e.
Received(k, e) == \E l \in handled : l.kind = k /\ l.epoch = e

\* The event is one to be signed for: its reward epoch is within the signing
\* window at the start of the client.
Due(l) ==
  /\ l.kind \in {"uptime", "signed"}
  /\ l.thresholdReached /\ l.epoch >= startEpoch - Window /\ Parses(l)

\* Each uptime vote that is enabled, and each uptime vote that reaches its
\* threshold, within the signing window is handled; after a restart again, so
\* that "restart client to retry" works.  Time and again, nothing is left to do.
WindowServed == []<>(running => \A l \in logs : Due(l) => Received(l.kind, l.epoch))

\* A voter is registered, and the policy signed, in time: while the client runs,
\* time and again every such event that was emitted has been handed on, or its
\* reward epoch has begun, when it is too late.
RegistrationServed ==
  []<>(running => \A l \in logs : l.kind \in {"vpbs", "policy"} =>
                    Received(l.kind, l.epoch) \/ l.epoch <= Current)
==============================================================================
