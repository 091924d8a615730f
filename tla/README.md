# A TLA+ model of the Flare system client

The Flare system client is one process that runs three clients of the Flare
Systems Protocol for one voter. This directory models them in TLA+, checks the
models with TLC on small instances, and proves with TLAPS, for every value of the
constants, every safety property of the state machines that the passing runs check.
`PROJECT.json` lists components, runs, mutants, findings, hazards and theorems, and
maps every definition to the lines it models.

## 1. The system

`client/main` builds the configuration and calls `runner.Start`, which runs three
clients in goroutines under one context. A signal, or an error of one client,
cancels the context; the process exits when all three have returned. The clients
share no memory. Each sees the chain through an indexer database, polled for logs
and transactions by time range, and an RPC node to which it sends transactions.
Nothing is persisted: after a restart everything is read again.

| Component | State | Operations | What is hard | What makes it correct |
|---|---|---|---|---|
| Finalizer client (`client/finalizer`) | policy list, submissions per message, two read positions, policy channel | read policies at the start, poll and add policies, clean up, poll transactions, add signatures | three goroutines on two stores; lag; re-reading after an error; restarts | weights exact, each quorum queued once, no policy or signature lost, signatures under the policy of the round they give |
| Finalizer queue (`finalizer_queue.go`, `utils/queue.go`) | queue, map from time to delayed items, timer goroutines | pop, delay, fire, ask what is relayed, select, send with retries | insertion racing the timer; errors in a timer | an item is in one place; what is sent is a quorum, not early; every item is dealt with |
| Protocol client (`protocol_client.go`, `utils/time.go`) | a goroutine per submitter and epoch, a WaitGroup | wait for registration, tick, commit, reveal, sign, shut down | `Add` and `Done` in sleeping goroutines while a shutdown waits | the counter is the number of open commits; a shutdown ends, without a panic, and leaves no commit open |
| Submitters (`submitter.go`, `protocol_utils.go`) | set of providers to send, channels, buffer | fetch in parallel, read in order, send, repeat in rounds | failed sends, channels kept across rounds | nothing sent twice or forgotten, answers fresh and in order, it returns |
| Epoch client (`client/epoch`) | read position of each of four listeners, the event in hand | poll, deliver, check, send with retries | blocking delivery, restarts, window edges | no coming epoch skipped, one delivery per run, the window served |
| Epoch arithmetic (`utils/epoch.go`) | none | `EpochIndex`, `StartTime`, `EndTime`, `EndEpoch` | truncating division, mixed units | used by all the others |
| Process (`client/main`, `client/runner`) | clients, wait group, context | build, construct, run, signal, fail, wait | signals during start-up, one client failing, crashes | it ends cleanly or together, never by itself, and a restart takes up the work |
| Transaction sending (`utils/chain`, `shared/utils.go`) | the attempt in hand; nonce, pool and mined transactions on the chain | read the nonce, dry run, price, send, wait, read the receipt, retry | two goroutines with one key, lost answers, timeouts, late mining | a reported success is final, no gap of nonces, doubles are explained |
| Voter set (`shared/voters`) | lists of voters, weights and thresholds | add, draw, search | zero weights, equal thresholds, bounds of the search | voters drawn in proportion to their weight, selection minimal |
| Merkle tree (`utils/merkle`) | the array of the tree | build, prove, search, verify | index arithmetic, repeated values | the leaves and nothing else have proofs |
| Database, configuration, credentials, logging, metrics | - | I/O, start-up | - | only their effect on the others is modelled |
| Bindings, caches, cron job | - | generated code, helpers | - | not modelled |

## 2. Modules

| Module | Models |
|---|---|
| `Epoch` | epoch arithmetic with Go's division, which truncates toward zero |
| `FinalizerStorage` | the two stores as operators on their values; policies are constant tables |
| `FinalizerClient` | the collecting half of the finalizer. A step is one lock section or one channel operation, so that the look-up of a policy, the look at the first policy and the insertion of a signature interleave with the policy loop and its cleanup |
| `FinalizerQueue` | the sending half. Its intake is any sequence of signatures for which `FinalizerClient` guarantees exact weights and a single queueing (`IntakeTheorem`); the cleanup is left to `FinalizerClient`. An item looks its message up by the protocol and the round of the payload item, and may find nothing. Process 1 is the `Run` loop, the others are timer goroutines |
| `ProtocolClient` | `Run`, the ticker, the goroutines and the WaitGroup with its panics |
| `Submitters` | `RunEpoch` of both kinds of submitter for one epoch, with `submitRetries` as the constructors derive it from the configuration |
| `EpochClient` | listeners, select loop and handlers, with an action for each of the four transactions; `isFutureEpoch` and `getRewardsHash` are the sets of their possible answers; the contracts are its environment. It has no specification of its own |
| `Process` | extends `EpochClient` by the process around it: start-up (the context, then a constructor for each client), the three goroutines of the runner, signals, errors, crashes and restarts. The epoch client runs in it step by step; of the two others it uses that they return when cancelled (`ShutdownCompletes` of `ProtocolClient`), or earlier with an error |
| `TxSender` | `SendRawTx` in `ExecuteWithRetry`, for several goroutines with one key and any gas configuration that `validateGasConfig` admits. Node, pool, chain and contract are external |
| `TxPromise` | what a caller of `ExecuteWithRetry` may rely on; `TxSender` implements it |
| `VoterSet` | the constructor, the draw and its binary search, one action per loop round |
| `Merkle` | the tree as operators |
| `FinalizerStorageProofs` | lemmas about the two stores, on which the theorems about `FinalizerClient` and `FinalizerQueue` rest |
| `FinalizerClientProofs`, `FinalizerPolicyProofs`, `FinalizerSignatureProofs` | the theorems about `FinalizerClient`: types, weights and the queue; the path of the policies and what holds of them if they arrive in time; the stored signatures and those still to be read, if policies arrive in time. Each extends the one before |
| `ProtocolProofs` | the theorems about `ProtocolClient` and about `Submitters`, which are independent of each other. `Submitters` has names of its own (`RunEpochSpec`, `RunEpochNext`, ...) so that one module can extend both |
| `SharedProofs` | the theorems about `TxSender` and about `VoterSet`, again independent; `VoterSet` has names of its own (`VoterSpec`, ...) |
| `FinalizerQueueProofs`, `ProcessProofs` | the theorems about the module they are named for |
| `MC...` | the instances for TLC. `MCProtocol` puts `ProtocolClient` and `Submitters` side by side: a behaviour exercises one of them, since they meet only in the beginning and the end of `RunEpoch` |

The state variables carry the names of the code's fields where there are any;
each declaration has a comment. An action is named for the method it models.
Definitions called "Mutant of ..." are plausible mistakes in the code; they occur
in no specification. Replacing the original by the mutant violates the property
named in `PROJECT.json`.

Abstractions: a message, a voter, a transaction and a provider are model values or
numbers. Hashes are injective, signatures are those of their signer, the hash that
drives the draw is any value. Bytes, ABI packing and the gas limit are left out. A
failed poll of the database changes nothing and is a stuttering step. The `uint16`
weights keep their width. In `ProtocolClient` the clock waits for the ticker and for
goroutines that are due, so sleeps end on time and the ticker never falls behind.

A payload item has a protocol and a voting round of its own beside those of the
message that is signed. `ProcessSubmissionData` checks and looks up by the item's,
`submissionStorage.Add` stores by the message's, the queue item takes the item's
again, and nothing in the code compares them. The models keep the two apart, and
the instances have items in which they differ.

## 3. Runs

| Run | Shows |
|---|---|
| `client_prompt` | with policies in the store before their first round: signatures under the policy of a round announced for their message, quorums of such a policy, no signature lost, across hand-overs of policies with different voters; the cleanup keeps the policies of the current and the previous round |
| `client_lag` | with late policies, parse errors, retries and a restart: exact weights, one queueing, no policy lost, signatures only accumulate; a quorum on the chain is queued in the end, also after a restart, unless the message was stored under the policy of another round, as `client_stale` shows it can be |
| `queue` | one place per item, minimal quorums, the grace period; every item is dealt with |
| `protocol` | the counter, reveals in time, a shutdown that waits and ends, no panic, every epoch served, a voter registered late let in; for both kinds of submitter: what is unsent, no double sending, fresh answers, order of payloads, return |
| `process` | over two lives of the process: no coming epoch skipped, one delivery per life, registration and the signing window served; it ends by itself only after a signal or an error, and between two handlers; a signal ends it; its clients fail together |
| `sender` | `TxSender` implements `TxPromise`; no gap of nonces; each double of a payload goes back to an attempt given up with its transaction out; every call reports, or panics on a failed receipt, even if nothing is mined |
| `algorithms` | the draw: no panic, in proportion unless there are voters of weight zero, minimal with every voter counted once; the tree: every leaf and nothing else has a proof that verifies |

Five runs end in a counterexample, and each is a finding about the code:

* `client_stale`: a signature read before the policy of its round is stored under
  the previous policy, against the comment of `submissionStorage.Add`.
* `queue_late`: an item delayed to a time that is over is dropped silently.
* `protocol_exit`: `wg.Add` comes after the sleep of the submit1 goroutine, so a
  shutdown may miss a commit that is then never revealed.
* `client_removal`: the cleanup hands reward epoch ids to a function that removes
  voting rounds, so the submissions under a removed policy stay, although the log
  line says that they were removed, and the store grows as long as the process runs.
* `voters_shadow`: the binary search stops at any threshold equal to the value, so
  it may find a voter of weight zero instead of the later one whose share begins
  there, against its comment, "the highest index".

For the same reason a message whose voting round has the number of a reward epoch
can lose its entry to the cleanup. The properties that this touches are stated for
the other messages (`Kept`); in `client_prompt` message `c` is one that is hit.

Another observation is listed as a hazard and not as a finding: a message queued
under the 60% threshold may be sent with signatures that exceed the threshold of
the policy only, and the code does not say which of the two is meant.

`StoredUnderGoverningPolicy` fails in `client_stale`. Two things decide:
`PromptPolicies`, an assumption about the indexer's lag, and that payload items give
the round of their message. The code enforces neither; with both it is a theorem
(section 4). With the first alone, what `client_prompt` checks is left:
`StoredUnderAnnouncedPolicy`, and in `QuorumBehindQueue` the threshold of a round
announced for the message.

`PolicyInUseKept` also depends on `PromptPolicies`. `RemoveByVotingRound` may empty
the list, so a policy that arrives more than two start offsets after its first round is
removed at once, although it is in force. With the default offset of seven days
that takes a delay of two weeks.

### Bounds

Every bound is a constant with `Max` in its name, or a set the MC module defines.

* Finalizer client: three voters, two messages on either side of a hand-over and in
  `client_prompt` a third in a round with the number of a reward epoch, three
  policies (the third for the cleanup, or with a log that cannot be parsed), an item
  that gives another round than its message, scripts of three to six blocks, a
  channel of one place so that the poller blocks, and a lag of one tick. Each
  policy has its own voters and weights.
* Finalizer queue: two messages of one round, so that they share a timer, a
  voter who alone passes the threshold, and an item with another protocol and one
  with another round than the message.
* Protocol client: three voting epochs, so that a reveal overlaps the next commit, in
  three reward epochs, so that a voter can be let in late, with submit2 later in its
  epoch than submit1.
* Submitters: three providers, three rounds, two attempts each.
* Process: two ticks per reward epoch, two starts, and four configurations that
  tell the features of the epoch client apart. With registration the clock stops in
  the second epoch, after the events of two epochs could come; otherwise in the
  third, so that the window moves past an epoch.
* Sender: two calls, one a relay, two attempts each, a fixed price or two suggested
  ones times 1.5. Two attempts are enough for a first transaction to be mined
  before, after, or instead of the second.
* Algorithms: up to four voters with three addresses and weights 0, 1 and 3, so that
  addresses repeat and thresholds coincide; up to six leaves of four values, which
  gives full and partial last levels and repeated leaves.

The models stop at `MaxTime`, hence `CHECK_DEADLOCK FALSE`; absence of deadlock is
stated by the liveness properties instead.

### Fairness

Weak fairness of goroutines stands for Go's scheduler, that of `Tick` for time.
A log that cannot be parsed stays so, and the poller repeats the attempt for ever.
Strong fairness is used once: for `Receive` in `Process`, it says that `select` does
not starve a ready channel; Go chooses among ready channels at random. That requests
return is an assumption about the environment: of the chain requests only the wait
for a transaction has a timeout (`WaitUntilMined`), the others use
`context.Background()`, and the `http.Get` for the rewards
(`client/epoch/rewards_utils.go:109`) has none. `Returns`, `EpochSubmitted` and
`CallsReport` rest on it; none of them assumes that anything is mined, or says that
the work ends within its epoch.
In `Process` nothing makes a signal, a crash or an error happen, a cancelled client
returns, and a process that ended is started again up to the bound. `algorithms`
assumes no fairness; that the draw comes to an end is a matter of probability.

## 4. Proofs

All proofs are for every value of the constants that satisfies the named
assumptions of the module. Nine theorems have a hypothesis of their own, given
with them below.

`FinalizerStorageProofs` has lemmas only. The ones cited most say what the look-up
of a policy returns on a sorted list (`FindByVotingRoundId` is given by a search,
its specification is "the last policy that starts at or before the round"), what
the removal leaves, and that adding a signature keeps the weight the sum of the
signers' weights.

`FinalizerClientProofs`, for the policies (`NoPolicyLostTheorem`, `InUseTheorem`)
`FinalizerPolicyProofs`, and from `AnnouncedTheorem` on `FinalizerSignatureProofs`,
with one invariant on top of the other:

| Theorem | States | Rests on |
|---|---|---|
| `TypeCorrect` | `Spec => []TypeOK` | - |
| `WeightCorrect`, `QueuedOnce` | `Spec => []WeightIsSum`, `Spec => []EnqueuedOnce` | `CountInv` |
| `Accumulating` | `Spec => SignaturesAccumulate` | `CountInv` |
| `NoPolicyLostTheorem` | `Spec => []NoPolicyLost` | `ChainInv`, `PathInv` |
| `InUseTheorem` | `Spec => PolicyInUseKept`, if `PromptPolicies` and `ShortRewardEpochs` | `PromptInv`, `AheadInv` |
| `AnnouncedTheorem` | `Spec => []StoredUnderAnnouncedPolicy`, if `PromptPolicies` | `PromptInv`, `GovernInv` |
| `GoverningTheorem` | `Spec => []StoredUnderGoverningPolicy`, if `PromptPolicies` and `ItemsAgree` | `GovernInv` |
| `QuorumTheorem` | `Spec => []QuorumBehindQueue`, if `PromptPolicies` | `GovernInv`, `ReachedInv` |
| `OwnQuorumTheorem` | `Spec => []OwnQuorum`, if `PromptPolicies` and `ItemsAgree` | `GovernInv`, `ReachedInv` |
| `IntakeTheorem` | `Spec => IntakeGuarantee`, if `PromptPolicies` | `CountInv`, `GovernInv`, `ReachedInv` |
| `SignaturesTheorem` | `Spec => []NoSignatureLost`, if `PromptPolicies` | `GovernInv`, `TxInv` |

* `CountInv` joins the two properties, the types and that an entry without a policy
  is empty. `WeightIsSum` needs the type of the look-up result, which is carried
  from one lock section to the next; `EnqueuedOnce` ties the history of the queue to
  the flag of the message, for the messages the cleanup cannot hit (`Kept`).
* `PathInv` follows a policy from the chain to the store. `NoPolicyLost` alone is
  not inductive: that `Add` does not refuse a policy depends on what is in the
  channel before it. The invariant says that the store followed by the channel is
  one run of consecutive reward epochs (`ListInv`), that the batch of the poller
  continues it, and that its cursor is a policy it has sent (`PollInv`).
* `PromptInv` says that a policy that has started is out of the channel, and that
  the cleanup is at work only while a policy that has not started is the last one.
  `AheadInv`, for the cleanup at the first rounds, says that no policy starts in
  round 0.
* `GovernInv` says that a look-up in progress holds the policy that governs the
  round of the payload item, whatever the policy loop adds or removes until it is
  used, and that an entry has the policy of a round announced for its message.
* `ReachedInv` says that the threshold at hand is one of the two of the item's
  policy, and that the flag of a message means that its weight exceeds one of the
  two of the policy of an announced round.
* `TxInv` says of the transaction listener that what is before its cursor, and
  before the transaction at hand, is dealt with, and that what precedes a
  transaction of the batch is dealt with, at hand, or in the batch. It is what
  makes a retry after a missing policy safe.

`PromptPolicies` is the constant of the runs (section 3); that `GoverningTheorem`
needs it is what `client_stale` shows. `ItemsAgree` says that every payload item
gives the round signed in its message, and takes `QuorumTheorem` and
`AnnouncedTheorem` from the announced rounds to the message's own; `OwnQuorum` is
`QuorumBehindQueue` for that round. `SignaturesTheorem` needs no `ItemsAgree`, and so
leaves out the signers who are no voters of the policy the message is stored under:
an item astray may have made the entry under another one. `ShortRewardEpochs` says that a reward epoch and one
voting round are over within two start offsets, the distance of the cleanup
(`finalizer_client.go:250`); the default offset is seven days
(`client/config/client.go:132`).
`WeightAssumption` says that weights add up to at most a `uint16`; the contracts
guarantee it, and without it the sum could wrap.

`FinalizerQueueProofs`:

* `InOnePlaceTheorem`: `Spec => []InOnePlace`. The property counts places; the
  invariant `PlaceInv` says which one it is, and `ProcInv` that a timer has only
  items that are due at its time, each once. The two together show that `Add`
  finding an entry, and the timer emptying it, lose and double nothing.
* `GracePeriodTheorem`: `Spec => []GracePeriodKept`, from `ProcInv`.
* `SentQuorumTheorem`: `Spec /\ OnePolicyPerMessage => []SentQuorum`. The intake of
  the queue is any sequence of signatures, also for one message under two policies;
  the hypothesis excludes that. `IntakeTheorem` is its justification: it says of
  `FinalizerClient` that submissions and queue change only by steps that `Intake`
  admits, and that meet the hypothesis if the payload items agree with their
  messages, or by a cleanup, which hits no message that is `Kept`. The client and the queue are thus proved
  apart, each from what the other guarantees; that the steps are the same is seen by
  comparing `AddsUnderPolicy` with `Intake`, which use the same operators of
  `FinalizerStorage`. What is sent first is not changed by signatures that come
  later, because entries only grow (`QuorumInv`).

`ProtocolProofs`, about `Submitters`: `ToSendTheorem`, `FreshTheorem`,
`InOrderTheorem`. The invariant says, round by round, that what was copied is what
was unsent, that the buffer is the ascending part of it that has been read, and that
only requests not yet read are under way.

`SharedProofs`, about `TxSender`: `NonceTheorem` (`Spec => []NoNonceGap`), `CopiesTheorem`
(`Spec => []CopiesExplained`) and `Refinement` (`Spec => KeepsPromise`, that is
`TxPromise!Spec` under the mapping `Result`, `Landed`). The invariant has three
parts: everything in the pool has the next nonce and everything mined a lower one;
no transaction of a call in the pool has a nonce above that of its attempt; and a
call that has its receipt, or has reported, has a successful transaction on the
chain and none in the pool, unless its message was relayed. The last part is what
makes a reported success final. For the copies, `CopyInv` also counts those in the
pool, which may still be mined, against the attempts given up.

`SharedProofs`, about `VoterSet`: `SearchSafe`, `Proportional` and `MinimalTheorem`
(`VoterSpec => []SelectionIsMinimal`). For the search, the invariant says that the shares
lie end to end from 0 to the total weight, that the share of the value lies
between `left - 1` and `right`, and that what is found is this share or one without
weight that begins at the value (`ShareFound`); `Proportional` is for lists in which
the latter cannot be, and `voters_shadow` shows it when it can. For the draw, the
invariant says that some additive function gives every set of voters a weight of at
most the total, and that the selected weight is its value for the voters drawn: so
the 16-bit sum does not wrap. That the fold in `SelectionIsMinimal` is this value is
shown with a least set on which the two would differ.

`ProtocolProofs`, about `ProtocolClient`: `TypeCorrect`, `CounterTheorem`
(`Spec => []CounterIsOpen`), `RevealTheorem` (`Spec => []RevealAfterEpoch`), `ReturnTheorem`
(`Spec => NoneOpenOnReturn`) and `NoPanicTheorem` (`Spec => []NoPanic`, if
`LaterReveal`). That `Done` follows the `Add` of its epoch is a matter of time: the
invariant follows each goroutine from its sleep to its end and says that the submit1
goroutine of an epoch wakes up before the submit2 one. It needs `OffsetAssumption`,
that the commit of an epoch starts before its reveal, and the timing of the model,
in which a sleep ends on time. `NoPanic` compares goroutines of different epochs:
`LaterReveal`, that submit2 starts later in its epoch than submit1 as in the sample
configuration, has the commit of an epoch raise the counter before the reveal of
the epoch before lowers it.

`ProcessProofs`: `CleanExitTheorem`, `NoSpontaneousExitTheorem`, `SkipTheorem`
(`Spec => []NoFutureEventSkipped`) and `DeliveredOnceTheorem`
(`Spec => DeliveredOnce`). The invariant of the process says that the wait group
counts the running clients, that `Start` has constructed and run every enabled
client before main waits, that a client returns without an error only when
cancelled, and that a handler is at work only inside `RunContext`. The invariant of
the epoch client says that the read position of a listener separates the events it
has handed on from those it has yet to go through, and that a registration event
before it that was not handed on is for an epoch that has begun.

Only model-checked:

* the liveness properties `QuorumIsQueued`, `QueuedIsDealtWith`,
  `ShutdownCompletes` (of both modules), `EpochSubmitted`, `RegisteredIsLetIn`, `Returns`,
  `WindowServed`, `RegistrationServed` and `CallsReport`: fairness is out of the
  prover's reach;
* `ProofsVerify`: the tree is built by recursion over the array, and its proof would
  need an induction that the provers cannot instantiate;
* the five counterexamples.

## 5. Plan

1. Done: all components with state of their own, the composition of the process
   with the epoch client, the refinement of `TxPromise` by `TxSender`, proofs of the
   safety properties.
2. Open: `Finalizer`, the composition of client and queue, and an abstract
   specification (a message is collected, has a quorum, is relayed) for it. It would
   make one statement about the composition of `IntakeTheorem` and `SentQuorumTheorem`.

## 6. Not modelled

* The generated contract bindings (`utils/contracts/*/autogen.go`). They are two
  thirds of the lines of the repository, have no logic of their own and are
  written by a tool; a model of them would restate the ABI. What the clients see of
  the contracts is the environment of each module.
* Cryptography, byte formats and ABI packing: a decoded item is a record of its
  protocol, its round, the message and the signer.
* The ORM and the connection to the database; parsing of configuration, key files
  and environment; logging; the metrics themselves.
* The cache, the small containers and the cron job, which no modelled component
  uses in a way that a property could depend on.

Three things were met on the way that no property is about. `max_rounds` has no
default, and with 0 rounds no signature is submitted (`client/config/client.go:82`).
The gas price and limit of a registration stay in the transaction options that
later signatures use (`client/epoch/registry_utils.go:107`). `Build` of the Merkle
tree panics on an empty list (`utils/merkle/merkle.go:52`).

Of the logs it is assumed, as a comment in the code does for policies, that two of
one kind have different timestamps; what happens otherwise is listed as a hazard.
