------------------------------- MODULE Process -------------------------------
(***************************************************************************)
(* The process (client/main, client/runner) around the three clients: main *)
(* builds the context, Start constructs every enabled client and runs each *)
(* in a goroutine of its own, and wg.Wait ends the process when all have   *)
(* returned.  All share one context, cancelled by a signal or by the first *)
(* client that returns an error.  Whoever operates it starts it again.     *)
(*                                                                         *)
(* The epoch client is the one of module EpochClient, step by step; of the *)
(* protocol client and the finalizer (modules ProtocolClient and           *)
(* FinalizerClient) only that they return once the context is cancelled,   *)
(* or earlier with an error.                                               *)
(***************************************************************************)
EXTENDS EpochClient

CONSTANTS MaxStarts       \* bound: starts of the process

ASSUME ProcessAssumption == MaxStarts \in Nat \ {0}

Client == {"epoch", "protocol", "finalizer"}

VARIABLES
  process,    \* where main is: "down" (no process), in Start, or in wg.Wait
  todo,       \* the clients Start still has to construct, or to run
  client,     \* nil, constructed, running, returned, or failed (with an error)
  wg,         \* the counter of the wait group
  cancelled,  \* the context is cancelled
  signalled,  \* the signal goroutine has taken its one signal
  exit,       \* how the last process ended
  starts

procVars == <<process, todo, client, wg, cancelled, signalled, exit, starts>>
vars == <<epochVars, procVars>>

\* The configuration enables the client (EpochClientEnabled for the epoch client).
Enabled(c) == IF c = "epoch" THEN enabled \cap {"registration", "uptime", "rewards"} # {}
              ELSE c \in enabled

\* The process is gone, and every goroutine with it.
Exit(how) ==
  /\ process' = "down"
  /\ exit' = how
  /\ todo' = <<>>
  /\ client' = [c \in Client |-> "nil"] /\ wg' = 0
  /\ cancelled' = FALSE /\ signalled' = FALSE
  /\ UNCHANGED starts

(***************************************************************************)
(* main and Start.                                                         *)
(***************************************************************************)

\* Possible results of reading and validating the configuration (the file, then
\* the environment), and of connecting to the database.
BuildConfig == {"configured", "error"}
Connect == {"connected", "error"}

\* A process starts; on an error main prints it and returns.
BuildContext ==
  /\ process = "down"
  /\ starts < MaxStarts
  /\ starts' = starts + 1
  /\ \E config \in BuildConfig, db \in Connect :
       IF "error" \notin {config, db}
       THEN process' = "construct" /\ todo' = <<"epoch", "protocol", "finalizer">> /\ exit' = "none"
       ELSE process' = "down" /\ todo' = <<>> /\ exit' = "config"
  /\ UNCHANGED <<epochVars, client, wg, cancelled, signalled>>

\* Start goes on with the next client, or from constructing clients to running
\* them, or returns the wait group.
Advance ==
  IF Len(todo) > 1 THEN todo' = Tail(todo) /\ UNCHANGED process
  ELSE IF process = "construct" THEN todo' = <<"protocol", "epoch", "finalizer">> /\ process' = "start"
  ELSE todo' = <<>> /\ process' = "wait"

\* A constructor returns nil for a client that is not enabled, before anything
\* else; for an enabled one an error is fatal.
New(c) ==
  /\ process = "construct"
  /\ Head(todo) = c
  /\ \/ /\ client' = [client EXCEPT ![c] = IF Enabled(c) THEN "constructed" ELSE "nil"]
        /\ Advance
        /\ UNCHANGED <<wg, cancelled, signalled, exit, starts>>
     \/ /\ Enabled(c)
        /\ Exit("fatal")
  /\ UNCHANGED epochVars

\* Of the epoch client: node, keys, contracts, or no identity address.  Of the
\* protocol client: node, keys, or the epochs read from the contract.  Of the
\* finalizer: node, keys, or the epochs read from the relay contract.
NewEpochClient == New("epoch")
NewProtocolClient == New("protocol")
NewFinalizerClient == New("finalizer")

\* Mutant of RunAsync: the goroutine adds itself to the wait group, too late.
RunAsyncLateAdd ==
  /\ process = "start"
  /\ client' = IF client[Head(todo)] = "nil" THEN client ELSE [client EXCEPT ![Head(todo)] = "running"]
  /\ Advance
  /\ UNCHANGED <<epochVars, wg, cancelled, signalled, exit, starts>>

\* RunAsync skips a nil client.
RunAsync ==
  /\ process = "start"
  /\ IF client[Head(todo)] = "nil"
     THEN UNCHANGED <<client, wg>>
     ELSE client' = [client EXCEPT ![Head(todo)] = "running"] /\ wg' = wg + 1
  /\ Advance
  /\ UNCHANGED <<epochVars, cancelled, signalled, exit, starts>>

\* wg.Wait returns, and main with it.
Wait ==
  /\ process = "wait"
  /\ wg = 0
  /\ Exit("clean")
  /\ Gone

(***************************************************************************)
(* The goroutine of RunAsync after the client's Run has returned.          *)
(***************************************************************************)

\* Mutant of Fails: the error is logged only.
FailsAlone(c) ==
  /\ client[c] = "running"
  /\ client' = [client EXCEPT ![c] = "failed"]
  /\ wg' = wg - 1
  /\ UNCHANGED <<process, todo, cancelled, signalled, exit, starts>>

\* With an error other than context.Canceled: every client is cancelled.
Fails(c) ==
  /\ client[c] = "running"
  /\ client' = [client EXCEPT ![c] = "failed"]
  /\ wg' = wg - 1
  /\ cancelled' = TRUE
  /\ UNCHANGED <<process, todo, signalled, exit, starts>>

\* With no error, or with that of the cancelled context.
Ends(c) ==
  /\ client[c] = "running"
  /\ cancelled
  /\ client' = [client EXCEPT ![c] = "returned"]
  /\ wg' = wg - 1
  /\ UNCHANGED <<process, todo, cancelled, signalled, exit, starts>>

Alive == process # "down"

\* The protocol client or the finalizer returns.
OtherEnds(c) == Alive /\ c # "epoch" /\ Ends(c) /\ UNCHANGED epochVars
OtherFails(c) == Alive /\ c # "epoch" /\ Fails(c) /\ UNCHANGED epochVars

\* RunContext reads the reward epochs from the chain and starts its listeners, or
\* returns the error.
EpochStarts ==
  /\ Alive /\ client["epoch"] = "running"
  /\ Start
  /\ UNCHANGED procVars
EpochFails == Alive /\ ~running /\ Fails("epoch") /\ UNCHANGED epochVars

\* RunContext returns the error of the cancelled context.
EpochReturns == Alive /\ Ends("epoch") /\ Return

EpochStep ==
  /\ Alive
  /\ (\E k \in Kind : Listener(k) \/ Receive(k)) \/ Handler
  /\ UNCHANGED procVars

(***************************************************************************)
(* Signals and crashes.                                                    *)
(***************************************************************************)

\* SIGINT or SIGTERM: the first cancels the context; nobody reads a second one.
Signal ==
  /\ Alive
  /\ ~signalled
  /\ signalled' = TRUE /\ cancelled' = TRUE
  /\ UNCHANGED <<epochVars, process, todo, client, wg, exit, starts>>

\* The process ends at once: killed, a panic, or log.Fatal in a goroutine, like
\* that of the metrics server when it cannot listen.
Crash ==
  /\ Alive
  /\ Exit("crash")
  /\ Gone

(***************************************************************************)
(* The specification.                                                      *)
(***************************************************************************)

Init ==
  /\ EpochInit
  /\ process = "down" /\ todo = <<>> /\ client = [c \in Client |-> "nil"] /\ wg = 0
  /\ cancelled = FALSE /\ signalled = FALSE /\ exit = "none" /\ starts = 0

Main ==
  \/ BuildContext \/ NewEpochClient \/ NewProtocolClient \/ NewFinalizerClient
  \/ RunAsync \/ Wait

Next ==
  \/ Environment /\ UNCHANGED procVars
  \/ Main
  \/ \E c \in Client : OtherEnds(c) \/ OtherFails(c)
  \/ EpochStarts \/ EpochFails \/ EpochReturns \/ EpochStep
  \/ Signal \/ Crash

Spec == Init /\ [][Next]_vars

\* A goroutine of the process that can take a step takes it: transactions and
\* reads end, and a cancelled client returns.  A select with several channels
\* ready does not starve one of them.  Nothing makes a signal, a crash, an error
\* or an event happen.
FairSpec ==
  /\ Spec
  /\ WF_vars(Main)
  /\ \A c \in Client : WF_vars(OtherEnds(c))
  /\ WF_vars(EpochStarts \/ EpochFails) /\ WF_vars(EpochReturns)
  /\ WF_vars(Alive /\ Handler /\ UNCHANGED procVars)
  /\ \A k \in Kind : /\ WF_vars(Alive /\ Listener(k) /\ UNCHANGED procVars)
                     /\ SF_vars(Alive /\ Receive(k) /\ UNCHANGED procVars)

(***************************************************************************)
(* Properties.                                                             *)
(***************************************************************************)

TypeOK ==
  /\ EpochTypeOK
  /\ process \in {"down", "construct", "start", "wait"}
  /\ todo \in Seq(Client) /\ wg \in Int
  /\ client \in [Client -> {"nil", "constructed", "running", "returned", "failed"}]
  /\ {cancelled, signalled} \subseteq BOOLEAN /\ starts \in 0 .. MaxStarts
  /\ exit \in {"none", "config", "fatal", "clean", "crash"}
  /\ running => Alive /\ client["epoch"] = "running"

\* Reading the last log only skips nothing of use: a registration event that the
\* listener has moved past was handed on, or its reward epoch has begun.
NoFutureEventSkipped ==
  /\ TypeOK
  /\ \A l \in logs : running /\ l.kind \in {"vpbs", "policy"} /\ l.ts <= cursor[l.kind] =>
       l \in handled \/ l.epoch <= Current

\* A process that ends by itself leaves nothing half done: RunContext is between
\* two handlers, so that no transaction is cut off between sending it and its
\* receipt.
CleanExit == [][exit # "clean" /\ exit' = "clean" => pc = "select"]_vars

\* The process does not end by itself while its clients are at work: only after a
\* signal or an error, or when the configuration enables no client at all.
NoSpontaneousExit ==
  [][exit # "clean" /\ exit' = "clean" =>
       \/ signalled
       \/ \E c \in Client : client[c] = "failed"
       \/ \A c \in Client : ~Enabled(c)]_vars

\* A signal ends the process, though a handler at work, whose transaction may need
\* all its attempts, is not interrupted; and so does a client that fails: none goes
\* on, its peer gone, in a process that looks healthy to whoever operates it.
ShutdownCompletes ==
  signalled \/ (\E c \in Client : client[c] = "failed") ~> process = "down"
==============================================================================
