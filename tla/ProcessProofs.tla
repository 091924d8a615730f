---------------------------- MODULE ProcessProofs ----------------------------
(***************************************************************************)
(* How the process ends, for every configuration, schedule of events and   *)
(* number of restarts.                                                     *)
(*                                                                         *)
(* What wg.Wait returning says of the clients is the invariant: its        *)
(* counter is the number of running clients, Start has run every enabled   *)
(* client before it waits, and a client that returned without an error did *)
(* so because the context was cancelled.                                   *)
(***************************************************************************)
EXTENDS Process, WellFoundedInduction, TLAPS

\* Leaves without a pragma are for Zenon; the others need arithmetic or records.
USE ZenonT(30)

ClientState == {"nil", "constructed", "running", "returned", "failed"}

\* The client's goroutine counts in the wait group.
Counted(c) == IF client[c] = "running" THEN 1 ELSE 0

ClientInv ==
  /\ client \in [Client -> ClientState]
  /\ wg = Counted("epoch") + Counted("protocol") + Counted("finalizer")
  /\ cancelled => signalled \/ \E c \in Client : client[c] = "failed"
  /\ \A c \in Client : client[c] = "returned" => cancelled

\* Start is done with constructing c; it has not run c yet; it has.
Made(c) == Enabled(c) => client[c] # "nil"
Idle(c) == client[c] \in {"nil", "constructed"}
Begun(c) == client[c] # "constructed"

StartInv ==
  /\ process \in {"down", "construct"} => \A c \in Client : Idle(c)
  /\ process = "construct" =>
       \/ todo = <<"epoch", "protocol", "finalizer">>
       \/ todo = <<"protocol", "finalizer">> /\ Made("epoch")
       \/ todo = <<"finalizer">> /\ Made("epoch") /\ Made("protocol")
  /\ process \in {"start", "wait"} => \A c \in Client : Made(c)
  /\ process = "start" =>
       /\ Idle("finalizer")
       /\ \/ todo = <<"protocol", "epoch", "finalizer">> /\ Idle("protocol") /\ Idle("epoch")
          \/ todo = <<"epoch", "finalizer">> /\ Begun("protocol") /\ Idle("epoch")
          \/ todo = <<"finalizer">> /\ Begun("protocol") /\ Begun("epoch")
  /\ process = "wait" => \A c \in Client : Begun(c)

\* A handler is at work only inside RunContext, and that only in the goroutine of
\* the epoch client.
LoopInv ==
  /\ running \in BOOLEAN
  /\ running => client["epoch"] = "running"
  /\ ~running => pc = "select"

IInv == ClientInv /\ StartInv /\ LoopInv

\* The events of the registration listeners: one of a kind per reward epoch, in
\* the epoch before.
RegKind == {"vpbs", "policy"}

LogInv ==
  /\ \A l \in logs : l.ts <= now
  /\ \A l \in logs : l.kind \in RegKind =>
       l.thresholdReached /\ l.epoch = EpochIndex(l.ts, 0, Length) + 1
  /\ \A l, m \in logs : l.kind = m.kind /\ l.ts = m.ts => l = m
  /\ \A l, m \in logs : l.kind \in RegKind /\ l.kind = m.kind /\ l.epoch = m.epoch => l = m

\* eventRangeStart separates what a listener has handed on from what it has yet to
\* go through, and is not in the future.
ListenInv ==
  /\ \A k \in Kind : \A l \in fetched[k] : l \in logs /\ l.kind = k /\ cursor[k] < l.ts
  /\ \A k \in RegKind : \A l \in fetched[k] : Parses(l)
  /\ \A l \in handled : l.ts <= cursor[l.kind]
  /\ running => \A k \in RegKind : cursor[k] < now \/ \E l \in logs : l.kind = k /\ l.ts = cursor[k]
  /\ pc \in {"check", "send"} => tries < MaxTxSendRetries

\* A registration event that was skipped is of no use any more.
SkipInv ==
  \A l \in logs : running /\ l.kind \in RegKind /\ l.ts <= cursor[l.kind] =>
    l \in handled \/ l.epoch <= Current

EpochInv == EpochTypeOK /\ LogInv /\ ListenInv /\ SkipInv

\* Nothing of the process or of its configuration changes.
LEMMA Stutters ==
  ASSUME ClientInv, StartInv, UNCHANGED procVars, enabled' = enabled
  PROVE  ClientInv' /\ StartInv'
<1>1. ClientInv'
  BY DEF ClientInv, Counted, procVars
<1>2. StartInv'
  BY DEF StartInv, Made, Idle, Begun, Enabled, procVars
<1> QED
  BY <1>1, <1>2

\* Start constructs the epoch client, then the protocol client, then the
\* finalizer (runner.go).
LEMMA ConstructStep ==
  ASSUME StartInv, process = "construct", Advance
  PROVE  \/ Head(todo) = "epoch" /\ process' = "construct" /\ todo' = <<"protocol", "finalizer">>
         \/ /\ Head(todo) = "protocol" /\ process' = "construct" /\ todo' = <<"finalizer">>
            /\ Made("epoch")
         \/ /\ Head(todo) = "finalizer" /\ process' = "start"
            /\ todo' = <<"protocol", "epoch", "finalizer">>
            /\ Made("epoch") /\ Made("protocol")
<1>1. CASE todo = <<"epoch", "protocol", "finalizer">>
  BY SMTT(30), <1>1 DEF Advance
<1>2. CASE todo = <<"protocol", "finalizer">> /\ Made("epoch")
  BY SMTT(30), <1>2 DEF Advance
<1>3. CASE todo = <<"finalizer">> /\ Made("epoch") /\ Made("protocol")
  BY SMTT(30), <1>3 DEF Advance
<1> QED
  BY <1>1, <1>2, <1>3 DEF StartInv

\* Start runs the protocol client, then the epoch client, then the finalizer.
LEMMA RunStep ==
  ASSUME StartInv, process = "start", Advance
  PROVE  \/ /\ Head(todo) = "protocol" /\ process' = "start" /\ todo' = <<"epoch", "finalizer">>
            /\ Idle("protocol") /\ Idle("epoch") /\ Idle("finalizer")
         \/ /\ Head(todo) = "epoch" /\ process' = "start" /\ todo' = <<"finalizer">>
            /\ Begun("protocol") /\ Idle("epoch") /\ Idle("finalizer")
         \/ /\ Head(todo) = "finalizer" /\ process' = "wait"
            /\ Begun("protocol") /\ Begun("epoch") /\ Idle("finalizer")
<1>0. Idle("finalizer")
  BY DEF StartInv
<1>1. CASE todo = <<"protocol", "epoch", "finalizer">> /\ Idle("protocol") /\ Idle("epoch")
  BY SMTT(30), <1>0, <1>1 DEF Advance
<1>2. CASE todo = <<"epoch", "finalizer">> /\ Begun("protocol") /\ Idle("epoch")
  BY SMTT(30), <1>0, <1>2 DEF Advance
<1>3. CASE todo = <<"finalizer">> /\ Begun("protocol") /\ Begun("epoch")
  BY SMTT(30), <1>0, <1>3 DEF Advance
<1> QED
  BY <1>1, <1>2, <1>3 DEF StartInv

\* A process that has ended has no clients.
LEMMA ExitStep ==
  ASSUME NEW how, Exit(how)
  PROVE  ClientInv' /\ StartInv' /\ process' = "down"
<1>1. ClientInv'
  BY SMTT(30) DEF Exit, ClientInv, Counted, Client, ClientState
<1>2. StartInv' /\ process' = "down"
  BY DEF Exit, StartInv, Idle
<1> QED
  BY <1>1, <1>2

\* A client that returns leaves the wait group, and the others as they are.
LEMMA ReturnStep ==
  ASSUME ClientInv, StartInv, enabled' = enabled,
         NEW c \in Client, Fails(c) \/ Ends(c)
  PROVE  ClientInv' /\ StartInv'
<1>1. PICK s \in {"returned", "failed"} : client' = [client EXCEPT ![c] = s]
  BY DEF Fails, Ends
<1>2. client' \in [Client -> ClientState]
  BY <1>1 DEF ClientInv, ClientState
<1>3. client[c] = "running" /\ wg' = wg - 1
  BY DEF Fails, Ends
<1>4. wg' = (Counted("epoch") + Counted("protocol") + Counted("finalizer"))'
  <2>1. CASE c = "epoch"
    BY SMTT(30), <1>1, <1>3, <2>1 DEF ClientInv, Counted, Client
  <2>2. CASE c = "protocol"
    BY SMTT(30), <1>1, <1>3, <2>2 DEF ClientInv, Counted, Client
  <2>3. CASE c = "finalizer"
    BY SMTT(30), <1>1, <1>3, <2>3 DEF ClientInv, Counted, Client
  <2> QED
    BY <2>1, <2>2, <2>3 DEF Client
<1>5. cancelled' => signalled' \/ \E d \in Client : client'[d] = "failed"
  <2>1. CASE Fails(c)
    BY <2>1 DEF Fails, ClientInv
  <2>2. CASE Ends(c)
    BY <2>2 DEF Ends, ClientInv
  <2> QED
    BY <2>1, <2>2
<1>6. \A d \in Client : client'[d] = "returned" => cancelled'
  <2>1. CASE Fails(c)
    BY <2>1 DEF Fails
  <2>2. CASE Ends(c)
    BY <2>2 DEF Ends
  <2> QED
    BY <2>1, <2>2
<1>7. \A d \in Client : client'[d] # client[d] => client'[d] \in {"returned", "failed"}
  BY <1>1 DEF ClientInv
<1>8. UNCHANGED <<process, todo>>
  BY DEF Fails, Ends
<1>9. \A d \in Client : (Made(d) => Made(d)') /\ (Begun(d) => Begun(d)') /\ (Idle(d) => Idle(d)')
  BY <1>1, <1>3, <1>7 DEF Made, Begun, Idle, Enabled, ClientInv
<1>10. StartInv'
  BY <1>8, <1>9 DEF StartInv, Client
<1> QED
  BY <1>2, <1>4, <1>5, <1>6, <1>10 DEF ClientInv

\* One client changes its state, and the others do not.
LEMMA OneChanges ==
  ASSUME client \in [Client -> ClientState],
         NEW c \in Client, NEW s \in ClientState, client' = [client EXCEPT ![c] = s]
  PROVE  /\ client' \in [Client -> ClientState]
         /\ client'[c] = s
         /\ \A d \in Client \ {c} : client'[d] = client[d]
  BY DEF ClientState

\* The initial state satisfies the invariant.
LEMMA InitInv == Init => IInv
<1> SUFFICES ASSUME Init PROVE IInv
  OBVIOUS
<1>1. ClientInv
  BY SMTT(30) DEF Init, ClientInv, Counted, Client, ClientState
<1>2. StartInv
  BY DEF Init, StartInv, Idle, Client
<1>3. LoopInv
  BY DEF Init, EpochInit, LoopInv
<1> QED
  BY <1>1, <1>2, <1>3 DEF IInv

\* Constructing a client, or failing to, preserves what is known of Start.
LEMMA NewInv ==
  ASSUME ClientInv, StartInv, NEW n \in Client, New(n)
  PROVE  ClientInv' /\ StartInv'
<1>1. CASE Exit("fatal")
  BY <1>1, ExitStep
<1>2. CASE /\ client' = [client EXCEPT ![n] = IF Enabled(n) THEN "constructed" ELSE "nil"]
           /\ Advance
           /\ UNCHANGED <<wg, cancelled, signalled, exit, starts>>
  <2>1. process = "construct" /\ enabled' = enabled
    BY DEF New, epochVars
  <2>2. PICK c \in Client : c = Head(todo) /\ c = n
    BY DEF New
  <2>3. /\ client' \in [Client -> ClientState]
        /\ client'[c] = IF Enabled(c) THEN "constructed" ELSE "nil"
        /\ \A d \in Client \ {c} : client'[d] = client[d]
    <3> DEFINE s == IF Enabled(c) THEN "constructed" ELSE "nil"
    <3>1. s \in ClientState
      BY DEF ClientState
    <3> QED
      BY <1>2, <2>2, <3>1, OneChanges DEF ClientInv
  <2>4. \A d \in Client : Idle(d) /\ Idle(d)'
    BY <2>1, <2>3 DEF StartInv, Idle
  <2>5. ClientInv'
    <3>1. \A d \in Client : client[d] \notin {"running", "returned", "failed"}
                            /\ client'[d] \notin {"running", "returned", "failed"}
      BY <2>4 DEF Idle
    <3>2. wg = 0
      BY SMTT(30), <3>1 DEF ClientInv, Counted, Client
    <3>3. wg' = (Counted("epoch") + Counted("protocol") + Counted("finalizer"))'
      BY SMTT(30), <1>2, <3>1, <3>2 DEF Counted, Client
    <3> QED
      BY <1>2, <2>3, <3>1, <3>3 DEF ClientInv
  <2>6. Made(c)' /\ \A d \in Client : Made(d) => Made(d)'
    BY <2>1, <2>2, <2>3 DEF Made, Enabled
  <2>7. StartInv'
    <3>1. CASE c = "epoch" /\ process' = "construct" /\ todo' = <<"protocol", "finalizer">>
      BY <2>4, <2>6, <3>1 DEF StartInv
    <3>2. CASE /\ c = "protocol" /\ process' = "construct" /\ todo' = <<"finalizer">>
               /\ Made("epoch")
      BY <2>4, <2>6, <3>2 DEF StartInv, Client
    <3>3. CASE /\ c = "finalizer" /\ process' = "start"
               /\ todo' = <<"protocol", "epoch", "finalizer">>
               /\ Made("epoch") /\ Made("protocol")
      BY <2>4, <2>6, <3>3 DEF StartInv, Client
    <3> QED
      BY <1>2, <2>1, <2>2, <3>1, <3>2, <3>3, ConstructStep
  <2> QED
    BY <2>5, <2>7
<1> QED
  BY <1>1, <1>2 DEF New

\* So does running one.
LEMMA RunAsyncInv ==
  ASSUME ClientInv, StartInv, RunAsync
  PROVE  ClientInv' /\ StartInv'
<1>1. process = "start" /\ enabled' = enabled /\ Advance /\ UNCHANGED <<cancelled, signalled>>
  BY DEF RunAsync, epochVars
<1>2. PICK c \in Client : c = Head(todo) /\ Idle(c)
  BY <1>1, RunStep DEF Client
<1>3. \/ client[c] = "nil" /\ client' = client /\ wg' = wg
      \/ /\ client[c] = "constructed" /\ wg' = wg + 1
         /\ client' = [client EXCEPT ![c] = "running"]
  BY <1>2 DEF RunAsync, Idle
<1>4. /\ client' \in [Client -> ClientState]
      /\ \A d \in Client \ {c} : client'[d] = client[d]
      /\ client'[c] \in {"nil", "running"}
  <2>1. CASE client[c] = "nil" /\ client' = client
    BY <2>1 DEF ClientInv
  <2>2. CASE client' = [client EXCEPT ![c] = "running"]
    <3>1. "running" \in ClientState
      BY DEF ClientState
    <3> QED
      BY <2>2, <3>1, OneChanges DEF ClientInv
  <2> QED
    BY <1>3, <2>1, <2>2
<1>5. wg' = (Counted("epoch") + Counted("protocol") + Counted("finalizer"))'
  <2>1. CASE client' = client /\ wg' = wg
    BY <2>1 DEF ClientInv, Counted
  <2>2. CASE client[c] = "constructed" /\ wg' = wg + 1 /\ client' = [client EXCEPT ![c] = "running"]
    <3>1. client'[c] = "running"
      BY <2>2 DEF ClientInv
    <3>2. CASE c = "epoch"
      BY SMTT(30), <1>4, <2>2, <3>1, <3>2 DEF ClientInv, Counted, Client
    <3>3. CASE c = "protocol"
      BY SMTT(30), <1>4, <2>2, <3>1, <3>3 DEF ClientInv, Counted, Client
    <3>4. CASE c = "finalizer"
      BY SMTT(30), <1>4, <2>2, <3>1, <3>4 DEF ClientInv, Counted, Client
    <3> QED
      BY <3>2, <3>3, <3>4 DEF Client
  <2> QED
    BY <1>3, <2>1, <2>2
<1>6. ClientInv'
  <2>1. cancelled' => signalled' \/ \E d \in Client : client'[d] = "failed"
    BY <1>1, <1>2, <1>4 DEF ClientInv, Idle
  <2>2. \A d \in Client : client'[d] = "returned" => cancelled'
    BY <1>1, <1>4 DEF ClientInv
  <2> QED
    BY <1>4, <1>5, <2>1, <2>2 DEF ClientInv
<1>7. Begun(c)' /\ \A d \in Client : Made(d)' /\ (Begun(d) => Begun(d)')
  <2>1. \A d \in Client : Made(d)
    BY <1>1 DEF StartInv
  <2> QED
    BY <1>1, <1>3, <1>4, <2>1 DEF Made, Begun, Enabled
<1>8. \A d \in Client \ {c} : Idle(d) => Idle(d)'
  BY <1>4 DEF Idle
<1>9. StartInv'
  <2>1. CASE /\ c = "protocol" /\ process' = "start" /\ todo' = <<"epoch", "finalizer">>
             /\ Idle("protocol") /\ Idle("epoch") /\ Idle("finalizer")
    BY <1>7, <1>8, <2>1 DEF StartInv, Client
  <2>2. CASE /\ c = "epoch" /\ process' = "start" /\ todo' = <<"finalizer">>
             /\ Begun("protocol") /\ Idle("epoch") /\ Idle("finalizer")
    BY <1>7, <1>8, <2>2 DEF StartInv, Client
  <2>3. CASE /\ c = "finalizer" /\ process' = "wait"
             /\ Begun("protocol") /\ Begun("epoch") /\ Idle("finalizer")
    BY <1>7, <1>8, <2>3 DEF StartInv, Client
  <2> QED
    BY <1>1, <1>2, <2>1, <2>2, <2>3, RunStep
<1> QED
  BY <1>6, <1>9

\* Every step of the process, of its clients and of their environment preserves
\* the invariant.
LEMMA StepInv == IInv /\ [Next]_vars => IInv'
<1> SUFFICES ASSUME IInv, [Next]_vars PROVE IInv'
  OBVIOUS
<1> USE DEF IInv
<1>1. CASE UNCHANGED vars
  <2>1. UNCHANGED procVars /\ UNCHANGED <<enabled, running, pc>>
    BY <1>1 DEF vars, epochVars, loopVars
  <2> QED
    BY <2>1, Stutters DEF LoopInv, procVars
<1>2. CASE Environment /\ UNCHANGED procVars
  <2>1. UNCHANGED <<enabled, running, pc>>
    BY <1>2 DEF Environment, Tick, Emit, loopVars
  <2> QED
    BY <1>2, <2>1, Stutters DEF LoopInv, procVars
<1>3. CASE BuildContext
  <2>1. ClientInv' /\ LoopInv'
    BY <1>3 DEF BuildContext, ClientInv, LoopInv, Counted, epochVars, loopVars
  <2>2. \A c \in Client : Idle(c)'
    BY <1>3 DEF BuildContext, StartInv, Idle
  <2>3. StartInv'
    BY <1>3, <2>2 DEF BuildContext, StartInv
  <2> QED
    BY <2>1, <2>3
<1>4. ASSUME NEW c \in Client, New(c) PROVE IInv'
  <2>1. ~running
    BY <1>4 DEF New, LoopInv, StartInv, Idle, Client
  <2>2. LoopInv'
    BY <1>4, <2>1 DEF New, LoopInv, epochVars, loopVars
  <2> QED
    BY <1>4, <2>2, NewInv
<1>5. CASE RunAsync
  <2>1. running => client'["epoch"] = "running"
    BY <1>5 DEF RunAsync, LoopInv, ClientInv, Client
  <2>2. LoopInv'
    BY <1>5, <2>1 DEF RunAsync, LoopInv, epochVars, loopVars
  <2> QED
    BY <1>5, <2>2, RunAsyncInv
<1>6. CASE Wait \/ Crash
  <2>1. LoopInv'
    BY <1>6 DEF Wait, Crash, Gone, LoopInv
  <2> QED
    BY <1>6, <2>1, ExitStep DEF Wait, Crash
<1>7. ASSUME NEW c \in Client, OtherEnds(c) \/ OtherFails(c) PROVE IInv'
  <2>1. c # "epoch" /\ (Ends(c) \/ Fails(c)) /\ UNCHANGED <<enabled, running, pc>>
    BY <1>7 DEF OtherEnds, OtherFails, epochVars, loopVars
  <2>2. client'["epoch"] = client["epoch"]
    BY <2>1 DEF Ends, Fails, ClientInv, Client
  <2> QED
    BY <2>1, <2>2, ReturnStep DEF LoopInv
<1>8. CASE EpochStarts
  <2>1. UNCHANGED procVars /\ enabled' = enabled
    BY <1>8 DEF EpochStarts, Start
  <2>2. LoopInv'
    BY <1>8 DEF EpochStarts, Start, LoopInv, procVars
  <2> QED
    BY <2>1, <2>2, Stutters
<1>9. CASE EpochFails
  <2>1. Fails("epoch") /\ ~running /\ UNCHANGED <<enabled, running, pc>>
    BY <1>9 DEF EpochFails, epochVars, loopVars
  <2> QED
    BY <2>1, ReturnStep DEF LoopInv, Client
<1>10. CASE EpochReturns
  <2>1. Ends("epoch") /\ ~running' /\ running' \in BOOLEAN /\ pc' = "select" /\ enabled' = enabled
    BY <1>10 DEF EpochReturns, Return, loopVars
  <2> QED
    BY <2>1, ReturnStep DEF LoopInv, Client
<1>11. CASE EpochStep
  <2>1. UNCHANGED procVars
    BY <1>11 DEF EpochStep
  <2>2. running /\ UNCHANGED <<enabled, running>>
    <3>1. ASSUME NEW k \in Kind, Listener(k) \/ Receive(k) PROVE running /\ UNCHANGED <<enabled, running>>
      BY <3>1 DEF Listener, Poll, PassOver, Receive
    <3>2. CASE Handler
      BY <3>2 DEF Handler, Check, RegisterVoter, SignNewSigningPolicy, SignUptimeVote, SignRewards,
                  Attempt, SendSucceeds, SendFails
    <3> QED
      BY <1>11, <3>1, <3>2 DEF EpochStep
  <2> QED
    BY <2>1, <2>2, Stutters DEF LoopInv, procVars
<1>12. CASE Signal
  <2>1. UNCHANGED <<enabled, running, pc, process, todo, client, wg>> /\ signalled'
    BY <1>12 DEF Signal, epochVars, loopVars
  <2>2. ClientInv'
    BY <1>12, <2>1 DEF Signal, ClientInv, Counted
  <2>3. StartInv'
    BY <2>1 DEF StartInv, Made, Idle, Begun, Enabled
  <2> QED
    BY <2>1, <2>2, <2>3 DEF LoopInv
<1> QED
  BY <1>1, <1>2, <1>3, <1>4, <1>5, <1>6, <1>7, <1>8, <1>9, <1>10, <1>11, <1>12
     DEF Next, Main, NewEpochClient, NewProtocolClient, NewFinalizerClient, Client

\* The invariant holds of every process, whatever its configuration.
THEOREM Inductive == Spec => []IInv
  BY InitInv, StepInv, PTL DEF Spec

\* Only main, back from wg.Wait, ends the process cleanly.
LEMMA CleanIsWait ==
  ASSUME [Next]_vars, exit # "clean", exit' = "clean"
  PROVE  Wait
<1>1. ~UNCHANGED vars
  BY DEF vars, procVars
<1>2. ~\E c \in Client : OtherEnds(c) \/ OtherFails(c)
  BY DEF OtherEnds, OtherFails, Ends, Fails
<1>3. \A c \in Client : ~New(c)
  BY DEF New, Exit
<1>4. ~(BuildContext \/ RunAsync \/ Signal \/ Crash)
  BY DEF BuildContext, RunAsync, Signal, Crash, Exit
<1>5. ~((Environment /\ UNCHANGED procVars) \/ EpochStarts \/ EpochFails \/ EpochReturns \/ EpochStep)
  BY DEF procVars, EpochStarts, EpochFails, EpochReturns, EpochStep, Ends, Fails
<1> QED
  BY <1>1, <1>2, <1>3, <1>4, <1>5
     DEF Next, Main, NewEpochClient, NewProtocolClient, NewFinalizerClient, Client

\* When wg.Wait returns, no client runs.
LEMMA WaitedForAll ==
  ASSUME ClientInv, Wait
  PROVE  \A c \in Client : client[c] # "running"
  BY SMTT(30) DEF ClientInv, Wait, Counted, Client

\* A process that ends by itself never cuts off a handler of the epoch client
\* (RunContext's select, RunAsync's wait group).
THEOREM CleanExitTheorem == Spec => CleanExit
<1>1. IInv /\ [Next]_vars => [exit # "clean" /\ exit' = "clean" => pc = "select"]_vars
  <2> SUFFICES ASSUME IInv, [Next]_vars, exit # "clean", exit' = "clean" PROVE pc = "select"
    OBVIOUS
  <2>1. client["epoch"] # "running"
    BY CleanIsWait, WaitedForAll DEF IInv, Client
  <2> QED
    BY <2>1 DEF IInv, LoopInv
<1> QED
  BY <1>1, Inductive, PTL DEF Spec, CleanExit

\* A process with a client to run ends by itself only after a signal, or after a
\* client's error (main, Start and RunAsync).
THEOREM NoSpontaneousExitTheorem == Spec => NoSpontaneousExit
<1> DEFINE Cause == \/ signalled
                    \/ \E c \in Client : client[c] = "failed"
                    \/ \A c \in Client : ~Enabled(c)
<1>1. IInv /\ [Next]_vars => [exit # "clean" /\ exit' = "clean" => Cause]_vars
  <2> SUFFICES ASSUME IInv, [Next]_vars, exit # "clean", exit' = "clean",
                      NEW c \in Client, Enabled(c)
               PROVE  signalled \/ \E d \in Client : client[d] = "failed"
    OBVIOUS
  <2>1. process = "wait" /\ client[c] # "running"
    BY CleanIsWait, WaitedForAll DEF IInv, Wait
  <2>2. client[c] # "nil" /\ client[c] # "constructed"
    BY <2>1 DEF IInv, StartInv, Made, Begun
  <2>3. client[c] \in {"returned", "failed"}
    BY <2>1, <2>2 DEF IInv, ClientInv, ClientState
  <2> QED
    BY <2>3 DEF IInv, ClientInv
<1> QED
  BY <1>1, Inductive, PTL DEF Spec, NoSpontaneousExit

(***************************************************************************)
(* The epoch client.                                                       *)
(***************************************************************************)

\* A non-empty set of times has an earliest one.
LEMMA LeastTime ==
  ASSUME NEW S \in SUBSET Nat, S # {}
  PROVE  \E k \in S : \A l \in S : k <= l
<1>1. IsWellFoundedOn(OpToRel(<, Nat), Nat)
  BY NatLessThanWellFounded
<1>2. PICK x \in S : \A y \in S : ~(<<y, x>> \in OpToRel(<, Nat))
  BY <1>1, WFMin
<1>3. ASSUME NEW y \in S, y < x PROVE FALSE
  <2>1. <<y, x>> \in {ss \in Nat \X Nat : ss[1] < ss[2]}
    BY <1>3
  <2> QED
    BY <1>2, <2>1 DEF OpToRel
<1> QED
  BY SMTT(30), <1>3

LEMMA EarliestIs ==
  ASSUME NEW S \in SUBSET Event, S # {}
  PROVE  Earliest(S) \in S /\ \A m \in S : Earliest(S).ts <= m.ts
<1> DEFINE T == {l.ts : l \in S}
<1>1. T \in SUBSET Nat /\ T # {}
  BY DEF Event
<1>2. PICK t \in T : \A u \in T : t <= u
  BY <1>1, LeastTime
<1>3. \E l \in S : \A m \in S : l.ts <= m.ts
  BY <1>2
<1> QED
  BY <1>3 DEF Earliest

LEMMA LatestIs ==
  ASSUME NEW S \in SUBSET Event, S # {}, NEW n \in Nat, \A l \in S : l.ts <= n
  PROVE  Latest(S) \in S /\ \A m \in S : m.ts <= Latest(S).ts
<1> DEFINE T == {n - l.ts : l \in S}
<1>1. \A l \in S : l.ts \in Nat
  BY DEF Event
<1>2. T \in SUBSET Nat /\ T # {}
  BY SMTT(30), <1>1
<1>3. PICK t \in T : \A u \in T : t <= u
  BY <1>2, LeastTime
<1>4. PICK l \in S : t = n - l.ts
  BY <1>3
<1>5. \A m \in S : n - l.ts <= n - m.ts
  BY <1>3, <1>4
<1>6. \A m \in S : m.ts <= l.ts
  BY SMTT(30), <1>1, <1>5
<1>7. \E x \in S : \A m \in S : m.ts <= x.ts
  BY <1>6
<1> QED
  BY <1>7 DEF Latest

\* A smaller product has a smaller factor.
LEMMA Factor ==
  ASSUME NEW a \in Int, NEW b \in Int, NEW p \in Nat \ {0}, a * p < b * p + p
  PROVE  a <= b
<1>1. CASE a >= b + 1
  <2>1. a * p >= (b + 1) * p
    BY SMTT(30), <1>1
  <2>2. (b + 1) * p = b * p + p
    BY SMTT(30)
  <2>3. a * p \in Int /\ b * p \in Int
    BY SMTT(30)
  <2> QED
    BY SMTT(30), <2>1, <2>2, <2>3
<1> QED
  BY SMTT(30), <1>1

\* EpochIndex of times after the start of the schedule.
LEMMA IndexFacts ==
  ASSUME NEW t \in Nat
  PROVE  /\ EpochIndex(t, 0, Length) \in Nat
         /\ EpochIndex(t, 0, Length) * Length <= t
         /\ t < EpochIndex(t, 0, Length) * Length + Length
<1>1. Length \in Nat \ {0}
  BY EpochClientAssumption
<1>2. PICK q \in Nat : q = t \div Length
  BY SMTT(30), <1>1
<1>3. q * Length <= t /\ t < q * Length + Length
  BY SMTT(30), <1>1, <1>2
<1>4. EpochIndex(t, 0, Length) = q
  <2>1. t - 0 = t /\ t >= 0
    BY SMTT(30)
  <2> QED
    BY <1>2, <2>1 DEF EpochIndex, TruncDiv
<1> QED
  BY <1>3, <1>4

LEMMA IndexMonotone ==
  ASSUME NEW t \in Nat, NEW u \in Nat, t <= u
  PROVE  EpochIndex(t, 0, Length) <= EpochIndex(u, 0, Length)
<1>1. PICK a \in Nat : a = EpochIndex(t, 0, Length) /\ a * Length <= t
  BY IndexFacts
<1>2. PICK b \in Nat : b = EpochIndex(u, 0, Length) /\ u < b * Length + Length
  BY IndexFacts
<1>3. Length \in Nat \ {0}
  BY EpochClientAssumption
<1>4. a * Length \in Int /\ b * Length \in Int
  BY SMTT(30), <1>3
<1>5. a * Length < b * Length + Length
  BY SMTT(30), <1>1, <1>2, <1>3, <1>4
<1> QED
  BY SMTT(30), <1>1, <1>2, <1>3, <1>5, Factor

\* What was emitted before the reward epoch that precedes the current one is for
\* the current epoch or an earlier one.
LEMMA BeforeRange ==
  ASSUME NEW t \in Nat, NEW u \in Nat, t <= StartTime(EpochIndex(u, 0, Length) - 1, 0, Length)
  PROVE  EpochIndex(t, 0, Length) + 1 <= EpochIndex(u, 0, Length)
<1>1. PICK a \in Nat : a = EpochIndex(t, 0, Length) /\ a * Length <= t
  BY IndexFacts
<1>2. PICK b \in Nat : b = EpochIndex(u, 0, Length)
  BY IndexFacts
<1>3. Length \in Nat \ {0}
  BY EpochClientAssumption
<1>4. t <= (b - 1) * Length
  BY SMTT(30), <1>2, <1>3 DEF StartTime
<1>5. a * Length \in Int /\ (b - 1) * Length \in Int
  BY SMTT(30), <1>3
<1>6. a * Length < (b - 1) * Length + Length
  BY SMTT(30), <1>1, <1>3, <1>4, <1>5
<1>7. a <= b - 1
  BY SMTT(30), <1>3, <1>6, Factor
<1> QED
  BY SMTT(30), <1>1, <1>2, <1>7

\* eventRangeStart of the registration listeners is in the past.
LEMMA RangeInPast ==
  ASSUME NEW u \in Nat
  PROVE  StartTime(EpochIndex(u, 0, Length) - 1, 0, Length) < u
<1>1. PICK b \in Nat : b = EpochIndex(u, 0, Length) /\ b * Length <= u
  BY IndexFacts
<1>2. Length \in Nat \ {0}
  BY EpochClientAssumption
<1>3. (b - 1) * Length = b * Length - Length /\ b * Length \in Int
  BY SMTT(30), <1>2
<1>4. 0 + (b - 1) * Length < u
  BY SMTT(30), <1>1, <1>2, <1>3
<1> QED
  BY <1>1, <1>4 DEF StartTime

\* The current reward epoch is a number and never decreases.
LEMMA CurrentGrows ==
  ASSUME now \in Nat, now' \in Nat, now <= now'
  PROVE  Current \in Nat /\ Current' \in Nat /\ Current <= Current'
  BY IndexFacts, IndexMonotone DEF Current

\* An event in the database.
LEMMA LogType ==
  ASSUME EpochTypeOK, NEW l \in logs
  PROVE  /\ l \in Event /\ l.ts \in Nat /\ l.kind \in Kind /\ l.epoch \in RewardEpochs
         /\ l.epoch \in Nat
<1>1. l \in Event
  BY DEF EpochTypeOK
<1>2. RewardEpochs \subseteq Nat
  BY SMTT(30) DEF RewardEpochs
<1> QED
  BY <1>1, <1>2 DEF Event

LEMMA EpochInitInv == Init => EpochInv
<1> SUFFICES ASSUME Init PROVE EpochInv
  OBVIOUS
<1>1. EpochInit
  BY DEF Init
<1>2. 0 \in 0 .. MaxTxSendRetries /\ <<>> \in Seq(Event)
  BY SMTT(30), EpochClientAssumption
<1>3. EpochTypeOK
  <2>1. enabled \in SUBSET Feature
    BY <1>1, EpochClientAssumption DEF EpochInit
  <2>2. cursor \in [Kind -> Int] /\ fetched \in [Kind -> SUBSET Event]
    BY SMTT(30), <1>1 DEF EpochInit
  <2> QED
    BY <1>1, <1>2, <2>1, <2>2 DEF EpochInit, EpochTypeOK
<1>4. \A k \in Kind : fetched[k] = {}
  BY <1>1 DEF EpochInit
<1>5. RegKind \subseteq Kind
  BY DEF RegKind, Kind
<1> QED
  BY <1>1, <1>3, <1>4, <1>5 DEF EpochInit, EpochInv, LogInv, ListenInv, SkipInv

\* Nothing of the epoch client changes.
LEMMA EpochStutters ==
  ASSUME EpochInv, UNCHANGED epochVars
  PROVE  EpochInv'
<1>1. UNCHANGED <<enabled, now, logs, running, startEpoch, cursor, fetched, handling, pc, tries, handled>>
  BY DEF epochVars, listenVars, loopVars
<1>2. EpochTypeOK'
  BY <1>1 DEF EpochInv, EpochTypeOK
<1>3. LogInv'
  BY <1>1 DEF EpochInv, LogInv
<1>4. ListenInv'
  BY <1>1 DEF EpochInv, ListenInv
<1>5. SkipInv'
  BY <1>1 DEF EpochInv, SkipInv, Current
<1> QED
  BY <1>2, <1>3, <1>4, <1>5 DEF EpochInv

\* The database and the clock stay the same while a step of the client is taken.
LEMMA SameLogs ==
  ASSUME EpochInv, logs' = logs, now' = now
  PROVE  LogInv' /\ Current' = Current /\ Current \in Nat
<1>1. LogInv'
  BY DEF EpochInv, LogInv
<1>2. now \in Nat
  BY DEF EpochInv, EpochTypeOK
<1> QED
  BY SMTT(30), <1>1, <1>2, CurrentGrows DEF Current

LEMMA GoneInv ==
  ASSUME EpochInv, Gone
  PROVE  EpochInv'
<1>1. 0 \in 0 .. MaxTxSendRetries /\ <<>> \in Seq(Event)
  BY SMTT(30), EpochClientAssumption
<1>2. /\ running' = FALSE /\ startEpoch' = 0 /\ handling' = <<>> /\ pc' = "select" /\ tries' = 0
      /\ handled' = {} /\ enabled' = enabled /\ now' = now /\ logs' = logs
      /\ cursor' \in [Kind -> Int] /\ fetched' \in [Kind -> SUBSET Event]
      /\ \A k \in Kind : fetched'[k] = {}
  BY SMTT(30) DEF Gone
<1>3. EpochTypeOK'
  <2>1. enabled \in SUBSET Feature /\ now \in Nat /\ logs \subseteq Event
    BY DEF EpochInv, EpochTypeOK
  <2> QED
    BY <1>1, <1>2, <2>1 DEF EpochTypeOK
<1>4. ListenInv' /\ SkipInv'
  BY <1>2 DEF ListenInv, SkipInv, RegKind, Kind
<1> QED
  BY <1>2, <1>3, <1>4, SameLogs DEF EpochInv

\* The listeners start in the past, behind every event that still matters.
LEMMA StartEpochInv ==
  ASSUME EpochInv, Start
  PROVE  EpochInv'
<1>1. 0 \in 0 .. MaxTxSendRetries /\ <<>> \in Seq(Event)
  BY SMTT(30), EpochClientAssumption
<1>2. enabled \in SUBSET Feature /\ now \in Nat /\ logs \subseteq Event
  BY DEF EpochInv, EpochTypeOK
<1>3. Current \in Nat /\ Current' = Current /\ LogInv'
  BY SameLogs DEF Start
<1>4. \A k \in Kind : RangeStart(k) \in Int
  BY SMTT(30), <1>3, EpochClientAssumption DEF RangeStart, StartTime
<1>5. /\ running' = TRUE /\ startEpoch' = Current /\ handling' = <<>> /\ pc' = "select" /\ tries' = 0
      /\ handled' = {} /\ enabled' = enabled /\ now' = now /\ logs' = logs
      /\ cursor' = [k \in Kind |-> RangeStart(k)] /\ fetched' = [k \in Kind |-> {}]
  BY DEF Start
<1>6. /\ cursor' \in [Kind -> Int] /\ fetched' \in [Kind -> SUBSET Event]
      /\ \A k \in Kind : fetched'[k] = {}
  BY <1>4, <1>5
<1>7. EpochTypeOK'
  BY <1>1, <1>2, <1>3, <1>5, <1>6 DEF EpochTypeOK
<1>8. \A k \in RegKind : cursor'[k] = StartTime(Current - 1, 0, Length) /\ k \in Kind
  <2>1. RegKind \subseteq Kind
    BY DEF RegKind, Kind
  <2> QED
    BY <1>5, <2>1 DEF RangeStart, RegKind
<1>9. \A k \in RegKind : cursor'[k] < now'
  BY <1>2, <1>5, <1>8, RangeInPast DEF Current
<1>10. ListenInv'
  BY <1>5, <1>6, <1>8, <1>9 DEF ListenInv
<1>11. SkipInv'
  <2> SUFFICES ASSUME NEW l \in logs, l.kind \in RegKind, l.ts <= cursor'[l.kind]
               PROVE  l.epoch <= Current'
    BY <1>5 DEF SkipInv
  <2>1. l.ts \in Nat /\ l.ts <= StartTime(Current - 1, 0, Length)
    BY <1>8, LogType DEF EpochInv
  <2>2. EpochIndex(l.ts, 0, Length) + 1 <= Current
    BY <1>2, <2>1, BeforeRange DEF Current
  <2>3. l.epoch = EpochIndex(l.ts, 0, Length) + 1
    BY DEF EpochInv, LogInv
  <2> QED
    BY <1>3, <2>2, <2>3
<1> QED
  BY <1>3, <1>7, <1>10, <1>11 DEF EpochInv

LEMMA ReturnEpochInv ==
  ASSUME EpochInv, Return
  PROVE  EpochInv'
<1>1. /\ UNCHANGED <<enabled, now, logs, startEpoch, cursor, fetched, handling, pc, tries, handled>>
      /\ running' = FALSE
  BY DEF Return, listenVars, loopVars
<1>2. EpochTypeOK'
  BY <1>1 DEF EpochInv, EpochTypeOK
<1>3. LogInv'
  BY <1>1, SameLogs
<1>4. ListenInv' /\ SkipInv'
  BY <1>1 DEF EpochInv, ListenInv, SkipInv
<1> QED
  BY <1>2, <1>3, <1>4 DEF EpochInv

LEMMA TickEpochInv ==
  ASSUME EpochInv, Tick
  PROVE  EpochInv'
<1>1. /\ UNCHANGED <<enabled, logs, running, startEpoch, cursor, fetched, handling, pc, tries, handled>>
      /\ now' = now + 1
  BY DEF Tick, listenVars, loopVars
<1>2. now \in Nat /\ now' \in Nat
  BY SMTT(30), <1>1 DEF EpochInv, EpochTypeOK
<1>3. EpochTypeOK'
  BY <1>1, <1>2 DEF EpochInv, EpochTypeOK
<1>4. \A l \in logs : l.ts \in Nat /\ l.epoch \in Nat
  BY LogType DEF EpochInv
<1>5. LogInv'
  BY SMTT(30), <1>1, <1>2, <1>4 DEF EpochInv, LogInv
<1>6. ListenInv'
  <2>1. \A k \in RegKind : cursor[k] \in Int
    BY DEF EpochInv, EpochTypeOK, RegKind, Kind
  <2>2. \A k \in RegKind : cursor[k] < now => cursor'[k] < now'
    BY SMTT(30), <1>1, <1>2, <2>1
  <2> QED
    BY <1>1, <2>2 DEF EpochInv, ListenInv
<1>7. SkipInv'
  <2>1. Current \in Nat /\ Current' \in Nat /\ Current <= Current'
    BY SMTT(30), <1>1, <1>2, CurrentGrows
  <2>2. \A l \in logs : l.epoch <= Current => l.epoch <= Current'
    BY SMTT(30), <1>4, <2>1
  <2> QED
    BY <1>1, <2>2 DEF EpochInv, SkipInv
<1> QED
  BY <1>3, <1>5, <1>6, <1>7 DEF EpochInv

\* A new event is later than those of its kind, and later than eventRangeStart.
LEMMA EmitEpochInv ==
  ASSUME EpochInv, NEW k \in Kind, NEW e \in RewardEpochs, NEW threshold \in BOOLEAN,
         Emit(k, e, threshold)
  PROVE  EpochInv'
<1> DEFINE x == [kind |-> k, epoch |-> e, thresholdReached |-> threshold, ts |-> now]
<1>1. /\ UNCHANGED <<enabled, now, running, startEpoch, cursor, fetched, handling, pc, tries, handled>>
      /\ logs' = logs \cup {x}
      /\ ~Emitted(k, e) /\ \A l \in logs : l.kind = k => l.ts < now
      /\ ~threshold => k = "signed"
  BY DEF Emit, listenVars, loopVars
<1>2. now \in Nat /\ logs \subseteq Event /\ e \in Nat
  BY SMTT(30) DEF EpochInv, EpochTypeOK, RewardEpochs
<1>3. x \in Event /\ x.kind = k /\ x.epoch = e /\ x.thresholdReached = threshold /\ x.ts = now
  <2>1. x \in Event
    BY <1>2 DEF Event
  <2> QED
    BY <2>1
<1>4. k \in RegKind => e = EpochIndex(now, 0, Length) + 1 /\ threshold
  <2>1. Current \in Nat
    BY <1>2, IndexFacts DEF Current
  <2>2. k \in RegKind => Current = e - 1
    BY DEF Emit, RegKind
  <2>3. k \in RegKind => threshold
    BY <1>1 DEF RegKind
  <2> QED
    BY SMTT(30), <1>2, <2>1, <2>2, <2>3 DEF Current
<1> HIDE DEF x
<1>5. \A l \in logs' : l \in logs \/ l = x
  BY <1>1
<1>6. \A l \in logs : l.ts \in Nat
  BY LogType DEF EpochInv
<1>7. EpochTypeOK'
  <2>1. logs' \subseteq Event
    BY <1>1, <1>2, <1>3
  <2> QED
    BY <1>1, <2>1 DEF EpochInv, EpochTypeOK
<1>8. LogInv'
  <2>1. \A l \in logs' : l.ts <= now'
    <3>1. \A l \in logs : l.ts <= now
      BY DEF EpochInv, LogInv
    <3> QED
      BY SMTT(30), <1>1, <1>2, <1>3, <1>5, <3>1
  <2>2. \A l \in logs' : l.kind \in RegKind =>
          l.thresholdReached /\ l.epoch = EpochIndex(l.ts, 0, Length) + 1
    <3>1. \A l \in logs : l.kind \in RegKind =>
            l.thresholdReached /\ l.epoch = EpochIndex(l.ts, 0, Length) + 1
      BY DEF EpochInv, LogInv
    <3> QED
      BY <1>3, <1>4, <1>5, <3>1
  <2>3. \A l \in logs : l.kind = k => l.ts # now
    BY SMTT(30), <1>1, <1>2, <1>6
  <2>4. \A l, m \in logs' : l.kind = m.kind /\ l.ts = m.ts => l = m
    <3>1. \A l, m \in logs : l.kind = m.kind /\ l.ts = m.ts => l = m
      BY DEF EpochInv, LogInv
    <3> QED
      BY <1>3, <1>5, <2>3, <3>1
  <2>5. \A l \in logs : l.kind = k /\ k \in RegKind => l.epoch # e
    BY <1>1 DEF EpochInv, LogInv, Emitted
  <2>6. \A l, m \in logs' : l.kind \in RegKind /\ l.kind = m.kind /\ l.epoch = m.epoch => l = m
    <3>1. \A l, m \in logs : l.kind \in RegKind /\ l.kind = m.kind /\ l.epoch = m.epoch => l = m
      BY DEF EpochInv, LogInv
    <3> QED
      BY <1>3, <1>5, <2>5, <3>1
  <2> QED
    BY <2>1, <2>2, <2>4, <2>6 DEF LogInv
<1>9. ListenInv'
  <2>1. logs \subseteq logs'
    BY <1>1
  <2>2. \A j \in Kind : \A l \in fetched'[j] : l \in logs' /\ l.kind = j /\ cursor'[j] < l.ts
    BY <1>1, <2>1 DEF EpochInv, ListenInv
  <2>3. running' => \A j \in RegKind :
          cursor'[j] < now' \/ \E l \in logs' : l.kind = j /\ l.ts = cursor'[j]
    BY <1>1, <2>1 DEF EpochInv, ListenInv
  <2> QED
    BY <1>1, <2>2, <2>3 DEF EpochInv, ListenInv
<1>10. SkipInv'
  <2>1. ASSUME running, k \in RegKind PROVE ~(now <= cursor[k])
    <3>1. cursor[k] \in Int
      BY DEF EpochInv, EpochTypeOK
    <3>2. cursor[k] < now \/ \E l \in logs : l.kind = k /\ l.ts = cursor[k]
      BY <2>1 DEF EpochInv, ListenInv
    <3>3. cursor[k] < now
      BY <1>1, <3>2
    <3> QED
      BY SMTT(30), <1>2, <3>1, <3>3
  <2>2. Current' = Current
    BY <1>1 DEF Current
  <2>3. \A l \in logs : running /\ l.kind \in RegKind /\ l.ts <= cursor[l.kind] =>
          l \in handled \/ l.epoch <= Current
    BY DEF EpochInv, SkipInv
  <2>4. ASSUME NEW l \in logs', running', l.kind \in RegKind, l.ts <= cursor'[l.kind]
        PROVE  l \in handled' \/ l.epoch <= Current'
    <3>1. CASE l \in logs
      BY <1>1, <2>2, <2>3, <2>4, <3>1
    <3>2. CASE l = x
      BY <1>1, <1>3, <2>1, <2>4, <3>2
    <3> QED
      BY <1>5, <3>1, <3>2
  <2> QED
    BY <2>4 DEF SkipInv
<1> QED
  BY <1>7, <1>8, <1>9, <1>10 DEF EpochInv

LEMMA PollEpochInv ==
  ASSUME EpochInv, NEW k \in Kind, Poll(k)
  PROVE  EpochInv'
<1> DEFINE found == FetchLogs(k)
<1>1. /\ UNCHANGED <<enabled, now, logs, running, startEpoch, cursor, handling, pc, tries, handled>>
      /\ found # {} /\ (k \in RegKind => Parses(Latest(found)))
      /\ fetched' = [fetched EXCEPT ![k] = IF k \in RegKind THEN {Latest(found)} ELSE found]
  BY DEF Poll, loopVars, RegKind
<1>2. now \in Nat /\ logs \subseteq Event /\ fetched \in [Kind -> SUBSET Event]
  BY DEF EpochInv, EpochTypeOK
<1>3. found \in SUBSET Event /\ \A l \in found : l \in logs /\ l.kind = k /\ cursor[k] < l.ts /\ l.ts <= now
  BY <1>2 DEF FetchLogs
<1>4. Latest(found) \in found
  BY <1>1, <1>2, <1>3, LatestIs
<1> HIDE DEF found
<1>5. fetched'[k] \subseteq found /\ (\A j \in Kind \ {k} : fetched'[j] = fetched[j])
      /\ fetched' \in [Kind -> SUBSET Event]
  BY <1>1, <1>2, <1>3, <1>4
<1>6. k \in RegKind => fetched'[k] = {Latest(found)}
  BY <1>1, <1>2
<1>7. EpochTypeOK'
  BY <1>1, <1>5 DEF EpochInv, EpochTypeOK
<1>8. ListenInv'
  <2>1. ASSUME NEW j \in Kind, NEW l \in fetched'[j]
        PROVE  l \in logs' /\ l.kind = j /\ cursor'[j] < l.ts
    <3>1. CASE j = k
      BY <1>1, <1>3, <1>5, <2>1, <3>1
    <3>2. CASE j # k
      BY <1>1, <1>5, <2>1, <3>2 DEF EpochInv, ListenInv
    <3> QED
      BY <3>1, <3>2
  <2>2. ASSUME NEW j \in RegKind, NEW l \in fetched'[j] PROVE Parses(l)
    <3>1. CASE j = k
      BY <1>1, <1>6, <2>2, <3>1
    <3>2. CASE j # k
      <4>1. j \in Kind
        BY DEF RegKind, Kind
      <4> QED
        BY <1>5, <2>2, <3>2, <4>1 DEF EpochInv, ListenInv
    <3> QED
      BY <3>1, <3>2
  <2> QED
    BY <1>1, <2>1, <2>2 DEF EpochInv, ListenInv, Parses
<1>9. SkipInv'
  BY <1>1 DEF EpochInv, SkipInv, Current
<1> QED
  BY <1>1, <1>7, <1>8, <1>9, SameLogs DEF EpochInv

\* A listener is done with the earliest log it has; eventRangeStart moves to it, or
\* stays where it is.
LEMMA TakeEarliest ==
  ASSUME EpochInv, NEW k \in Kind, fetched[k] # {}, running,
         UNCHANGED <<enabled, now, logs, running, startEpoch>>,
         fetched' = [fetched EXCEPT ![k] = @ \ {Earliest(@)}],
         \/ cursor' = cursor
         \/ cursor' = [cursor EXCEPT ![k] = Earliest(fetched[k]).ts],
         handled \subseteq handled'
  PROVE  /\ Earliest(fetched[k]) \in logs /\ Earliest(fetched[k]).kind = k
         /\ cursor[k] < Earliest(fetched[k]).ts
         /\ fetched' \in [Kind -> SUBSET Event] /\ cursor' \in [Kind -> Int]
         /\ \A j \in Kind : \A l \in fetched'[j] : l \in logs' /\ l.kind = j /\ cursor'[j] < l.ts
         /\ \A j \in RegKind : \A l \in fetched'[j] : Parses(l)
         /\ \A l \in handled : l.kind \in Kind => l.ts <= cursor'[l.kind]
         /\ \A j \in RegKind : cursor'[j] < now' \/ \E l \in logs' : l.kind = j /\ l.ts = cursor'[j]
         /\ Earliest(fetched[k]) \in handled' \/ cursor' = cursor \/ k \notin RegKind => SkipInv'
<1>1. /\ fetched \in [Kind -> SUBSET Event] /\ cursor \in [Kind -> Int] /\ now \in Nat
      /\ handled \subseteq Event
  BY DEF EpochInv, EpochTypeOK
<1>2. PICK x : x = Earliest(fetched[k])
  OBVIOUS
<1>3. x \in fetched[k] /\ \A m \in fetched[k] : x.ts <= m.ts
  BY <1>1, <1>2, EarliestIs
<1>4. x \in logs /\ x.kind = k /\ cursor[k] < x.ts /\ x \in Event /\ x.ts \in Nat
  BY <1>3, LogType DEF EpochInv, ListenInv
<1>5. /\ fetched' = [fetched EXCEPT ![k] = fetched[k] \ {x}]
      /\ cursor' = cursor \/ cursor' = [cursor EXCEPT ![k] = x.ts]
  BY <1>2
<1>6. /\ fetched'[k] = fetched[k] \ {x} /\ \A j \in Kind \ {k} : fetched'[j] = fetched[j]
      /\ fetched' \in [Kind -> SUBSET Event]
  BY <1>1, <1>5
<1>7. /\ cursor'[k] \in {cursor[k], x.ts} /\ \A j \in Kind \ {k} : cursor'[j] = cursor[j]
      /\ cursor' \in [Kind -> Int]
  BY SMTT(30), <1>1, <1>4, <1>5
<1>8. RegKind \subseteq Kind
  BY DEF RegKind, Kind
<1>9. ASSUME NEW j \in Kind, NEW l \in fetched'[j]
      PROVE  l \in logs' /\ l.kind = j /\ cursor'[j] < l.ts
  <2>1. CASE j # k
    BY <1>6, <1>7, <1>9, <2>1 DEF EpochInv, ListenInv
  <2>2. CASE j = k
    <3>1. l \in fetched[k] /\ l # x
      BY <1>6, <1>9, <2>2
    <3>2. l \in logs /\ l.kind = k /\ cursor[k] < l.ts
      BY <3>1 DEF EpochInv, ListenInv
    <3>3. l.ts # x.ts /\ l.ts \in Nat
      BY <1>4, <3>1, <3>2, LogType DEF EpochInv, LogInv
    <3>4. x.ts < l.ts
      BY SMTT(30), <1>3, <1>4, <3>1, <3>3
    <3> QED
      BY <1>7, <2>2, <3>2, <3>4
  <2> QED
    BY <2>1, <2>2
<1>10. ASSUME NEW j \in RegKind, NEW l \in fetched'[j] PROVE Parses(l)
  <2>1. l \in fetched[j]
    BY <1>6, <1>8, <1>10
  <2> QED
    BY <2>1 DEF EpochInv, ListenInv
<1>11. \A j \in Kind : cursor[j] <= cursor'[j]
  BY SMTT(30), <1>1, <1>4, <1>7
<1>12. ASSUME NEW l \in handled, l.kind \in Kind PROVE l.ts <= cursor'[l.kind]
  <2>1. l.ts <= cursor[l.kind]
    BY DEF EpochInv, ListenInv
  <2>2. l.ts \in Nat /\ cursor[l.kind] \in Int /\ cursor'[l.kind] \in Int
    BY <1>1, <1>7, <1>12 DEF Event
  <2> QED
    BY SMTT(30), <1>11, <1>12, <2>1, <2>2
<1>13. ASSUME NEW j \in RegKind
       PROVE  cursor'[j] < now' \/ \E l \in logs' : l.kind = j /\ l.ts = cursor'[j]
  <2>1. CASE j = k /\ cursor'[k] = x.ts
    BY <1>4, <2>1
  <2>2. CASE cursor'[j] = cursor[j]
    BY <2>2 DEF EpochInv, ListenInv
  <2> QED
    BY <1>7, <1>8, <2>1, <2>2
<1>14. ASSUME x \in handled' \/ cursor' = cursor \/ k \notin RegKind PROVE SkipInv'
  <2>1. Current' = Current /\ Current \in Nat
    BY SameLogs
  <2> SUFFICES ASSUME NEW l \in logs, l.kind \in RegKind, l.ts <= cursor'[l.kind]
               PROVE  l \in handled' \/ l.epoch <= Current
    BY <2>1 DEF SkipInv
  <2>2. CASE l.ts <= cursor[l.kind]
    <3>1. l \in handled \/ l.epoch <= Current
      BY <2>2 DEF EpochInv, SkipInv
    <3> QED
      BY <3>1
  <2>3. CASE ~(l.ts <= cursor[l.kind])
    <3>1. l.kind = k /\ cursor'[k] = x.ts /\ cursor' # cursor /\ k \in RegKind
      BY <1>7, <1>8, <2>3
    <3>2. x \in handled'
      BY <1>14, <3>1
    <3>3. CASE l = x
      BY <3>2, <3>3
    <3>4. CASE l # x
      <4>1. l.epoch # x.epoch
        BY <1>4, <3>1, <3>4 DEF EpochInv, LogInv
      <4>2. l.ts \in Nat /\ l.ts <= x.ts /\ l.epoch \in Nat /\ x.epoch \in Nat
        BY <1>4, <3>1, LogType DEF EpochInv
      <4>3. l.epoch = EpochIndex(l.ts, 0, Length) + 1 /\ x.epoch = EpochIndex(x.ts, 0, Length) + 1
        BY <1>4, <3>1 DEF EpochInv, LogInv
      <4>4. /\ EpochIndex(l.ts, 0, Length) <= EpochIndex(x.ts, 0, Length)
            /\ EpochIndex(x.ts, 0, Length) <= Current
        <5>1. x.ts <= now
          BY <1>4 DEF EpochInv, LogInv
        <5> QED
          BY <1>1, <1>4, <4>2, <5>1, IndexMonotone DEF Current
      <4>5. EpochIndex(l.ts, 0, Length) \in Nat /\ EpochIndex(x.ts, 0, Length) \in Nat
        BY <1>4, <4>2, IndexFacts
      <4> QED
        BY SMTT(30), <2>1, <4>1, <4>3, <4>4, <4>5
    <3> QED
      BY <3>3, <3>4
  <2> QED
    BY <2>2, <2>3
<1> QED
  BY <1>2, <1>4, <1>6, <1>7, <1>9, <1>10, <1>12, <1>13, <1>14

LEMMA PassOverEpochInv ==
  ASSUME EpochInv, NEW k \in Kind, PassOver(k)
  PROVE  EpochInv'
<1>1. /\ UNCHANGED <<enabled, now, logs, running, startEpoch, handling, pc, tries, handled>>
      /\ running /\ fetched[k] # {}
      /\ fetched' = [fetched EXCEPT ![k] = @ \ {Earliest(@)}]
      /\ \/ cursor' = cursor
         \/ cursor' = [cursor EXCEPT ![k] = Earliest(fetched[k]).ts]
  BY DEF PassOver, loopVars
<1>2. cursor' = cursor \/ k \notin RegKind
  <2>1. ASSUME k \in RegKind PROVE cursor' = cursor
    <3>1. Earliest(fetched[k]).kind = k
      BY <1>1, TakeEarliest
    <3>2. Wanted(Earliest(fetched[k]))
      BY <2>1, <3>1 DEF Wanted, RegKind
    <3> QED
      BY <3>2 DEF PassOver
  <2> QED
    BY <2>1
<1>3. /\ fetched' \in [Kind -> SUBSET Event] /\ cursor' \in [Kind -> Int]
      /\ \A j \in Kind : \A l \in fetched'[j] : l \in logs' /\ l.kind = j /\ cursor'[j] < l.ts
      /\ \A j \in RegKind : \A l \in fetched'[j] : Parses(l)
      /\ \A l \in handled : l.kind \in Kind => l.ts <= cursor'[l.kind]
      /\ \A j \in RegKind : cursor'[j] < now' \/ \E l \in logs' : l.kind = j /\ l.ts = cursor'[j]
      /\ SkipInv'
  BY <1>1, <1>2, TakeEarliest
<1>4. EpochTypeOK'
  BY <1>1, <1>3 DEF EpochInv, EpochTypeOK
<1>5. \A l \in handled : l.kind \in Kind
  BY DEF EpochInv, EpochTypeOK, Event
<1>6. ListenInv'
  BY <1>1, <1>3, <1>5 DEF EpochInv, ListenInv, Parses
<1> QED
  BY <1>1, <1>3, <1>4, <1>6, SameLogs DEF EpochInv

LEMMA ReceiveEpochInv ==
  ASSUME EpochInv, NEW k \in Kind, Receive(k)
  PROVE  EpochInv' /\ handling'[1] \notin handled
<1>1. PICK x : x = Earliest(fetched[k])
  OBVIOUS
<1>2. /\ UNCHANGED <<enabled, now, logs, running, startEpoch>>
      /\ running /\ fetched[k] # {}
      /\ fetched' = [fetched EXCEPT ![k] = @ \ {Earliest(@)}]
      /\ cursor' = [cursor EXCEPT ![k] = Earliest(fetched[k]).ts]
      /\ handling' = <<x>> /\ handled' = handled \cup {x}
      /\ pc' = (IF k = "uptime" THEN "send" ELSE "check") /\ tries' = 0
  BY <1>1 DEF Receive
<1>3. handled \subseteq handled' /\ x \in handled'
  BY <1>2
<1>4. /\ x \in logs /\ x.kind = k /\ cursor[k] < x.ts
      /\ fetched' \in [Kind -> SUBSET Event] /\ cursor' \in [Kind -> Int]
      /\ \A j \in Kind : \A l \in fetched'[j] : l \in logs' /\ l.kind = j /\ cursor'[j] < l.ts
      /\ \A j \in RegKind : \A l \in fetched'[j] : Parses(l)
      /\ \A l \in handled : l.kind \in Kind => l.ts <= cursor'[l.kind]
      /\ \A j \in RegKind : cursor'[j] < now' \/ \E l \in logs' : l.kind = j /\ l.ts = cursor'[j]
      /\ SkipInv'
  BY <1>1, <1>2, <1>3, TakeEarliest
<1>5. x \in Event /\ x.ts \in Nat /\ handled \subseteq Event /\ cursor \in [Kind -> Int]
  BY <1>4, LogType DEF EpochInv, EpochTypeOK
<1>6. MaxTxSendRetries \in Nat \ {0}
  BY EpochClientAssumption
<1>7. EpochTypeOK'
  <2>1. handling' \in Seq(Event) /\ handling' # <<>>
    BY SMTT(30), <1>2, <1>5
  <2>2. pc' \in {"check", "send"}
    BY <1>2
  <2>3. tries' \in 0 .. MaxTxSendRetries /\ handled' \subseteq Event
    BY SMTT(30), <1>2, <1>5, <1>6
  <2> QED
    BY <1>2, <1>4, <2>1, <2>2, <2>3 DEF EpochInv, EpochTypeOK
<1>8. ListenInv'
  <2>1. x.ts <= cursor'[x.kind]
    BY SMTT(30), <1>1, <1>2, <1>4, <1>5
  <2>2. \A l \in handled : l.kind \in Kind
    BY <1>5 DEF Event
  <2>3. \A l \in handled' : l.ts <= cursor'[l.kind]
    BY <1>2, <1>4, <2>1, <2>2
  <2>4. tries' < MaxTxSendRetries
    BY SMTT(30), <1>2, <1>6
  <2> QED
    BY <1>2, <1>4, <2>3, <2>4 DEF ListenInv, Parses
<1>9. x \notin handled
  <2>1. x \in handled => x.ts <= cursor[k]
    BY <1>4 DEF EpochInv, ListenInv
  <2> QED
    BY SMTT(30), <1>4, <1>5, <2>1
<1> QED
  BY <1>2, <1>4, <1>7, <1>8, <1>9, SameLogs DEF EpochInv

LEMMA HandlerEpochInv ==
  ASSUME EpochInv, Handler
  PROVE  EpochInv' /\ (handling = <<>> => handling' = <<>>)
<1>1. /\ UNCHANGED <<enabled, now, logs, running, startEpoch, cursor, fetched, handled>>
      /\ pc # "select"
  BY DEF Handler, Check, RegisterVoter, SignNewSigningPolicy, SignUptimeVote, SignRewards, Attempt,
         SendSucceeds, SendFails, listenVars
<1>2. /\ tries \in 0 .. MaxTxSendRetries /\ MaxTxSendRetries \in Nat \ {0} /\ pc \in {"select", "check", "send"}
      /\ handling \in Seq(Event) /\ handling # <<>> /\ (pc \in {"check", "send"} => tries < MaxTxSendRetries)
  BY <1>1, EpochClientAssumption DEF EpochInv, EpochTypeOK, ListenInv
<1>3. <<>> \in Seq(Event)
  BY SMTT(30)
<1>4. /\ handling' \in Seq(Event) /\ pc' \in {"select", "check", "send"}
      /\ pc' # "select" <=> handling' # <<>>
      /\ tries' \in 0 .. MaxTxSendRetries /\ (pc' \in {"check", "send"} => tries' < MaxTxSendRetries)
  <2>1. CASE Check
    <3>1. tries' = tries /\ pc = "check"
      BY <2>1 DEF Check
    <3>2. \/ pc' = "send" /\ handling' = handling
          \/ pc' = "select" /\ handling' = <<>>
      BY <2>1 DEF Check
    <3>3. tries < MaxTxSendRetries
      BY <3>1 DEF EpochInv, ListenInv
    <3> QED
      BY <1>2, <1>3, <3>1, <3>2, <3>3
  <2>2. CASE SendSucceeds
    BY <1>2, <1>3, <2>2 DEF SendSucceeds
  <2>3. CASE SendFails
    <3>1. /\ tries' = tries + 1 /\ pc = "send"
          /\ IF tries' < MaxTxSendRetries THEN pc' = pc /\ handling' = handling
             ELSE pc' = "select" /\ handling' = <<>>
      BY <2>3 DEF SendFails
    <3>2. tries' \in 0 .. MaxTxSendRetries
      BY SMTT(30), <1>2, <3>1
    <3>3. CASE tries' < MaxTxSendRetries
      BY <1>2, <3>1, <3>2, <3>3
    <3>4. CASE ~(tries' < MaxTxSendRetries)
      BY <1>3, <3>1, <3>2, <3>4
    <3> QED
      BY <3>3, <3>4
  <2> QED
    BY <2>1, <2>2, <2>3 DEF Handler, RegisterVoter, SignNewSigningPolicy, SignUptimeVote,
       SignRewards, Attempt
<1>5. EpochTypeOK'
  BY <1>1, <1>4 DEF EpochInv, EpochTypeOK
<1>6. ListenInv'
  BY <1>1, <1>4 DEF EpochInv, ListenInv
<1>7. SkipInv'
  BY <1>1 DEF EpochInv, SkipInv, Current
<1> QED
  BY <1>1, <1>2, <1>5, <1>6, <1>7, SameLogs DEF EpochInv

\* The loop of RunContext gets an event only from a listener.
LEMMA EpochNext ==
  ASSUME EpochInv, [Next]_vars
  PROVE  /\ EpochInv'
         /\ handling = <<>> /\ handling' # <<>> => handling'[1] \notin handled
<1>1. CASE UNCHANGED epochVars
  <2>1. handling' = handling
    BY <1>1 DEF epochVars, loopVars
  <2> QED
    BY <1>1, <2>1, EpochStutters
<1>2. CASE Gone
  BY <1>2, GoneInv DEF Gone
<1>3. CASE EpochStarts \/ EpochReturns
  <2>1. CASE Start
    BY <2>1, StartEpochInv DEF Start
  <2>2. CASE Return
    BY <2>2, ReturnEpochInv DEF Return, loopVars
  <2> QED
    BY <1>3, <2>1, <2>2 DEF EpochStarts, EpochReturns
<1>4. CASE Environment
  <2>1. handling' = handling
    BY <1>4 DEF Environment, Tick, Emit, loopVars
  <2>2. EpochInv'
    BY <1>4, TickEpochInv, EmitEpochInv DEF Environment
  <2> QED
    BY <2>1, <2>2
<1>5. ASSUME NEW k \in Kind, Listener(k) \/ Receive(k)
      PROVE  EpochInv' /\ (handling = <<>> /\ handling' # <<>> => handling'[1] \notin handled)
  <2>1. CASE Listener(k)
    <3>1. handling' = handling
      BY <2>1 DEF Listener, Poll, PassOver, loopVars
    <3> QED
      BY <2>1, <3>1, PollEpochInv, PassOverEpochInv DEF Listener
  <2> QED
    BY <1>5, <2>1, ReceiveEpochInv
<1>6. CASE Handler
  BY <1>6, HandlerEpochInv
<1>7. CASE UNCHANGED vars
  BY <1>1, <1>7 DEF vars
<1>8. CASE Next
  <2>1. \/ UNCHANGED epochVars \/ Gone \/ EpochStarts \/ EpochReturns \/ Environment \/ Handler
        \/ \E k \in Kind : Listener(k) \/ Receive(k)
        \/ \E c \in Client : New(c)
    BY <1>8 DEF Next, Main, BuildContext, NewEpochClient, NewProtocolClient, NewFinalizerClient,
       RunAsync, Wait, Crash, Signal, OtherEnds, OtherFails, EpochFails, EpochStep, Client, epochVars
  <2>2. \A c \in Client : New(c) => UNCHANGED epochVars
    BY DEF New
  <2> QED
    BY <1>1, <1>2, <1>3, <1>4, <1>5, <1>6, <2>1, <2>2
<1> QED
  BY <1>7, <1>8

\* The types of what belongs to the process.
ProcType ==
  /\ process \in {"down", "construct", "start", "wait"}
  /\ todo \in Seq(Client)
  /\ {cancelled, signalled} \subseteq BOOLEAN /\ starts \in 0 .. MaxStarts
  /\ exit \in {"none", "config", "fatal", "clean", "crash"}

LEMMA ProcTypeStep ==
  ASSUME ProcType, IInv, [Next]_vars
  PROVE  ProcType'
<1>1. /\ <<>> \in Seq(Client)
      /\ <<"epoch", "protocol", "finalizer">> \in Seq(Client)
      /\ <<"protocol", "epoch", "finalizer">> \in Seq(Client)
  <2>1. "epoch" \in Client /\ "protocol" \in Client /\ "finalizer" \in Client
    BY DEF Client
  <2> QED
    BY SMTT(30), <2>1
<1>2. ASSUME NEW how \in {"fatal", "clean", "crash"}, Exit(how) PROVE ProcType'
  BY <1>1, <1>2 DEF Exit, ProcType
<1>3. ASSUME Advance, UNCHANGED <<cancelled, signalled, exit, starts>> PROVE ProcType'
  <2>1. todo \in Seq(Client) => (Len(todo) > 1 => Tail(todo) \in Seq(Client))
    BY SMTT(30)
  <2>2. todo' \in Seq(Client) /\ process' \in {"down", "construct", "start", "wait"}
    BY <1>1, <1>3, <2>1 DEF Advance, ProcType
  <2> QED
    BY <1>3, <2>2 DEF ProcType
<1>4. CASE BuildContext
  <2>1. starts' \in 0 .. MaxStarts
    BY SMTT(30), <1>4, ProcessAssumption DEF BuildContext, ProcType
  <2>2. todo' \in Seq(Client) /\ process' \in {"construct", "down"} /\ exit' \in {"none", "config"}
    BY <1>1, <1>4 DEF BuildContext
  <2> QED
    BY <1>4, <2>1, <2>2 DEF BuildContext, ProcType
<1>5. ASSUME NEW c \in Client, New(c) PROVE ProcType'
  BY <1>2, <1>3, <1>5 DEF New
<1>6. CASE RunAsync
  BY <1>3, <1>6 DEF RunAsync
<1>7. CASE Wait \/ Crash
  BY <1>2, <1>7 DEF Wait, Crash
<1>8. CASE UNCHANGED <<process, todo, exit, starts>> /\ {cancelled', signalled'} \subseteq BOOLEAN
  BY <1>8 DEF ProcType
<1>9. CASE UNCHANGED vars \/ (Environment /\ UNCHANGED procVars) \/ EpochStarts \/ EpochStep
  BY <1>8, <1>9 DEF vars, procVars, EpochStarts, EpochStep, ProcType
<1>10. CASE Signal
  BY <1>8, <1>10 DEF Signal
<1>11. ASSUME NEW c \in Client, Ends(c) \/ Fails(c) PROVE ProcType'
  BY <1>8, <1>11 DEF Ends, Fails, ProcType
<1>12. CASE EpochFails \/ EpochReturns \/ \E c \in Client : OtherEnds(c) \/ OtherFails(c)
  BY <1>11, <1>12 DEF EpochFails, EpochReturns, OtherEnds, OtherFails, Client
<1> QED
  BY <1>4, <1>5, <1>6, <1>7, <1>9, <1>10, <1>12
     DEF Next, Main, NewEpochClient, NewProtocolClient, NewFinalizerClient, Client

\* A registration listener that reads the last log only never moves past an event
\* that is neither handed on nor of a reward epoch that has begun
\* (VotePowerBlockSelectedListener, SigningPolicyInitializedListener).
THEOREM SkipTheorem == Spec => []NoFutureEventSkipped
<1>1. Init => ProcType
  <2>1. <<>> \in Seq(Client) /\ 0 \in 0 .. MaxStarts
    BY SMTT(30), ProcessAssumption
  <2> QED
    BY <2>1 DEF Init, ProcType
<1>2. ProcType /\ IInv /\ [Next]_vars => ProcType'
  BY ProcTypeStep
<1>3. EpochInv /\ [Next]_vars => EpochInv'
  BY EpochNext
<1>4. IInv /\ ProcType /\ EpochInv => NoFutureEventSkipped
  <2> SUFFICES ASSUME IInv, ProcType, EpochInv PROVE NoFutureEventSkipped
    OBVIOUS
  <2>1. wg \in Int /\ client \in [Client -> {"nil", "constructed", "running", "returned", "failed"}]
    BY SMTT(30) DEF IInv, ClientInv, ClientState, Counted
  <2>2. running => Alive /\ client["epoch"] = "running"
    BY DEF IInv, LoopInv, StartInv, Idle, Alive, Client
  <2>3. TypeOK
    BY <2>1, <2>2 DEF EpochInv, ProcType, TypeOK
  <2> QED
    BY <2>3 DEF EpochInv, SkipInv, NoFutureEventSkipped, RegKind
<1> QED
  BY <1>1, <1>2, <1>3, <1>4, EpochInitInv, Inductive, PTL DEF Spec

\* RunContext receives no event twice, however often the listeners poll the
\* database while an event waits for its handler.
THEOREM DeliveredOnceTheorem == Spec => DeliveredOnce
<1>1. EpochInv /\ [Next]_vars => EpochInv'
  BY EpochNext
<1>2. EpochInv /\ [Next]_vars
        => [handling = <<>> /\ handling' # <<>> => handling'[1] \notin handled]_epochVars
  BY EpochNext
<1> QED
  BY <1>1, <1>2, EpochInitInv, PTL DEF Spec, DeliveredOnce
==============================================================================
