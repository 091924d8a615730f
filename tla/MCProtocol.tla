------------------------------ MODULE MCProtocol ------------------------------
(***************************************************************************)
(* ProtocolClient and Submitters for TLC.  They meet only in the beginning *)
(* and the end of RunEpoch: each behaviour exercises one of them.          *)
(***************************************************************************)
EXTENDS MCProtocolClient, Submitters

VARIABLE part   \* the module exercised

allVars == <<vars, runEpochVars, part>>

\* A submitter whose RunEpoch has returned.
Idle ==
  /\ kind = "submit" /\ runPc = "done" /\ round = 0 /\ i = 1
  /\ protocolsToSend = SubProtocol /\ copied = {}
  /\ channels = [k \in SubProtocol |-> NoFetch]
  /\ buffer = <<>> /\ tries = 0 /\ accepted = <<>> /\ landed = <<>>

MCInit ==
  /\ Init
  /\ \/ part = "client" /\ Idle
     \/ part = "submitters" /\ RunEpochInit /\ registered = {}

MCNext ==
  \/ part = "client" /\ Next /\ UNCHANGED <<runEpochVars, part>>
  \/ part = "submitters" /\ RunEpochNext /\ UNCHANGED <<vars, part>>

Client(A) == part = "client" /\ A
Submit(A) == part = "submitters" /\ A

\* The fairness of FairSpec and of RunEpochFairSpec, each for its part.
MCSpec ==
  /\ MCInit /\ [][MCNext]_allVars
  /\ WF_vars(Client(Tick)) /\ WF_vars(Client(Exit)) /\ WF_vars(Client(OthersStop))
  /\ WF_vars(Client(Registration)) /\ WF_vars(Client(TickerTick))
  /\ WF_vars(Client(StopSubmitters)) /\ WF_vars(Client(WaitReturns))
  /\ \A s \in Submitter, e \in VotingEpoch : WF_vars(Client(Goroutine(s, e)))
  /\ WF_runEpochVars(Submit(RunEpoch))
  /\ \A k \in SubProtocol : WF_runEpochVars(Submit(Fetch(k)))
==============================================================================
