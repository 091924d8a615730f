--------------------------- MODULE MCFinalizerClient ---------------------------
(***************************************************************************)
(* Instances of FinalizerClient for TLC.  Policies with different voters   *)
(* and weights hand over at round 4; messages a and b are signed on either *)
(* side of the handover, and c in a round with the number of a reward      *)
(* epoch.  One payload item gives another round than the one signed.       *)
(***************************************************************************)
EXTENDS FinalizerClient, FiniteSetsExt, TLC

CONSTANTS v1, v2, v3, a, b, c, p

MCVoter == {v1, v2, v3}
MCProtocol == {p}
MCProtocolOf == [m \in Message |-> p]
MCRewardEpoch == 0 .. 2
MCThreshold == (0 :> 3) @@ (1 :> 4) @@ (2 :> 4)
Weight ==
  (0 :> (v1 :> 3 @@ v2 :> 3)) @@ (1 :> (v1 :> 2 @@ v2 :> 2 @@ v3 :> 4)) @@ (2 :> (v2 :> 5))
MCVotersOf == [e \in MCRewardEpoch |-> DOMAIN Weight[e]]
MCWeightOf ==
  [e \in MCRewardEpoch |->
    [S \in SUBSET MCVoter |-> MapThenSumSet(LAMBDA v : Weight[e][v], S \cap DOMAIN Weight[e])]]

\* The log of the third policy cannot be parsed.
LagMessage == {a, b}
LagRoundOf == (a :> 3) @@ (b :> 4)
LagStartVotingRound == (0 :> 2) @@ (1 :> 4) @@ (2 :> 6)
LagUnparsable == {2}

\* The first policy is old enough for the cleanup when the third arrives.
PromptMessage == {a, b, c}
PromptRoundOf == (a :> 4) @@ (b :> 5) @@ (c :> 0)
PromptStartVotingRound == (0 :> 3) @@ (1 :> 5) @@ (2 :> 8)

Announce(m, v, r) == [protocolId |-> p, votingRoundId |-> r, message |-> m, signer |-> v]
Sig(m, v) == Announce(m, v, RoundOf[m])
A1 == <<Sig(a, v1)>>
A2 == <<Sig(a, v2)>>
A2B3 == <<Sig(a, v2), Sig(b, v3)>>
B1 == <<Sig(b, v1)>>
\* A message of another round than the one the item gives.
Astray(m) == <<Announce(m, v1, RoundOf[a])>>
MCTransactions == {<<>>, A1, A2, B1, A2B3} \cup {Astray(m) : m \in Message}

Policy(e) == [policy |-> e, tx |-> NoTx]
Tx(t) == [policy |-> NoPolicy, tx |-> t]
StaleScripts == {<<Policy(0), Tx(A1), Tx(<<>>), Policy(1), Tx(A2B3)>>}
LagScripts ==
  {<<Policy(0), Policy(1), Tx(A2B3), Tx(B1)>>, <<Policy(0), Tx(A1), Policy(1), Tx(A2B3)>>,
   <<Policy(0), Policy(1), Tx(Astray(b)), Tx(A2B3)>>, <<Policy(1), Policy(2), Tx(B1)>>}
RemovalScripts == {<<Policy(0), Tx(A1), Policy(1), Policy(2), Tx(A2)>>}
PromptScripts ==
  StaleScripts \cup RemovalScripts
    \cup {<<Policy(0), Policy(1), Tx(A1), Tx(A2B3), Tx(B1)>>,
          <<Policy(0), Tx(Astray(c)), Tx(Astray(b)), Policy(1), Policy(2), Tx(A2)>>}
==============================================================================
