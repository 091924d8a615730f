--------------------------- MODULE MCFinalizerQueue ---------------------------
(***************************************************************************)
(* Instance of FinalizerQueue for TLC: one policy of three voters, of whom *)
(* v1 alone passes the threshold but not 60%; messages a and b of the same *)
(* voting round, so that both wait for the same timer.  v1 signs a under   *)
(* another protocol id, and b under another round, than the message has.   *)
(***************************************************************************)
EXTENDS FinalizerQueue, FiniteSetsExt, TLC

CONSTANTS v1, v2, v3, a, b, p, q

MCVoter == {v1, v2, v3}
MCMessage == {a, b}
MCProtocol == {p, q}
MCProtocolOf == (a :> p) @@ (b :> p)
MCRoundOf == (a :> 1) @@ (b :> 1)
Sig(protocol, round, m, v) ==
  [protocolId |-> protocol, votingRoundId |-> round, message |-> m, signer |-> v]
MCSubmissions ==
  {Sig(p, 1, m, v) : m \in MCMessage, v \in MCVoter} \cup {Sig(q, 1, a, v1), Sig(p, 2, b, v1)}
MCRewardEpoch == {0}
MCStartVotingRound == 0 :> 1
MCThreshold == 0 :> 2
MCVotersOf == 0 :> MCVoter
Weight == (v1 :> 3) @@ (v2 :> 1) @@ (v3 :> 1)
MCWeightOf == 0 :> [S \in SUBSET MCVoter |-> MapThenSumSet(LAMBDA v : Weight[v], S)]
==============================================================================
