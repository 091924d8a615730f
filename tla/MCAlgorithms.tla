---------------------------- MODULE MCAlgorithms ----------------------------
(* The two algorithms share nothing: each behaviour exercises one of them.   *)
EXTENDS VoterSet, Merkle

VARIABLE part   \* the algorithm exercised

allVars == <<voterVars, hexValues, part>>

MCInit == part \in {"voters", "merkle"} /\ VoterInit /\ MerkleInit
          /\ (part = "voters" => hexValues = <<CHOOSE k \in Leaf : TRUE>>)

MCNext ==
  \/ part = "voters" /\ VoterNext /\ UNCHANGED <<hexValues, part>>
  \/ part = "merkle" /\ MerkleNext /\ UNCHANGED <<voterVars, part>>

MCSpec == MCInit /\ [][MCNext]_allVars
==============================================================================
