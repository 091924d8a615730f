------------------------------- MODULE VoterSet -------------------------------
(***************************************************************************)
(* The weighted draw of the voters that finalize first                     *)
(* (client/shared/voters/voter_set.go): NewVoterSet lays the weights end   *)
(* to end, RandomSelectThresholdWeightVoters draws values from a chain of  *)
(* hashes until the drawn voters have the wanted weight, and BinarySearch  *)
(* finds the voter of a value.  Indices count from 0 as in the source.     *)
(*                                                                         *)
(* A hash modulo the total weight is any value below it.                   *)
(***************************************************************************)
EXTENDS Integers, FiniteSets, FiniteSetsExt

CONSTANTS
  Address,    \* signing policy addresses
  Weight,     \* weights of voters
  BIPS,       \* values of thresholdBIPS
  MaxVoters   \* bound: voters of a policy

MaxUint16 == 65535
MaxBIPS == 5000

ASSUME VoterSetAssumption ==
  /\ Weight \subseteq Nat /\ BIPS \subseteq Nat /\ MaxVoters \in Nat

VARIABLES
  drawPc,              \* control of the constructor and of the draw
  n,               \* number of voters
  voters,          \* address of each voter
  weights,         \* weight of each voter
  thresholds,      \* sum of the weights before each voter
  totalWeight,     \* sum of the weights
  thresholdWeight, \* weight to be reached
  selectedWeight,  \* weight of the voters drawn
  selectedVoters,  \* addresses drawn
  value,           \* value searched for
  left, right,     \* bounds of the search
  index,           \* result of the search
  last             \* history: weight of the last voter drawn

setVars == <<n, voters, weights, thresholds, totalWeight>>
drawVars == <<thresholdWeight, selectedWeight, selectedVoters, last>>
searchVars == <<value, left, right, index>>
voterVars == <<drawPc, setVars, drawVars, searchVars>>

Extend(f, v) == [i \in 0 .. n |-> IF i = n THEN v ELSE f[i]]

\* One round of the constructor's loop over the lists of the policy.  The sum of
\* the weights fits in 16 bits, guaranteed by the contract.
AddVoter(a, w) ==
  /\ drawPc = "build"
  /\ n < MaxVoters
  /\ totalWeight + w <= MaxUint16
  /\ voters' = Extend(voters, a) /\ weights' = Extend(weights, w)
  /\ thresholds' = Extend(thresholds, totalWeight)
  /\ totalWeight' = (totalWeight + w) % (MaxUint16 + 1)
  /\ n' = n + 1
  /\ UNCHANGED <<drawPc, drawVars, searchVars>>

\* voterDataMap keeps the first voter with an address.
VoterIndex(a) ==
  LET I == {i \in 0 .. n - 1 : voters[i] = a} IN IF I = {} THEN -1 ELSE Min(I)

\* RandomSelectThresholdWeightVoters begins, or refuses the threshold.
SelectVoters(bips) ==
  /\ drawPc = "build"
  /\ IF bips > MaxBIPS
     THEN drawPc' = "error" /\ UNCHANGED drawVars
     ELSE /\ thresholdWeight' = (totalWeight * bips) \div 10000
          /\ selectedWeight' = 0 /\ selectedVoters' = {} /\ last' = 0
          /\ drawPc' = "loop"
  /\ UNCHANGED <<setVars, searchVars>>

\* Mutant of Draw: the values count from one.
DrawFromOne(v) ==
  /\ drawPc = "loop"
  /\ selectedWeight < thresholdWeight
  /\ value' = v + 1
  /\ drawPc' = "begin"
  /\ UNCHANGED <<setVars, drawVars, left, right, index>>

\* The next hash gives the value v.
Draw(v) ==
  /\ drawPc = "loop"
  /\ selectedWeight < thresholdWeight
  /\ value' = v
  /\ drawPc' = "begin"
  /\ UNCHANGED <<setVars, drawVars, left, right, index>>

\* BinarySearch begins: it panics on a value above the total weight or an empty
\* list, and the last voter needs no search.
SearchBegin ==
  /\ drawPc = "begin"
  /\ left' = 0 /\ right' = n - 1
  /\ IF value > totalWeight \/ n = 0
     THEN drawPc' = "panic" /\ UNCHANGED index
     ELSE IF thresholds[n - 1] <= value
     THEN drawPc' = "select" /\ index' = n - 1
     ELSE drawPc' = "search" /\ UNCHANGED index
  /\ UNCHANGED <<setVars, drawVars, value>>

\* Mutant of SearchStep: the lower half loses its middle.
SearchStepDropsMiddle ==
  LET mid == (left + right) \div 2
  IN  /\ drawPc = "search"
      /\ left < right
      /\ \/ thresholds[mid] < value /\ left' = mid + 1 /\ UNCHANGED <<drawPc, right, index>>
         \/ thresholds[mid] > value /\ right' = mid - 1 /\ UNCHANGED <<drawPc, left, index>>
         \/ thresholds[mid] = value /\ drawPc' = "select" /\ index' = mid /\ UNCHANGED <<left, right>>
      /\ UNCHANGED <<setVars, drawVars, value>>

\* One round of its loop.
SearchStep ==
  LET mid == (left + right) \div 2
  IN  /\ drawPc = "search"
      /\ left < right
      /\ \/ thresholds[mid] < value /\ left' = mid + 1 /\ UNCHANGED <<drawPc, right, index>>
         \/ thresholds[mid] > value /\ right' = mid /\ UNCHANGED <<drawPc, left, index>>
         \/ thresholds[mid] = value /\ drawPc' = "select" /\ index' = mid /\ UNCHANGED <<left, right>>
      /\ UNCHANGED <<setVars, drawVars, value>>

\* The loop ends.
SearchEnd ==
  /\ drawPc = "search"
  /\ ~(left < right)
  /\ index' = left - 1
  /\ drawPc' = "select"
  /\ UNCHANGED <<setVars, drawVars, value, left, right>>

\* Mutant of Select: a voter drawn twice counts twice.
SelectAgain ==
  /\ drawPc = "select"
  /\ selectedVoters' = selectedVoters \cup {voters[index]}
  /\ selectedWeight' = (selectedWeight + weights[index]) % (MaxUint16 + 1)
  /\ last' = weights[index]
  /\ drawPc' = "loop"
  /\ value' = 0 /\ left' = 0 /\ right' = 0 /\ index' = 0
  /\ UNCHANGED <<setVars, thresholdWeight>>

\* The voter found is added unless its address is there; the variables of the
\* search are gone.
Select ==
  /\ drawPc = "select"
  /\ IF voters[index] \in selectedVoters
     THEN UNCHANGED <<selectedVoters, selectedWeight, last>>
     ELSE /\ selectedVoters' = selectedVoters \cup {voters[index]}
          /\ selectedWeight' = (selectedWeight + weights[index]) % (MaxUint16 + 1)
          /\ last' = weights[index]
  /\ drawPc' = "loop"
  /\ value' = 0 /\ left' = 0 /\ right' = 0 /\ index' = 0
  /\ UNCHANGED <<setVars, thresholdWeight>>

Return ==
  /\ drawPc = "loop"
  /\ ~(selectedWeight < thresholdWeight)
  /\ drawPc' = "done"
  /\ UNCHANGED <<setVars, drawVars, searchVars>>

VoterInit ==
  /\ drawPc = "build" /\ n = 0
  /\ voters = [i \in {} |-> 0] /\ weights = [i \in {} |-> 0]
  /\ thresholds = [i \in {} |-> 0] /\ totalWeight = 0
  /\ thresholdWeight = 0 /\ selectedWeight = 0 /\ selectedVoters = {} /\ last = 0
  /\ value = 0 /\ left = 0 /\ right = 0 /\ index = 0

BinarySearch == SearchBegin \/ SearchStep \/ SearchEnd

VoterNext ==
  \/ \E a \in Address, w \in Weight : AddVoter(a, w)
  \/ \E b \in BIPS : SelectVoters(b)
  \/ \E v \in 0 .. totalWeight - 1 : Draw(v)
  \/ BinarySearch \/ Select \/ Return

VoterSpec == VoterInit /\ [][VoterNext]_voterVars

(***************************************************************************)
(* Properties.                                                             *)
(***************************************************************************)

VoterTypeOK ==
  /\ drawPc \in {"build", "error", "loop", "begin", "search", "select", "done", "panic"}
  /\ n \in 0 .. MaxVoters
  /\ voters \in [0 .. n - 1 -> Address]
  /\ weights \in [0 .. n - 1 -> Weight]
  /\ thresholds \in [0 .. n - 1 -> 0 .. MaxUint16]
  /\ totalWeight \in 0 .. MaxUint16
  /\ thresholdWeight \in 0 .. MaxUint16 /\ selectedWeight \in 0 .. MaxUint16
  /\ selectedVoters \subseteq Address /\ last \in 0 .. MaxUint16
  /\ value \in 0 .. MaxUint16
  /\ left \in 0 .. MaxVoters /\ right \in -1 .. MaxVoters /\ index \in -1 .. MaxVoters

\* No draw panics: the search is never asked for a value above the total weight,
\* nor on an empty list, and the voter it returns is in the list and begins at or
\* before the value.
SearchIsSafe ==
  /\ drawPc # "panic"
  /\ drawPc = "select" => index \in 0 .. n - 1 /\ thresholds[index] <= value

\* Without voters of weight zero, the search finds the voter whose share of the
\* total weight holds the value, so that each is drawn in proportion to its weight.
DrawnInProportion ==
  (drawPc = "select" /\ \A k \in 0 .. n - 1 : weights[k] > 0) =>
    thresholds[index] <= value /\ value < thresholds[index] + weights[index]

\* BinarySearch, with any weights: "Searches for the highest index of the threshold
\* that is less than or equal to the value."
SearchFindsHighest ==
  drawPc = "select" => index = Max({k \in 0 .. n - 1 : thresholds[k] <= value})

Distinct == \A i, j \in 0 .. n - 1 : voters[i] = voters[j] => i = j

\* The draw returns the first time the voters drawn, each counted once, have the
\* wanted weight, which is at most half of the total: without the last of them it
\* is missed.
SelectionIsMinimal ==
  LET drawn == MapThenSumSet(LAMBDA a : weights[VoterIndex(a)], selectedVoters)
  IN  /\ VoterTypeOK
      /\ drawPc = "done" /\ Distinct =>
           /\ thresholdWeight <= drawn /\ 2 * thresholdWeight <= totalWeight
           /\ thresholdWeight > 0 => drawn - last < thresholdWeight
==============================================================================
