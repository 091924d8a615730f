-------------------------------- MODULE Merkle --------------------------------
(***************************************************************************)
(* The Merkle tree of utils/merkle/merkle.go: built over the sorted leaves *)
(* in an array whose node i has the children 2i+1 and 2i+2, with proofs    *)
(* for leaves and their verification.                                      *)
(*                                                                         *)
(* Hashes are free of collisions: the hash of a leaf is its number in the  *)
(* order of the hex strings, the hash of a sorted pair is the set of the   *)
(* two, as the order of the arguments does not matter.                     *)
(***************************************************************************)
EXTENDS Naturals, Sequences, SequencesExt, FiniteSetsExt

CONSTANTS
  Leaf,       \* leaf hashes, numbered in their order
  MaxLeaves   \* bound: leaves of a tree

ASSUME MerkleAssumption == Leaf \subseteq Nat /\ MaxLeaves \in Nat \ {0}

VARIABLES
  hexValues  \* the values given to BuildFromHex

LeafHash(k) == [leaf |-> k, pair |-> {}]
SortedHashPair(x, y) == [leaf |-> 0, pair |-> {x, y}]

\* BuildFromHex drops a value that equals the one before it.
Deduplicated(s) ==
  LET keep == SelectSeq([k \in DOMAIN s |-> k], LAMBDA k : k = 1 \/ s[k] # s[k - 1])
  IN  [k \in DOMAIN keep |-> s[keep[k]]]

\* The leaves of the tree, in order.
SortedHashes(s) == SortSeq(Deduplicated(s), <)

\* The array of the tree: m - 1 inner nodes, then the m leaves.  With initialHash
\* every leaf is first replaced by its hash, an injective renaming; the numbers in
\* Leaf are those after it.  The code panics on a list without values, which is
\* left out.
Build(s) ==
  LET leaves == SortedHashes(s)
      m == Len(leaves)
      tree[i \in 0 .. 2 * m - 2] ==
        IF i >= m - 1 THEN LeafHash(leaves[i - (m - 1) + 1])
        ELSE SortedHashPair(tree[2 * i + 1], tree[2 * i + 2])
  IN  tree

Size(tree) == Max(DOMAIN tree) + 1
HashCount(tree) == (Size(tree) + 1) \div 2
Root(tree) == tree[0]
GetHash(tree, i) == tree[Size(tree) - HashCount(tree) + i]

parent(i) == (i - 1) \div 2
\* Mutant of sibling: always the node to the right.
siblingRight(pos) == IF pos % 2 = 0 THEN pos ELSE pos + 1
sibling(pos) == (pos + 2 * (pos % 2)) - 1

\* The siblings on the way from the i-th leaf to the root.
GetProof(tree, i) ==
  LET path[pos \in DOMAIN tree] ==
        IF pos = 0 THEN <<>> ELSE <<tree[sibling(pos)]>> \o path[parent(pos)]
  IN  path[Size(tree) - HashCount(tree) + i]

\* sort.Search: the first leaf that is not below the hash, or the number of leaves.
Search(tree, h) ==
  Min({i \in 0 .. HashCount(tree) - 1 : GetHash(tree, i).leaf >= h.leaf} \cup {HashCount(tree)})

\* The proof of a leaf found by binary search, or ErrHashNotFound.
GetProofFromHash(tree, h) ==
  LET i == Search(tree, h)
  IN  IF i < HashCount(tree) /\ GetHash(tree, i) = h
      THEN [found |-> TRUE, proof |-> GetProof(tree, i)]
      ELSE [found |-> FALSE, proof |-> <<>>]

VerifyProof(leaf, proof, root) ==
  FoldLeft(LAMBDA hash, pair : SortedHashPair(pair, hash), leaf, proof) = root

\* Init and the step choose the values of the tree; without values there is no tree.
MerkleInit == hexValues \in {<<k>> : k \in Leaf}

AddValue(k) ==
  /\ Len(hexValues) < MaxLeaves
  /\ hexValues' = Append(hexValues, k)

MerkleNext == \E k \in Leaf : AddValue(k)

(***************************************************************************)
(* Properties.                                                             *)
(***************************************************************************)

\* A hash is found exactly if it was given to the tree; its proof verifies against
\* the root, and for no other leaf.
ProofsVerify ==
  LET tree == Build(hexValues)
  IN  \A h \in Leaf :
        LET r == GetProofFromHash(tree, LeafHash(h))
        IN  /\ r.found <=> h \in ToSet(hexValues)
            /\ r.found => \A k \in Leaf :
                            VerifyProof(LeafHash(k), r.proof, Root(tree)) <=> k = h
==============================================================================
