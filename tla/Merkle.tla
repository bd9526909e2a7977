------------------------------- MODULE Merkle -------------------------------
(***************************************************************************)
(* Commitments and Merkle trees (commitments/sha256.hpp, merkle.cpp).      *)
(*                                                                         *)
(* A digest is symbolic: it is the tuple of its domain prefix and of what  *)
(* was hashed, so two digests are equal only if both of these are.         *)
(***************************************************************************)
EXTENDS Integers, Sequences

\* Sha256Scheme.
CommitRaw(content) == <<"leaf", content>>
CombineNodes(left, right) == <<"node", left, right>>
EmptyNode == <<"empty">>

\* A node of a layer, or its stand-in beyond the end of an odd layer.
NodeAt(layer, i) == IF i <= Len(layer) THEN layer[i] ELSE EmptyNode

NextLayer(layer) ==
  [i \in 1..((Len(layer) + 1) \div 2) |->
     CombineNodes(layer[2 * i - 1], NodeAt(layer, 2 * i))]

\* layers_: layer 0 is the leaves and each layer is half of the one below.  The
\* entries above the root repeat it.
Layers(leaves) ==
  LET layer[d \in 0..Len(leaves)] ==
        IF d = 0 THEN leaves
        ELSE IF Len(layer[d - 1]) > 1 THEN NextLayer(layer[d - 1])
        ELSE layer[d - 1]
  IN  layer

\* MerkleTree::root.
MerkleRoot(leaves) ==
  IF leaves = << >> THEN EmptyNode ELSE Layers(leaves)[Len(leaves)][1]

\* Variant: the unpaired node at the end of a layer is its own sibling.
TwinSibling(layer, i) ==
  IF i % 2 = 1 THEN [side |-> "Left", sibling |-> layer[i]]
  ELSE [side |-> "Right", sibling |-> IF i + 2 <= Len(layer) THEN layer[i + 2]
                                      ELSE layer[i + 1]]

\* The step of a path at the node with index i, counted from zero.
Sibling(layer, i) ==
  IF i % 2 = 1 THEN [side |-> "Left", sibling |-> layer[i]]
               ELSE [side |-> "Right", sibling |-> NodeAt(layer, i + 2)]

\* MerkleTree::generate_proof, for an index below the number of leaves.
GenerateProof(leaves, index) ==
  LET layers == Layers(leaves)
      height == CHOOSE d \in 0..Len(leaves) :
                  /\ Len(layers[d]) = 1
                  /\ \A e \in 0..(d - 1) : Len(layers[e]) > 1
      idx[d \in 0..Len(leaves)] == IF d = 0 THEN index ELSE idx[d - 1] \div 2
  IN  [k \in 1..height |-> Sibling(layers[k - 1], idx[k - 1])]

\* MerkleProof::verify.
VerifyProof(path, root, leaf) ==
  LET node[k \in 0..Len(path)] ==
        IF k = 0 THEN leaf
        ELSE IF path[k].side = "Left"
        THEN CombineNodes(path[k].sibling, node[k - 1])
        ELSE CombineNodes(node[k - 1], path[k].sibling)
  IN  node[Len(path)] = root
=============================================================================
