----------------------------- MODULE DepositTree -----------------------------
(* DepositTree: the root of the deposit contract's Merkle tree, kept up to    *)
(* date with one branch of it.  A hash of two nodes is their pair, so that    *)
(* different trees have different roots.                                      *)
EXTENDS Integers, Sequences

CONSTANTS
    DEPOSIT_CONTRACT_TREE_DEPTH,
    ZERO_HASH,
    None            \* a place of the branch that was never written

ASSUME DepthAssumption == DEPOSIT_CONTRACT_TREE_DEPTH \in Nat \ {0}

Heights == 0..DEPOSIT_CONTRACT_TREE_DEPTH - 1

digest2Bytes32(a, b) == << a, b >>

zeroHashes[h \in Heights] ==
    IF h = 0 THEN ZERO_HASH ELSE digest2Bytes32(zeroHashes[h - 1], zeroHashes[h - 1])

NewTree == [branch |-> [h \in Heights |-> None], nodeCount |-> 0]

\* size after each of the loop's size /= 2n.
halvesOf(size) ==
    LET half[h \in 0..DEPOSIT_CONTRACT_TREE_DEPTH] == IF h = 0 THEN size ELSE half[h - 1] \div 2
    IN  half

\* size % 2n === 1n after h halvings.
Odd(size, h) == halvesOf(size)[h] % 2 = 1

\* The node hashed with the branch, up to each height.
hashedUp(branch, node) ==
    LET up[h \in Heights] == IF h = 0 THEN node ELSE digest2Bytes32(branch[h - 1], up[h - 1])
    IN  up

\* The branch changes at the first height whose subtree the node completes on
\* the left.
formBranch(branch, node, size) ==
    [h \in Heights |->
        IF Odd(size, h) /\ \A l \in 0..h - 1 : ~Odd(size, l)
        THEN hashedUp(branch, node)[h]
        ELSE branch[h]]

\* insert takes the node that is next and no other.
Fits(tree, depositCount) == depositCount = tree.nodeCount

insert(tree, node) ==
    [branch |-> formBranch(tree.branch, node, tree.nodeCount + 1),
     nodeCount |-> tree.nodeCount + 1]

\* Every place of the branch that stands for leaves is hashed from the left,
\* every other one, a subtree of zeros, from the right; the count is mixed in.
rootsOf(tree) ==
    LET up[h \in 0..DEPOSIT_CONTRACT_TREE_DEPTH] ==
            IF h = 0 THEN ZERO_HASH
            ELSE IF Odd(tree.nodeCount, h - 1)
                 THEN digest2Bytes32(tree.branch[h - 1], up[h - 1])
                 ELSE digest2Bytes32(up[h - 1], zeroHashes[h - 1])
    IN  up

getRoot(tree) == << rootsOf(tree)[DEPOSIT_CONTRACT_TREE_DEPTH], tree.nodeCount >>

clone(tree) == [branch |-> [h \in Heights |-> tree.branch[h]], nodeCount |-> tree.nodeCount]

-----------------------------------------------------------------------------
\* The root by definition: of the full tree over the leaves and zeros, whose
\* i-th node at a height has the nodes 2i and 2i + 1 below it.
nodesOf(leaves) ==
    LET node[h \in 0..DEPOSIT_CONTRACT_TREE_DEPTH] ==
            IF h = 0 THEN [i \in Nat |-> IF i < Len(leaves) THEN leaves[i + 1] ELSE ZERO_HASH]
            ELSE [i \in Nat |-> digest2Bytes32(node[h - 1][2 * i], node[h - 1][2 * i + 1])]
    IN  node

MerkleRoot(leaves) == << nodesOf(leaves)[DEPOSIT_CONTRACT_TREE_DEPTH][0], Len(leaves) >>

=============================================================================
