------------------------------ MODULE MerkleTree ------------------------------
(* The tree over a vault's signer commitments as the browser builds it        *)
(* (web/lib/prover.ts) and as the circuit checks a path of it                 *)
(* (circuits/merkle.circom).  Poseidon is taken to be injective: the hash of  *)
(* two nodes is the pair of them.                                             *)
EXTENDS Integers, Sequences

CONSTANT LEVELS

ASSUME LevelsAssumption == LEVELS \in Nat

(* 1 << n.                                                                    *)
Shift[n \in Nat] == IF n = 0 THEN 1 ELSE 2 * Shift[n - 1]

size == Shift[LEVELS]
H(l, r) == <<l, r>>

(* buildTree: at most size leaves, the last one repeated to fill up; layer l  *)
(* has 1 << (LEVELS - l) nodes, numbered from 0.                              *)
Padded(leaves) == [i \in 0..size - 1 |-> leaves[IF i < Len(leaves) THEN i + 1 ELSE Len(leaves)]]

buildTree(leaves) ==
    LET layer[l \in 0..LEVELS] ==
            IF l = 0 THEN Padded(leaves)
            ELSE [i \in 0..Shift[LEVELS - l] - 1 |->
                    H(layer[l - 1][2 * i], layer[l - 1][2 * i + 1])]
    IN  layer

rootOf(leaves) == buildTree(leaves)[LEVELS][0]

(* merklePath: the sibling on each layer, and on which side it is.  (The first*)
(* is a fault: the sibling is always taken to be the next node.)              *)
merklePathNext(layers, index) ==
    LET idx[l \in Nat] == IF l = 0 THEN index ELSE idx[l - 1] \div 2
    IN  [l \in 0..LEVELS - 1 |->
            [element |-> layers[l][(idx[l] + 1) % Shift[LEVELS - l]], side |-> idx[l] % 2]]
merklePath(layers, index) ==
    LET idx[l \in Nat] == IF l = 0 THEN index ELSE idx[l - 1] \div 2
    IN  [l \in 0..LEVELS - 1 |->
            [element |-> layers[l][IF idx[l] % 2 = 0 THEN idx[l] + 1 ELSE idx[l] - 1],
             side |-> idx[l] % 2]]

(* MerkleTreeChecker.                                                         *)
PathLeadsTo(root, leaf, path) ==
    LET node[l \in 0..LEVELS] ==
            IF l = 0 THEN leaf
            ELSE IF path[l - 1].side = 0 THEN H(node[l - 1], path[l - 1].element)
                                         ELSE H(path[l - 1].element, node[l - 1])
    IN  node[LEVELS] = root
==============================================================================
