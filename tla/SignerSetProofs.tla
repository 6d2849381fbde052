--------------------------- MODULE SignerSetProofs ---------------------------
(* Anonymous voting for trees of every height and groups of every size: the   *)
(* path the browser finds leads from each published leaf to the root, no path *)
(* at all leads there from anything else, and so every member can vote.       *)
EXTENDS SignerSet, FiniteSetTheorems, WellFoundedInduction, TLAPS

(* Induction, as every proof below uses it: a property of numbers that fails  *)
(* fails somewhere first.                                                     *)
LEMMA LeastNat ==
    ASSUME NEW S, S \subseteq Nat, S # {}
    PROVE  \E m \in S : \A n \in S : m <= n
<1> DEFINE R == OpToRel(<, Nat)
<1>1. IsWellFoundedOn(R, Nat)
  BY NatLessThanWellFounded
<1>2. PICK m \in S : \A n \in S : <<n, m>> \notin R
  <2> HIDE DEF R
  <2> QED BY <1>1, WFMin
<1>3. \A n \in S : ~(n < m)
  BY <1>2 DEF OpToRel
<1>4. \A n \in S : m <= n
  BY <1>3
<1> QED BY <1>4

------------------------------------------------------------------------------
(* What the model computes step by step, by the step it takes: 1 << n, the    *)
(* index halved on the way up, the layers of the tree, and the nodes that a   *)
(* path leads through.                                                        *)
Step(o, l, x) ==
    CASE o.of = "power" -> 2 * x
      [] o.of = "index" -> x \div 2
      [] o.of = "layer" -> [i \in 0..Shift[LEVELS - l] - 1 |-> H(x[2 * i], x[2 * i + 1])]
      [] o.of = "node"  -> IF o.path[l - 1].side = 0 THEN H(x, o.path[l - 1].element)
                                                     ELSE H(o.path[l - 1].element, x)

Steps(o, first, n, f) ==
    f = [l \in 0..n |-> IF l = 0 THEN first ELSE Step(o, l, f[l - 1])]
StepsFor(o, first, f) ==
    f = [n \in Nat |-> IF n = 0 THEN first ELSE Step(o, n, f[n - 1])]

(* Any number of steps can be taken ...                                       *)
LEMMA StepsExist ==
    ASSUME NEW o, NEW first
    PROVE  \A n \in Nat : \E f : Steps(o, first, n, f)
<1> DEFINE Stuck == {n \in Nat : ~ \E f : Steps(o, first, n, f)}
<1>1. ASSUME Stuck # {} PROVE FALSE
  <2>1. PICK m \in Stuck : \A n \in Stuck : m <= n
    <3>1. Stuck \subseteq Nat
      OBVIOUS
    <3> HIDE DEF Stuck
    <3> QED BY <1>1, <3>1, LeastNat
  <2>2. m # 0
    <3>1. SUFFICES ASSUME m = 0 PROVE FALSE
      OBVIOUS
    <3> DEFINE f == [k \in 0..0 |-> first]
    <3>2. f = [k \in 0..0 |-> IF k = 0 THEN first ELSE Step(o, k, f[k - 1])]
      OBVIOUS
    <3> HIDE DEF f
    <3> QED BY <2>1, <3>1, <3>2 DEF Steps
  <2>3. m \in Nat \ {0} /\ m - 1 \in Nat
    BY <2>2
  <2>4. m - 1 \notin Stuck
    <3> HIDE DEF Stuck
    <3> QED BY <2>1, <2>3
  <2>5. PICK f : Steps(o, first, m - 1, f)
    BY <2>3, <2>4
  <2> HIDE DEF Stuck
  <2> DEFINE g == [k \in 0..m |-> IF k = m THEN Step(o, m, f[m - 1]) ELSE f[k]]
  <2>6. ASSUME NEW k \in 0..m PROVE g[k] = IF k = 0 THEN first ELSE Step(o, k, g[k - 1])
    <3>1. \A j \in 0..m - 1 : f[j] = IF j = 0 THEN first ELSE Step(o, j, f[j - 1])
      BY <2>5 DEF Steps
    <3>2. CASE k = m
      BY <2>2, <2>3, <3>2
    <3>3. CASE k # m
      <4>1. k \in 0..m - 1 /\ (k # 0 => k - 1 \in 0..m /\ k - 1 # m)
        BY <2>3, <3>3
      <4> QED BY <3>1, <3>3, <4>1
    <3> QED BY <3>2, <3>3
  <2>7. g = [k \in 0..m |-> g[k]]
    OBVIOUS
  <2> HIDE DEF g
  <2>8. Steps(o, first, m, g)
    BY <2>6, <2>7 DEF Steps
  <2> QED BY <2>1, <2>8 DEF Stuck
<1> QED BY <1>1

(* ... in one way only ...                                                    *)
LEMMA StepsAgree ==
    ASSUME NEW o, NEW first, NEW n \in Nat, NEW k \in 0..n, NEW f, NEW g,
           Steps(o, first, n, f), Steps(o, first, k, g)
    PROVE  f[k] = g[k]
<1> DEFINE Differ == {m \in 0..k : f[m] # g[m]}
<1>1. ASSUME Differ # {} PROVE FALSE
  <2>1. PICK m \in Differ : \A l \in Differ : m <= l
    <3>1. Differ \subseteq Nat
      OBVIOUS
    <3> HIDE DEF Differ
    <3> QED BY <1>1, <3>1, LeastNat
  <2>2. m # 0
    BY DEF Steps
  <2>3. m - 1 \in 0..k /\ m - 1 \notin Differ
    BY <2>1, <2>2
  <2>4. f[m - 1] = g[m - 1]
    BY <2>3
  <2>5. f[m] = Step(o, m, f[m - 1]) /\ g[m] = Step(o, m, g[m - 1])
    BY <2>1, <2>2 DEF Steps
  <2> QED BY <2>1, <2>4, <2>5
<1> QED BY <1>1

(* ... and for all numbers at once.                                           *)
LEMMA StepsGoOn ==
    ASSUME NEW o, NEW first
    PROVE  \E f : StepsFor(o, first, f)
<1> DEFINE g(n) == CHOOSE f : Steps(o, first, n, f)
           h    == [n \in Nat |-> g(n)[n]]
<1>1. ASSUME NEW n \in Nat PROVE Steps(o, first, n, g(n))
  BY StepsExist
<1> HIDE DEF g
<1>2. ASSUME NEW n \in Nat PROVE h[n] = IF n = 0 THEN first ELSE Step(o, n, h[n - 1])
  <2>1. Steps(o, first, n, g(n))
    BY <1>1
  <2>2. CASE n = 0
    BY <2>1, <2>2 DEF Steps
  <2>3. CASE n # 0
    <3>1. n - 1 \in 0..n /\ n - 1 \in Nat /\ n \in 0..n
      BY <2>3
    <3>2. Steps(o, first, n - 1, g(n - 1))
      BY <1>1, <3>1
    <3>3. g(n)[n - 1] = g(n - 1)[n - 1]
      BY <2>1, <3>1, <3>2, StepsAgree
    <3>4. g(n)[n] = Step(o, n, g(n)[n - 1])
      BY <2>1, <2>3, <3>1 DEF Steps
    <3>5. h[n] = g(n)[n] /\ h[n - 1] = g(n - 1)[n - 1]
      BY <3>1
    <3> QED BY <2>3, <3>3, <3>4, <3>5
  <2> QED BY <2>2, <2>3
<1>3. h = [n \in Nat |-> h[n]]
  OBVIOUS
<1> HIDE DEF h
<1>4. h = [n \in Nat |-> IF n = 0 THEN first ELSE Step(o, n, h[n - 1])]
  BY <1>2, <1>3
<1> QED BY <1>4 DEF StepsFor

------------------------------------------------------------------------------
(* The tree.                                                                  *)
LEMMA Powers ==
    /\ Shift[0] = 1
    /\ \A n \in Nat : Shift[n] \in Nat \ {0} /\ Shift[n + 1] = 2 * Shift[n]
<1> DEFINE Is(f) == f = [n \in Nat |-> IF n = 0 THEN 1 ELSE 2 * f[n - 1]]
           o     == [of |-> "power"]
<1>1. PICK f : StepsFor(o, 1, f)
  BY StepsGoOn
<1>2. \A n, x : Step(o, n, x) = 2 * x
  BY DEF Step
<1>3. Is(f)
  BY <1>1, <1>2 DEF StepsFor
<1>4. Is(Shift)
  <2>1. Is(CHOOSE g : Is(g))
    <3> HIDE DEF Is
    <3> QED BY <1>3
  <2> QED BY <2>1 DEF Shift
<1>5. \A n \in Nat : Shift[n] = IF n = 0 THEN 1 ELSE 2 * Shift[n - 1]
  BY <1>4
<1>6. \A n \in Nat : Shift[n] \in Nat \ {0}
  <2> DEFINE Odd == {n \in Nat : Shift[n] \notin Nat \ {0}}
  <2>1. ASSUME Odd # {} PROVE FALSE
    <3>1. PICK m \in Odd : \A n \in Odd : m <= n
      <4>1. Odd \subseteq Nat
        OBVIOUS
      <4> HIDE DEF Odd
      <4> QED BY <2>1, <4>1, LeastNat
    <3>2. m # 0
      BY <1>5
    <3>3. m - 1 \in Nat /\ m - 1 \notin Odd
      BY <3>1, <3>2
    <3>4. Shift[m] = 2 * Shift[m - 1]
      BY <1>5, <3>1, <3>2
    <3> QED BY <3>1, <3>3, <3>4
  <2> QED BY <2>1
<1>7. Shift[0] = 1
  BY <1>5
<1>8. ASSUME NEW n \in Nat PROVE Shift[n + 1] = 2 * Shift[n]
  BY <1>5
<1> QED BY <1>6, <1>7, <1>8

Width(l) == Shift[LEVELS - l]

(* Each layer is half as wide as the one below, and the last one is the root. *)
LEMMA Widths ==
    /\ LEVELS \in Nat /\ size \in Nat \ {0}
    /\ Width(0) = size /\ Width(LEVELS) = 1
    /\ \A l \in 0..LEVELS : Width(l) \in Nat \ {0}
    /\ \A l \in 1..LEVELS : Width(l - 1) = 2 * Width(l)
<1>1. LEVELS \in Nat
  BY LevelsAssumption
<1>2. ASSUME NEW l \in 0..LEVELS PROVE Width(l) \in Nat \ {0}
  <2>1. LEVELS - l \in Nat
    BY <1>1
  <2> QED BY <2>1, Powers DEF Width
<1>3. ASSUME NEW l \in 1..LEVELS PROVE Width(l - 1) = 2 * Width(l)
  <2>1. LEVELS - l \in Nat /\ LEVELS - (l - 1) = (LEVELS - l) + 1
    BY <1>1
  <2> QED BY <2>1, Powers DEF Width
<1>4. LEVELS - 0 = LEVELS /\ LEVELS - LEVELS = 0
  BY <1>1
<1> QED BY <1>1, <1>2, <1>3, <1>4, Powers DEF Width, size

(* buildTree: the leaves below, above them the hashes of two neighbours.      *)
LEMMA Layers ==
    ASSUME NEW leaves
    PROVE  LET layer == buildTree(leaves)
           IN  /\ layer[0] = Padded(leaves)
               /\ \A l \in 1..LEVELS : \A i \in 0..Width(l) - 1 :
                     layer[l][i] = H(layer[l - 1][2 * i], layer[l - 1][2 * i + 1])
<1> DEFINE Is(f) ==
        f = [l \in 0..LEVELS |->
                IF l = 0 THEN Padded(leaves)
                ELSE [i \in 0..Shift[LEVELS - l] - 1 |->
                        H(f[l - 1][2 * i], f[l - 1][2 * i + 1])]]
           o == [of |-> "layer"]
<1>1. LEVELS \in Nat
  BY LevelsAssumption
<1>2. PICK f : Steps(o, Padded(leaves), LEVELS, f)
  BY <1>1, StepsExist
<1>3. \A l, x : Step(o, l, x) =
                [i \in 0..Shift[LEVELS - l] - 1 |-> H(x[2 * i], x[2 * i + 1])]
  BY DEF Step
<1>4. Is(f)
  <2> DEFINE rest(l) == [i \in 0..Shift[LEVELS - l] - 1 |->
                            H(f[l - 1][2 * i], f[l - 1][2 * i + 1])]
  <2>1. \A l : Step(o, l, f[l - 1]) = rest(l)
    BY <1>3
  <2> HIDE DEF rest
  <2>2. f = [l \in 0..LEVELS |-> IF l = 0 THEN Padded(leaves) ELSE rest(l)]
    BY <1>2, <2>1 DEF Steps
  <2> QED BY <2>2 DEF rest
<1> DEFINE layer == buildTree(leaves)
<1>5. Is(layer)
  <2>1. Is(CHOOSE g : Is(g))
    <3> HIDE DEF Is
    <3> QED BY <1>4
  <2> QED BY <2>1 DEF buildTree
<1> HIDE DEF layer
<1>6. layer[0] = Padded(leaves)
  BY <1>1, <1>5
<1>7. ASSUME NEW l \in 1..LEVELS, NEW i \in 0..Width(l) - 1
      PROVE  layer[l][i] = H(layer[l - 1][2 * i], layer[l - 1][2 * i + 1])
  <2> DEFINE rest(m) == [j \in 0..Shift[LEVELS - m] - 1 |->
                            H(layer[m - 1][2 * j], layer[m - 1][2 * j + 1])]
  <2>1. layer = [m \in 0..LEVELS |-> IF m = 0 THEN Padded(leaves) ELSE rest(m)]
    BY <1>5
  <2> HIDE DEF rest
  <2>2. layer[l] = rest(l)
    BY <1>1, <2>1
  <2> QED BY <2>2 DEF rest, Width
<1> QED BY <1>6, <1>7 DEF layer

(* MerkleTreeChecker: from a leaf upwards.                                    *)
LEMMA Nodes ==
    ASSUME NEW root, NEW leaf, NEW path
    PROVE  \E node :
               /\ PathLeadsTo(root, leaf, path) <=> node[LEVELS] = root
               /\ node[0] = leaf
               /\ \A l \in 1..LEVELS :
                     node[l] = IF path[l - 1].side = 0 THEN H(node[l - 1], path[l - 1].element)
                                                       ELSE H(path[l - 1].element, node[l - 1])
<1> DEFINE Is(f) ==
        f = [l \in 0..LEVELS |->
                IF l = 0 THEN leaf
                ELSE IF path[l - 1].side = 0 THEN H(f[l - 1], path[l - 1].element)
                                             ELSE H(path[l - 1].element, f[l - 1])]
           o == [of |-> "node", path |-> path]
           node == CHOOSE f : Is(f)
<1>1. LEVELS \in Nat
  BY LevelsAssumption
<1>2. PICK f : Steps(o, leaf, LEVELS, f)
  BY <1>1, StepsExist
<1>3. \A l, x : Step(o, l, x) = IF path[l - 1].side = 0 THEN H(x, path[l - 1].element)
                                                       ELSE H(path[l - 1].element, x)
  BY DEF Step
<1>4. Is(f)
  BY <1>2, <1>3 DEF Steps
<1>5. Is(node)
  <2> HIDE DEF Is
  <2> QED BY <1>4
<1>6. PathLeadsTo(root, leaf, path) <=> node[LEVELS] = root
  BY DEF PathLeadsTo
<1> HIDE DEF node
<1>7. node[0] = leaf
  BY <1>1, <1>5
<1>8. ASSUME NEW l \in 1..LEVELS
      PROVE  node[l] = IF path[l - 1].side = 0 THEN H(node[l - 1], path[l - 1].element)
                                               ELSE H(path[l - 1].element, node[l - 1])
  <2>1. l \in 0..LEVELS /\ l # 0
    BY <1>1
  <2> QED BY <1>5, <2>1
<1> QED BY <1>6, <1>7, <1>8

(* merklePath: the place on each layer, and the neighbour in its pair.        *)
Sibling(i) == IF i % 2 = 0 THEN i + 1 ELSE i - 1
Leads(layers, index, idx) ==
    /\ idx[0] = index
    /\ \A l \in 0..LEVELS : idx[l] \in 0..Width(l) - 1
    /\ \A l \in 1..LEVELS : idx[l] = idx[l - 1] \div 2
    /\ merklePath(layers, index) =
            [l \in 0..LEVELS - 1 |->
                [element |-> layers[l][Sibling(idx[l])], side |-> idx[l] % 2]]

LEMMA Places ==
    ASSUME NEW layers, NEW index \in 0..size - 1
    PROVE  \E idx : Leads(layers, index, idx)
<1> DEFINE Is(f) == f = [l \in Nat |-> IF l = 0 THEN index ELSE f[l - 1] \div 2]
           o   == [of |-> "index"]
           idx == CHOOSE f : Is(f)
<1>1. LEVELS \in Nat
  BY LevelsAssumption
<1>2. PICK f : StepsFor(o, index, f)
  BY StepsGoOn
<1>3. \A l, x : Step(o, l, x) = x \div 2
  BY DEF Step
<1>4. Is(f)
  BY <1>2, <1>3 DEF StepsFor
<1>5. Is(idx)
  <2> HIDE DEF Is
  <2> QED BY <1>4
<1>6. merklePath(layers, index) =
        [l \in 0..LEVELS - 1 |->
            [element |-> layers[l][Sibling(idx[l])], side |-> idx[l] % 2]]
  BY DEF merklePath, Sibling
<1> HIDE DEF idx
<1>7. /\ idx[0] = index
      /\ \A l \in 1..LEVELS : idx[l] = idx[l - 1] \div 2
  BY <1>1, <1>5
<1>8. ASSUME NEW l \in 0..LEVELS PROVE idx[l] \in 0..Width(l) - 1
  <2> DEFINE Out == {n \in 0..LEVELS : idx[n] \notin 0..Width(n) - 1}
  <2>1. ASSUME Out # {} PROVE FALSE
    <3>1. PICK m \in Out : \A n \in Out : m <= n
      <4>1. Out \subseteq Nat
        BY <1>1
      <4> HIDE DEF Out
      <4> QED BY <2>1, <4>1, LeastNat
    <3>2. m # 0
      BY <1>7, Widths
    <3>3. m - 1 \in 0..LEVELS /\ m - 1 \notin Out
      BY <1>1, <3>1, <3>2
    <3>4. m \in 1..LEVELS
      BY <1>1, <3>2
    <3>5. Width(m - 1) = 2 * Width(m) /\ Width(m) \in Nat
      BY <3>4, Widths
    <3>6. idx[m - 1] \in 0..2 * Width(m) - 1
      BY <3>3, <3>5
    <3>7. idx[m - 1] \div 2 \in 0..Width(m) - 1
      BY <3>5, <3>6
    <3> QED BY <1>7, <3>1, <3>4, <3>7
  <2> QED BY <2>1
<1> QED BY <1>6, <1>7, <1>8 DEF Leads

(* The path found for a place of the tree leads from the leaf in that place   *)
(* to the root: buildTree, merklePath and MerkleTreeChecker agree, whatever   *)
(* the height, the leaves and the place.                                      *)
THEOREM EveryPathOpens ==
    ASSUME NEW leaves, NEW index \in 0..size - 1
    PROVE  PathLeadsTo(rootOf(leaves), Padded(leaves)[index],
                       merklePath(buildTree(leaves), index))
<1> DEFINE layer == buildTree(leaves)
           path  == merklePath(layer, index)
           leaf  == Padded(leaves)[index]
<1>1. LEVELS \in Nat
  BY LevelsAssumption
<1>2. /\ layer[0] = Padded(leaves)
      /\ \A l \in 1..LEVELS : \A i \in 0..Width(l) - 1 :
            layer[l][i] = H(layer[l - 1][2 * i], layer[l - 1][2 * i + 1])
  BY Layers
<1>3. PICK idx : Leads(layer, index, idx)
  <2> HIDE DEF layer
  <2> QED BY Places
<1> DEFINE root == layer[LEVELS][0]
<1> HIDE DEF layer, path, leaf
<1>4. PICK node :
        /\ PathLeadsTo(root, leaf, path) <=> node[LEVELS] = root
        /\ node[0] = leaf
        /\ \A l \in 1..LEVELS :
              node[l] = IF path[l - 1].side = 0 THEN H(node[l - 1], path[l - 1].element)
                                                ELSE H(path[l - 1].element, node[l - 1])
  <2> HIDE DEF root
  <2> QED BY Nodes
<1>5. ASSUME NEW l \in 1..LEVELS, node[l - 1] = layer[l - 1][idx[l - 1]]
      PROVE  node[l] = layer[l][idx[l]]
  <2> DEFINE i == idx[l]
             j == idx[l - 1]
  <2>1. /\ l - 1 \in 0..LEVELS - 1 /\ l - 1 \in 0..LEVELS /\ l \in 0..LEVELS
    BY <1>1
  <2>2. Width(l - 1) \in Nat /\ Width(l) \in Nat
    BY <2>1, Widths
  <2>3. i \in Nat /\ j \in Nat /\ i = j \div 2
    BY <1>3, <2>1, <2>2 DEF Leads
  <2>4. layer[l][i] = H(layer[l - 1][2 * i], layer[l - 1][2 * i + 1])
    BY <1>2, <1>3, <2>1 DEF Leads
  <2>5. path[l - 1].element = layer[l - 1][Sibling(j)] /\ path[l - 1].side = j % 2
    BY <1>3, <2>1 DEF Leads, path
  <2>6. node[l] = IF path[l - 1].side = 0 THEN H(node[l - 1], path[l - 1].element)
                                          ELSE H(path[l - 1].element, node[l - 1])
    BY <1>4
  <2>7. node[l - 1] = layer[l - 1][j]
    BY <1>5
  <2> HIDE DEF i, j
  <2>8. CASE j % 2 = 0
    <3>1. j = 2 * i /\ j + 1 = 2 * i + 1
      BY <2>3, <2>8
    <3> QED BY <2>4, <2>5, <2>6, <2>7, <2>8, <3>1 DEF i, Sibling
  <2>9. CASE j % 2 # 0
    <3>1. j = 2 * i + 1 /\ j - 1 = 2 * i
      BY <2>3, <2>9
    <3> QED BY <2>4, <2>5, <2>6, <2>7, <2>9, <3>1 DEF i, Sibling
  <2> QED BY <2>8, <2>9
<1>6. ASSUME NEW l \in 0..LEVELS PROVE node[l] = layer[l][idx[l]]
  <2> DEFINE Lost == {n \in 0..LEVELS : node[n] # layer[n][idx[n]]}
  <2>1. ASSUME Lost # {} PROVE FALSE
    <3>1. PICK m \in Lost : \A n \in Lost : m <= n
      <4>1. Lost \subseteq Nat
        BY <1>1
      <4> HIDE DEF Lost
      <4> QED BY <2>1, <4>1, LeastNat
    <3>2. m # 0
      BY <1>2, <1>3, <1>4 DEF leaf, Leads
    <3>3. m \in 1..LEVELS /\ m - 1 \in 0..LEVELS /\ m - 1 \notin Lost
      BY <1>1, <3>1, <3>2
    <3> QED BY <1>5, <3>1, <3>3
  <2> QED BY <2>1
<1>7. idx[LEVELS] = 0
  BY <1>1, <1>3, Widths DEF Leads
<1>8. node[LEVELS] = root
  BY <1>1, <1>6, <1>7
<1> QED BY <1>4, <1>8 DEF rootOf, layer, path, leaf

(* No path, whoever made it up, leads to the root from anything that is not a *)
(* leaf of the tree: what the circuit asks of a voter cannot be met without a *)
(* place in the list (MerkleTreeChecker, with a hash that is injective).      *)
THEOREM OnlyLeavesOpen ==
    ASSUME NEW leaves, NEW leaf, NEW path,
           PathLeadsTo(rootOf(leaves), leaf, path)
    PROVE  \E index \in 0..size - 1 : leaf = Padded(leaves)[index]
<1> DEFINE layer == buildTree(leaves)
           root  == layer[LEVELS][0]
<1>1. LEVELS \in Nat
  BY LevelsAssumption
<1>2. /\ layer[0] = Padded(leaves)
      /\ \A l \in 1..LEVELS : \A i \in 0..Width(l) - 1 :
            layer[l][i] = H(layer[l - 1][2 * i], layer[l - 1][2 * i + 1])
  BY Layers
<1>3. PathLeadsTo(root, leaf, path)
  BY DEF rootOf
<1> HIDE DEF layer
<1>4. PICK node :
        /\ PathLeadsTo(root, leaf, path) <=> node[LEVELS] = root
        /\ node[0] = leaf
        /\ \A l \in 1..LEVELS :
              node[l] = IF path[l - 1].side = 0 THEN H(node[l - 1], path[l - 1].element)
                                                ELSE H(path[l - 1].element, node[l - 1])
  <2> HIDE DEF root
  <2> QED BY Nodes
<1> DEFINE InTree(l) == \E i \in 0..Width(l) - 1 : node[l] = layer[l][i]
           Off == {n \in 0..LEVELS : ~InTree(LEVELS - n)}
<1>5. ASSUME NEW l \in 1..LEVELS, InTree(l) PROVE InTree(l - 1)
  <2>1. PICK i \in 0..Width(l) - 1 : node[l] = layer[l][i]
    BY <1>5
  <2>2. Width(l) \in Nat /\ Width(l - 1) = 2 * Width(l)
    BY <1>1, Widths
  <2>3. 2 * i \in 0..Width(l - 1) - 1 /\ 2 * i + 1 \in 0..Width(l - 1) - 1
    BY <2>2
  <2>4. node[l] = H(layer[l - 1][2 * i], layer[l - 1][2 * i + 1])
    BY <1>2, <2>1
  <2>5. \/ node[l] = H(node[l - 1], path[l - 1].element)
        \/ node[l] = H(path[l - 1].element, node[l - 1])
    BY <1>4
  <2>6. node[l - 1] = layer[l - 1][2 * i] \/ node[l - 1] = layer[l - 1][2 * i + 1]
    BY <2>4, <2>5 DEF H
  <2> QED BY <2>3, <2>6
<1>6. InTree(LEVELS)
  <2>1. 0 \in 0..Width(LEVELS) - 1
    BY <1>1, Widths
  <2> QED BY <1>3, <1>4, <2>1
<1>7. ASSUME Off # {} PROVE FALSE
  <2>1. PICK m \in Off : \A n \in Off : m <= n
    <3>1. Off \subseteq Nat
      BY <1>1
    <3> HIDE DEF Off
    <3> QED BY <1>7, <3>1, LeastNat
  <2>2. m \in 0..LEVELS /\ ~InTree(LEVELS - m)
    OBVIOUS
  <2>3. m # 0
    <3>1. SUFFICES ASSUME m = 0 PROVE FALSE
      OBVIOUS
    <3>2. LEVELS - m = LEVELS
      BY <1>1, <3>1
    <3> HIDE DEF InTree
    <3> QED BY <1>6, <2>2, <3>2
  <2>4. /\ m - 1 \in 0..LEVELS
        /\ LEVELS - (m - 1) \in 1..LEVELS
        /\ LEVELS - (m - 1) - 1 = LEVELS - m
    BY <1>1, <2>2, <2>3
  <2>5. InTree(LEVELS - (m - 1))
    <3> HIDE DEF InTree
    <3>1. m - 1 \notin Off
      BY <2>1, <2>2, <2>4
    <3> QED BY <2>4, <3>1
  <2> HIDE DEF InTree
  <2>6. InTree(LEVELS - (m - 1) - 1)
    BY <1>5, <2>4, <2>5
  <2> QED BY <2>2, <2>4, <2>6
<1>8. InTree(0)
  <2> HIDE DEF InTree
  <2>1. LEVELS \in 0..LEVELS /\ LEVELS - LEVELS = 0
    BY <1>1
  <2> QED BY <1>7, <2>1
<1> QED BY <1>2, <1>4, <1>8, Widths

------------------------------------------------------------------------------
(* The signer set.                                                            *)
Proposal ==
    {Pay(private) : private \in BOOLEAN} \cup {SetLeaves(list) : list \in Lists}
    \cup {SetRoot(rootOf(list)) : list \in Lists}

LEMMA ListsAreLists ==
    ASSUME NEW list \in Lists
    PROVE  /\ list \in Seq(Leaf) /\ Len(list) \in 1..MaxLeaves
           /\ list # <<>> /\ DOMAIN list = 1..Len(list)
           /\ list \in [1..Len(list) -> Leaf]
<1>1. PICK n \in 1..MaxLeaves : list \in [1..n -> Leaf]
  BY DEF Lists
<1>2. n \in Nat /\ n # 0
  BY <1>1, SignerAssumption
<1>3. list \in Seq(Leaf) /\ Len(list) = n
  BY <1>1, <1>2
<1> QED BY <1>1, <1>2, <1>3

SetOK ==
    /\ handed \subseteq Signer
    /\ proposals \in Seq(Proposal)
    /\ executed \subseteq Tx
    /\ retired \in 1..Len(proposals) + 1
    /\ commitments \in Published \cup {<<>>}
    /\ \A s \in Signer : screen[s].commitments \in Published \cup {<<>>}
    /\ nullifiers \subseteq Signer \X Tx
    /\ drafting \in Published \cup {<<>>}
    /\ zk # NoZk =>
         \E tx \in executed : proposals[tx].kind = "Root" /\ proposals[tx].root = zk

LEMMA PublishedAreLists == SetOK => Published \subseteq Lists
<1> SUFFICES ASSUME SetOK, NEW tx \in Tx, proposals[tx].kind = "Leaves"
             PROVE  proposals[tx].leaves \in Lists
  BY DEF Published
<1>1. proposals[tx] \in Proposal
  BY DEF SetOK, Tx
<1> QED BY <1>1 DEF Proposal, Pay, SetLeaves, SetRoot

LEMMA InitSetOK == Init => SetOK
<1> SUFFICES ASSUME Init PROVE SetOK
  OBVIOUS
<1>1. proposals \in Seq(Proposal) /\ Len(proposals) = 0
  BY DEF Init
<1> QED BY <1>1 DEF Init, SetOK, Tx

(* A proposal more changes nothing about those there are.                     *)
LEMMA ProposedOK ==
    ASSUME SetOK, NEW p \in Proposal, proposals' = Append(proposals, p),
           UNCHANGED <<handed, screen, chain>>,
           drafting' \in Published \cup {<<>>}
                \/ (p.kind = "Leaves" /\ drafting' = p.leaves)
    PROVE  SetOK'
<1>1. /\ proposals' \in Seq(Proposal) /\ Len(proposals) \in Nat
      /\ Len(proposals') = Len(proposals) + 1
      /\ \A tx \in Tx : proposals'[tx] = proposals[tx]
      /\ proposals'[Len(proposals) + 1] = p
  BY DEF SetOK, Tx
<1>2. Tx \subseteq Tx' /\ Len(proposals) + 1 \in Tx'
  BY <1>1 DEF Tx
<1>3. zk' # NoZk =>
        \E tx \in executed' : proposals'[tx].kind = "Root" /\ proposals'[tx].root = zk'
  <2>1. zk' = zk /\ executed' = executed /\ executed \subseteq Tx
    BY DEF SetOK, chain
  <2> QED BY <1>1, <2>1 DEF SetOK
<1>4. retired' \in 1..Len(proposals') + 1
  BY <1>1 DEF SetOK, chain
<1>5. executed' \subseteq Tx' /\ nullifiers' \subseteq Signer \X Tx'
  BY <1>2 DEF SetOK, chain
<1>6. Published \subseteq Published'
  BY <1>1, <1>2 DEF Published
<1>7. p.kind = "Leaves" => p.leaves \in Published'
  BY <1>1, <1>2 DEF Published
<1> QED BY <1>1, <1>3, <1>4, <1>5, <1>6, <1>7 DEF SetOK, chain

LEMMA StepSetOK == SetOK /\ [Next]_vars => SetOK'
<1> SUFFICES ASSUME SetOK, [Next]_vars PROVE SetOK'
  OBVIOUS
<1>1. ASSUME NEW s \in Signer, RegisterKey(s) PROVE SetOK'
  BY <1>1 DEF RegisterKey, SetOK, Tx, Published, chain
<1>2. ASSUME NEW private \in BOOLEAN, ProposePay(private) PROVE SetOK'
  <2>1. Pay(private) \in Proposal
    BY DEF Proposal
  <2> QED BY <1>2, <2>1, ProposedOK DEF ProposePay, SetOK
<1>3. CASE PublishLeaves
  <2>1. PICK n \in 1..MaxLeaves : \E leaves \in [1..n -> handed \cup {Stranger}] :
            /\ drafting' = leaves
            /\ proposals' = Append(proposals, SetLeaves(leaves))
    BY <1>3 DEF PublishLeaves
  <2>2. PICK leaves \in [1..n -> handed \cup {Stranger}] :
            /\ drafting' = leaves
            /\ proposals' = Append(proposals, SetLeaves(leaves))
    BY <2>1
  <2>3. handed \cup {Stranger} \subseteq Leaf
    BY DEF SetOK, Leaf
  <2>4. leaves \in [1..n -> Leaf]
    BY <2>3
  <2>5. SetLeaves(leaves) \in Proposal
    BY <2>4 DEF Proposal, Lists
  <2>6. SetLeaves(leaves).kind = "Leaves" /\ SetLeaves(leaves).leaves = leaves
    BY DEF SetLeaves
  <2> QED BY <1>3, <2>2, <2>5, <2>6, ProposedOK DEF PublishLeaves
<1>4. CASE PublishRoot
  <2>1. drafting \in Lists
    BY <1>4, PublishedAreLists DEF PublishRoot, SetOK
  <2>2. SetRoot(rootOf(drafting)) \in Proposal
    BY <2>1 DEF Proposal
  <2> QED BY <1>4, <2>2, ProposedOK DEF PublishRoot
<1>5. CASE PublishFails
  BY <1>5 DEF PublishFails, SetOK, Tx, Published, chain
<1>6. ASSUME NEW s \in Signer, LoadLeaves(s) PROVE SetOK'
  <2>1. \A t \in Signer : screen'[t].commitments \in Published \cup {<<>>}
    BY <1>6 DEF LoadLeaves, SetOK
  <2> QED BY <1>6, <2>1 DEF LoadLeaves, SetOK, Tx, Published, chain
<1>7. ASSUME NEW s \in Signer, LoadZk(s) PROVE SetOK'
  <2>1. \A t \in Signer : screen'[t].commitments \in Published \cup {<<>>}
    BY <1>7 DEF LoadZk, SetOK
  <2> QED BY <1>7, <2>1 DEF LoadZk, SetOK, Tx, Published, chain
<1>8. ASSUME NEW tx \in Tx, Execute(tx) PROVE SetOK'
  <2>1. Len(proposals) \in Nat
    BY DEF SetOK
  <2>2. /\ UNCHANGED <<handed, proposals, screen, drafting, nullifiers>>
        /\ Tx' = Tx /\ Published' = Published /\ executed' = executed \cup {tx}
    BY <1>8 DEF Execute, Tx, Published
  <2>3. CASE proposals[tx].kind = "Pay"
    BY <1>8, <2>2, <2>3 DEF Execute, SetOK
  <2>4. CASE proposals[tx].kind = "Leaves"
    <3>1. proposals[tx].leaves \in Published
      BY <2>4 DEF Published
    <3> QED BY <1>8, <2>1, <2>2, <2>4, <3>1 DEF Execute, Retire, SetOK
  <2>5. CASE proposals[tx].kind = "Root"
    <3>1. UNCHANGED commitments /\ zk' = proposals[tx].root /\ retired' = Len(proposals) + 1
      BY <1>8, <2>5 DEF Execute, Retire
    <3> QED BY <2>1, <2>2, <2>5, <3>1 DEF SetOK
  <2> QED BY <1>8, <2>3, <2>4, <2>5 DEF Execute
<1>9. ASSUME NEW tx \in Tx, NEW s \in Signer, Vote(s, tx) PROVE SetOK'
  BY <1>9 DEF Vote, SetOK, Tx, Published
<1>10. CASE UNCHANGED vars
  BY <1>10 DEF vars, chain, SetOK, Tx, Published
<1> QED BY <1>1, <1>2, <1>3, <1>4, <1>5, <1>6, <1>7, <1>8, <1>9, <1>10 DEF Next

LEMMA SetStates == Spec => []SetOK
BY InitSetOK, StepSetOK, PTL DEF Spec

(* Whatever is published, half published, executed and retired: only leaves   *)
(* of signers are behind a vote, and a root is in force only by an executed   *)
(* proposal that named it.                                                    *)
THEOREM SignerSetTypeCorrect == Spec => []TypeOK
<1>1. SetOK => TypeOK
  <2> SUFFICES ASSUME SetOK PROVE TypeOK
    OBVIOUS
  <2>1. \A list \in Published \cup {<<>>} : ToSet(list) \subseteq Leaf
    <3> SUFFICES ASSUME NEW list \in Published \cup {<<>>}, NEW i \in DOMAIN list
                 PROVE  list[i] \in Leaf
      BY DEF ToSet
    <3>1. CASE list = <<>>
      BY <3>1
    <3>2. CASE list \in Published
      BY <3>2, PublishedAreLists, ListsAreLists
    <3> QED BY <3>1, <3>2
  <2>2. \A tx \in Tx : proposals[tx].kind \in {"Pay", "Leaves", "Root"}
    <3>1. \A tx \in Tx : proposals[tx] \in Proposal
      BY DEF SetOK, Tx
    <3> QED BY <3>1 DEF Proposal, Pay, SetLeaves, SetRoot
  <2> QED BY <2>1, <2>2 DEF SetOK, TypeOK
<1> QED BY <1>1, SetStates, PTL

(* The place of a leaf in a list that holds it.                               *)
LEMMA Indexed ==
    ASSUME NEW list \in Lists, NEW s
    PROVE  /\ s \in ToSet(list) => /\ Index(s, list) \in 0..Len(list) - 1
                                   /\ list[Index(s, list) + 1] = s
           /\ s \notin ToSet(list) => Index(s, list) = -1
<1> DEFINE I == {i \in 1..Len(list) : list[i] = s}
<1>1. Len(list) \in Nat /\ DOMAIN list = 1..Len(list)
  BY ListsAreLists, SignerAssumption
<1>2. Index(s, list) = (IF I # {} THEN Min(I) ELSE 0) - 1
  BY DEF Index, SelectInSeq
<1>3. s \in ToSet(list) <=> I # {}
  BY <1>1 DEF ToSet
<1>4. ASSUME I # {} PROVE Min(I) \in I
  <2>1. PICK m \in I : \A n \in I : m <= n
    <3>1. I \subseteq Nat
      BY <1>1
    <3> HIDE DEF I
    <3> QED BY <1>4, <3>1, LeastNat
  <2> HIDE DEF I
  <2> QED BY <2>1 DEF Min
<1>5. ASSUME I # {} PROVE Min(I) \in 1..Len(list) /\ list[Min(I)] = s
  BY <1>4, <1>5
<1> HIDE DEF I
<1> QED BY <1>1, <1>2, <1>3, <1>5

(* Every member of the list that is in force can build a proof for it.        *)
LEMMA MembersProve ==
    ASSUME NEW list \in Lists, Len(list) <= size, NEW s \in ToSet(list)
    PROVE  Proves(s, list)
<1> DEFINE i == Index(s, list)
<1>1. Len(list) \in Nat /\ size \in Nat
  BY ListsAreLists, SignerAssumption, Widths
<1>2. i \in 0..Len(list) - 1 /\ list[i + 1] = s
  BY Indexed
<1> HIDE DEF i
<1>3. i \in 0..size - 1
  BY <1>1, <1>2
<1>4. Padded(list)[i] = s
  BY <1>1, <1>2, <1>3 DEF Padded
<1> QED BY <1>3, <1>4, EveryPathOpens DEF Proves, i

(* Every member of a published list that fits the tree, whose root is pinned, *)
(* can vote on every open private proposal from an up-to-date page, whatever  *)
(* was pasted, published, retired and loaded before (generateVoteProof,       *)
(* doApproveZk, approve_zk_anon).                                             *)
THEOREM MembersAreHeard == Spec => []MembersCanVote
<1>1. SetOK => MembersCanVote
  <2> SUFFICES ASSUME SetOK, commitments # <<>>, Fits, zk = rootOf(commitments),
                      NEW s \in Members, NEW tx \in Tx, Fresh(s), Open(tx),
                      proposals[tx].private, <<s, tx>> \notin nullifiers
               PROVE  Accepts(s, tx)
    BY DEF MembersCanVote, CanVote
  <2>1. commitments \in Lists
    BY PublishedAreLists DEF SetOK
  <2>2. screen[s].commitments = commitments
    BY DEF Fresh
  <2>3. Proves(s, commitments)
    BY <2>1, MembersProve DEF Fits, Members
  <2>4. zk # NoZk
    BY <2>1, SignerAssumption
  <2> QED BY <2>2, <2>3, <2>4 DEF Accepts, CheckProof
<1> QED BY <1>1, SetStates, PTL

(* The votes on what is still open were made for the root in force.           *)
VotesOK ==
    zk # NoZk =>
        \A vote \in nullifiers : Open(vote[2]) =>
            \E list \in Published : zk = rootOf(list) /\ vote[1] \in ToSet(list)

LEMMA StepVotesOK == SetOK /\ VotesOK /\ [Next]_vars => VotesOK'
<1> SUFFICES ASSUME SetOK, VotesOK, [Next]_vars, zk' # NoZk,
                    NEW vote \in nullifiers', Open(vote[2])'
             PROVE  \E list \in Published' : zk' = rootOf(list) /\ vote[1] \in ToSet(list)
  BY DEF VotesOK
<1>1. Len(proposals) \in Nat
  BY DEF SetOK
<1>2. Published \subseteq Published'
  <2>1. ASSUME NEW p, proposals' = Append(proposals, p) PROVE Published \subseteq Published'
    <3>1. /\ Len(proposals') = Len(proposals) + 1
          /\ \A tx \in Tx : proposals'[tx] = proposals[tx]
      BY <2>1 DEF SetOK, Tx
    <3>2. Tx \subseteq Tx'
      BY <1>1, <3>1 DEF Tx
    <3> QED BY <3>1, <3>2 DEF Published
  <2>2. CASE UNCHANGED proposals
    BY <2>2 DEF Published, Tx
  <2>3. proposals' = proposals \/ \E p : proposals' = Append(proposals, p)
    BY DEF Next, RegisterKey, LoadLeaves, LoadZk, ProposePay, PublishLeaves, PublishRoot,
           PublishFails, Execute, Vote, vars
  <2> QED BY <2>1, <2>2, <2>3
<1>3. ASSUME nullifiers' = nullifiers, UNCHANGED <<executed, retired, zk>>
      PROVE  \E list \in Published' : zk' = rootOf(list) /\ vote[1] \in ToSet(list)
  <2>1. vote[2] \in Tx
    BY <1>3 DEF SetOK
  <2>2. Open(vote[2])
    BY <1>3, <2>1 DEF Open
  <2> QED BY <1>2, <1>3, <2>2 DEF VotesOK
<1>4. ASSUME NEW tx \in Tx, Execute(tx)
      PROVE  \E list \in Published' : zk' = rootOf(list) /\ vote[1] \in ToSet(list)
  <2>1. nullifiers' = nullifiers /\ Tx' = Tx /\ executed \subseteq executed'
    BY <1>4 DEF Execute, Tx
  <2>2. vote[2] \in Tx
    BY <2>1 DEF SetOK
  <2>3. CASE UNCHANGED <<retired, commitments, zk>>
    <3>1. Open(vote[2])
      BY <2>1, <2>2, <2>3 DEF Open
    <3> QED BY <1>2, <2>1, <2>3, <3>1 DEF VotesOK
  <2>4. CASE retired' = Len(proposals) + 1
    BY <1>1, <2>2, <2>4 DEF Open, Tx
  <2> QED BY <1>4, <2>3, <2>4 DEF Execute, Retire
<1>5. ASSUME NEW tx \in Tx, NEW s \in Signer, Vote(s, tx)
      PROVE  \E list \in Published' : zk' = rootOf(list) /\ vote[1] \in ToSet(list)
  <2>1. /\ nullifiers' = nullifiers \cup {<<s, tx>>}
        /\ UNCHANGED <<proposals, executed, retired, zk>>
    BY <1>5 DEF Vote
  <2>2. CASE vote \in nullifiers
    <3>1. Open(vote[2])
      BY <2>1 DEF Open, Tx
    <3> QED BY <1>2, <2>1, <2>2, <3>1 DEF VotesOK
  <2>3. CASE vote = <<s, tx>>
    <3> DEFINE list == screen[s].commitments
    <3>1. Proves(s, list) /\ rootOf(list) = zk
      BY <1>5, <2>1 DEF Vote, Accepts, CheckProof
    <3>2. Index(s, list) # -1
      BY <3>1 DEF Proves
    <3>3. list # <<>>
      <4>1. SUFFICES ASSUME list = <<>> PROVE Index(s, list) = -1
        BY <3>2
      <4> HIDE DEF list
      <4>2. {i \in 1..Len(list) : list[i] = s} = {}
        BY <4>1
      <4> QED BY <4>2 DEF Index, SelectInSeq
    <3>4. list \in Published /\ list \in Lists
      BY <3>3, PublishedAreLists DEF SetOK
    <3>5. s \in ToSet(list)
      <4> HIDE DEF list
      <4> QED BY <3>2, <3>4, Indexed
    <3> QED BY <1>2, <2>1, <2>3, <3>1, <3>4, <3>5
  <2> QED BY <2>1, <2>2, <2>3
<1>6. ASSUME NEW s \in Signer, RegisterKey(s) \/ LoadLeaves(s) \/ LoadZk(s)
      PROVE  UNCHANGED <<nullifiers, executed, retired, zk>>
  BY <1>6 DEF RegisterKey, LoadLeaves, LoadZk, chain
<1>7. ASSUME \/ \E private \in BOOLEAN : ProposePay(private)
             \/ PublishLeaves \/ PublishRoot \/ PublishFails
      PROVE  UNCHANGED <<nullifiers, executed, retired, zk>>
  BY <1>7 DEF ProposePay, PublishLeaves, PublishRoot, PublishFails, chain
<1> QED BY <1>3, <1>4, <1>5, <1>6, <1>7 DEF Next, vars, chain

(* A vote that still counts was proved under the root that is pinned now: a   *)
(* new root closes every proposal that has one (retire_open_proposals), so an *)
(* old list on somebody's page, or a vote by name from before there was a     *)
(* root, leaves nothing behind for the new group.                             *)
THEOREM VotesAreOfThisGroup == Spec => []OpenVotesAreCurrent
<1>1. Init => VotesOK
  BY DEF Init, VotesOK
<1>2. VotesOK => OpenVotesAreCurrent
  BY DEF VotesOK, OpenVotesAreCurrent
<1> QED BY <1>1, <1>2, SetStates, StepVotesOK, PTL DEF Spec
==============================================================================
