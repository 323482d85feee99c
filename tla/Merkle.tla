-------------------------------- MODULE Merkle --------------------------------
(***************************************************************************)
(* The Merkle tree of crates/astria-merkle: a vector of node hashes in the *)
(* order of an in-order walk, leaves at even indices, which are found by   *)
(* bit operations on indices of a perfect tree.  Node i of the vector is   *)
(* nodes[i + 1].  A hash is the term that was hashed: no two terms collide.*)
(***************************************************************************)
EXTENDS Naturals, Sequences, SequencesExt, Bitwise

-----------------------------------------------------------------------------
(* Hashes *)

HashLeaf(leaf) == <<"leaf", leaf>>
Combine(left, right) == <<"node", left, right>>
HashOfNothing == <<"nothing">>
Zeros == <<"zeros">>

-----------------------------------------------------------------------------
(* Indices.  checked_add panics at the largest index; its width is a bound   *)
(* that only has to exceed every tree.                                       *)

UsizeMax == 2^12 - 1

LeafIndexToTreeIndex(j) == 2 * j

LastSetBit(x) == x - ((x - 1) & x)
LastZeroBit(x) == LastSetBit(x + 1)
Without(x, mask) == x - (x & mask)

PerfectParent(i) ==
    LET zero == LastZeroBit(i) IN Without(zero | i, (2 * zero) % (UsizeMax + 1))

PerfectLeftChild(p) == Without(p, LastZeroBit(p) \div 2)
PerfectRightChild(p) == Without(p | LastZeroBit(p), LastZeroBit(p) \div 2)

RECURSIVE PowerFrom(_, _)
PowerFrom(p, x) == IF p >= x THEN p ELSE PowerFrom(2 * p, x)
NextPowerOfTwo(x) == PowerFrom(1, x)

PerfectRoot(n) == n \div 2
CompleteRoot(n) == PerfectRoot(NextPowerOfTwo(n + 1) - 1)

(* mutant: the index in the perfect tree, cut off at the end of the vector *)
PerfectParentInTree(i, n) ==
    LET p == PerfectParent(i) IN IF p < n THEN p ELSE CompleteRoot(n)

(* the climb from a root ends at UsizeMax, whose last_zero_bit panics *)
RECURSIVE CompleteParent(_, _)
CompleteParent(i, n) ==
    LET p == PerfectParent(i)
    IN  IF p < n \/ p = UsizeMax THEN p ELSE CompleteParent(p, n)

CompleteRightChild(p, n) ==
    IF PerfectRightChild(p) < n THEN PerfectRightChild(p)
    ELSE p + 1 + CompleteRoot(n - (p + 1))

Sibling(i, n) ==
    LET p == CompleteParent(i, n)
    IN  IF i < p THEN CompleteRightChild(p, n) ELSE PerfectLeftChild(p)

-----------------------------------------------------------------------------
(* The tree *)

Hashed(nodes, p) ==
    [nodes EXCEPT ![p + 1] = Combine(nodes[PerfectLeftChild(p) + 1],
                                     nodes[CompleteRightChild(p, Len(nodes)) + 1])]

(* node p and all its ancestors *)
RECURSIVE Rehash(_, _)
Rehash(nodes, p) ==
    IF p = CompleteRoot(Len(nodes)) THEN Hashed(nodes, p)
    ELSE Rehash(Hashed(nodes, p), CompleteParent(p, Len(nodes)))

(* what the drop of a LeafBuilder does to the tree *)
Pushed(nodes, leafHash) ==
    IF nodes = << >> THEN <<leafHash>>
    ELSE Rehash(nodes \o <<Zeros, leafHash>>, CompleteParent(Len(nodes) + 1, Len(nodes) + 2))

FromLeaves(leaves) == FoldLeft(LAMBDA nodes, leaf : Pushed(nodes, HashLeaf(leaf)), << >>, leaves)

Root(nodes) == IF nodes = << >> THEN HashOfNothing ELSE nodes[CompleteRoot(Len(nodes)) + 1]

IsLeafInTree(i, n) == LeafIndexToTreeIndex(i) < n

RECURSIVE AuditPath(_, _)
AuditPath(nodes, i) ==
    LET n == Len(nodes) IN
    IF i = CompleteRoot(n) THEN << >>
    ELSE <<nodes[Sibling(i, n) + 1]>> \o AuditPath(nodes, CompleteParent(i, n))

(* of a leaf of the tree; there is no proof of another *)
ConstructProof(nodes, leafIndex) ==
    [path |-> AuditPath(nodes, LeafIndexToTreeIndex(leafIndex)),
     leafIndex |-> leafIndex, treeSize |-> Len(nodes)]

-----------------------------------------------------------------------------
(* Audits *)

Panicked == <<"panicked">>

(* mutant: the side of a sibling is read off the perfect tree *)
WalkOfPerfectTree(acc, i, proof, k) ==
    IF k > Len(proof.path) THEN acc
    ELSE FoldLeft(LAMBDA at, sibling :
                      LET p == PerfectParent(at.i)
                      IN  [i |-> p, acc |-> IF p > at.i THEN Combine(at.acc, sibling)
                                                        ELSE Combine(sibling, at.acc)],
                  [i |-> i, acc |-> acc], proof.path).acc

(* a path that goes on above the root panics: complete_parent finds no index *)
RECURSIVE Walk(_, _, _, _)
Walk(acc, i, proof, k) ==
    IF k > Len(proof.path) THEN acc
    ELSE LET p == CompleteParent(i, proof.treeSize)
             sibling == proof.path[k]
         IN  IF p = UsizeMax THEN Panicked
             ELSE Walk(IF p > i THEN Combine(acc, sibling) ELSE Combine(sibling, acc),
                       p, proof, k + 1)

ReconstructRoot(proof, leafHash) ==
    Walk(leafHash, LeafIndexToTreeIndex(proof.leafIndex), proof, 1)

Verify(proof, leaf, root) == ReconstructRoot(proof, HashLeaf(leaf)) = root

(* UncheckedProof::try_into_proof; a path consists of whole hashes *)
IsProof(proof) == proof.treeSize > 0 /\ IsLeafInTree(proof.leafIndex, proof.treeSize)

-----------------------------------------------------------------------------
(* The reference: RFC 6962, section 2.1 *)

SplitPoint(n) == CHOOSE k \in 1..(n - 1) : NextPowerOfTwo(k) = k /\ k < n /\ n <= 2 * k

RECURSIVE MTH(_)
MTH(leaves) ==
    LET n == Len(leaves) IN
    CASE n = 0 -> HashOfNothing
      [] n = 1 -> HashLeaf(leaves[1])
      [] OTHER -> LET k == SplitPoint(n)
                  IN  Combine(MTH(SubSeq(leaves, 1, k)), MTH(SubSeq(leaves, k + 1, n)))

RECURSIVE PATH(_, _)
PATH(m, leaves) ==
    LET n == Len(leaves) IN
    IF n = 1 THEN << >>
    ELSE LET k == SplitPoint(n)
             left == SubSeq(leaves, 1, k)
             right == SubSeq(leaves, k + 1, n)
         IN  IF m < k THEN Append(PATH(m, left), MTH(right))
                      ELSE Append(PATH(m - k, right), MTH(left))
=============================================================================
