------------------------------- MODULE LogTree -------------------------------
(***************************************************************************)
(* The Merkle tree of a log, what RFC 6962 says of it and a client verifies *)
(* of it, and then as the signer writes it and the servers read it: the     *)
(* compact tree of package merkle, the subtree functions of                 *)
(* storage/cache/log_subtree_cache.go, the tables Subtree and TreeHead of   *)
(* storage/mysql, and the part of a pass of log/sequencer.go that builds    *)
(* the tree.  A pass is one action: module TrillianLog shows that passes    *)
(* are atomic.                                                              *)
(***************************************************************************)
EXTENDS SubtreeCache

LOCAL INSTANCE SequencesExt
LOCAL INSTANCE FiniteSetsExt

(* merkle/rfc6962/rfc6962.go with an ideal hash function: the prefixes for leaves and
   nodes and the length of the hash make the three constructors below injective and
   their results distinct. Then the Merkle tree hash, the audit path and the
   consistency proof as RFC 6962 defines them, the reference for every algorithm of
   package merkle. *)

EmptyRoot == << >>

HashLeaf(data) == <<data>>

HashChildren(l, r) == <<l, r>>

\* The nil slice.
NoHash == <<0, 0, 0>>

-----------------------------------------------------------------------------
(* The largest power of two below n. *)
SplitPoint(n) == CHOOSE k \in 1..(n - 1) : k < n /\ n <= 2 * k /\ \E e \in 0..n : k = 2^e

RECURSIVE TreeHash(_)
TreeHash(leaves) ==
    CASE Len(leaves) = 0 -> EmptyRoot
      [] Len(leaves) = 1 -> HashLeaf(leaves[1])
      [] OTHER -> LET k == SplitPoint(Len(leaves))
                  IN  HashChildren(TreeHash(SubSeq(leaves, 1, k)),
                                   TreeHash(SubSeq(leaves, k + 1, Len(leaves))))

RECURSIVE AuditPath(_, _)
AuditPath(m, leaves) ==
    IF Len(leaves) <= 1
      THEN << >>
      ELSE LET k == SplitPoint(Len(leaves))
               l == SubSeq(leaves, 1, k)
               r == SubSeq(leaves, k + 1, Len(leaves))
           IN  IF m < k THEN Append(AuditPath(m, l), TreeHash(r))
                        ELSE Append(AuditPath(m - k, r), TreeHash(l))

RECURSIVE SubProof(_, _, _)
SubProof(m, leaves, complete) ==
    IF m = Len(leaves)
      THEN IF complete THEN << >> ELSE <<TreeHash(leaves)>>
      ELSE LET k == SplitPoint(Len(leaves))
               l == SubSeq(leaves, 1, k)
               r == SubSeq(leaves, k + 1, Len(leaves))
           IN  IF m <= k THEN Append(SubProof(m, l, complete), TreeHash(r))
                         ELSE Append(SubProof(m - k, r, FALSE), TreeHash(l))

ConsistencyProof(m, leaves) == SubProof(m, leaves, TRUE)

-----------------------------------------------------------------------------
(* merkle/log_verifier.go: what a client computes from a proof. *)

IsRightChild(node) == node % 2 = 1

Parent(node) == node \div 2

(* Hash the proof into the leaf, up to the level of a single node; NoHash when
   the proof has too few or too many components. *)
RECURSIVE HashUp(_, _, _, _)
HashUp(index, last, hash, proof) ==
    IF last = 0
      THEN IF proof = << >> THEN hash ELSE NoHash
      ELSE CASE proof = << >> -> NoHash
             [] proof # << >> /\ IsRightChild(index) ->
                  HashUp(Parent(index), Parent(last), HashChildren(Head(proof), hash), Tail(proof))
             [] proof # << >> /\ ~IsRightChild(index) /\ index < last ->
                  HashUp(Parent(index), Parent(last), HashChildren(hash, Head(proof)), Tail(proof))
             [] OTHER -> HashUp(Parent(index), Parent(last), hash, proof)

RootFromInclusionProof(leafIndex, treeSize, proof, leafHash) ==
    IF 0 <= leafIndex /\ leafIndex < treeSize
      THEN HashUp(leafIndex, treeSize - 1, leafHash, proof)
      ELSE NoHash

\* Mutant: the root that results is not compared.
VerifyProofLength(leafIndex, treeSize, proof, root, leafHash) ==
    RootFromInclusionProof(leafIndex, treeSize, proof, leafHash) # NoHash

VerifyInclusionProof(leafIndex, treeSize, proof, root, leafHash) ==
    LET h == RootFromInclusionProof(leafIndex, treeSize, proof, leafHash)
    IN  h # NoHash /\ h = root

(* Both roots at once: the first tree's from the left siblings alone. *)
RECURSIVE HashBoth(_, _, _, _, _)
HashBoth(node, last, hash1, hash2, proof) ==
    IF node = 0
      THEN [ok |-> TRUE, last |-> last, hash1 |-> hash1, hash2 |-> hash2, proof |-> proof]
      ELSE CASE proof = << >> ->
                  [ok |-> FALSE, last |-> last, hash1 |-> hash1, hash2 |-> hash2, proof |-> proof]
             [] proof # << >> /\ IsRightChild(node) ->
                  HashBoth(Parent(node), Parent(last), HashChildren(Head(proof), hash1),
                           HashChildren(Head(proof), hash2), Tail(proof))
             [] proof # << >> /\ ~IsRightChild(node) /\ node < last ->
                  HashBoth(Parent(node), Parent(last), hash1, HashChildren(hash2, Head(proof)), Tail(proof))
             [] OTHER -> HashBoth(Parent(node), Parent(last), hash1, hash2, proof)

VerifyConsistencyProof(snapshot1, snapshot2, root1, root2, proof) ==
    LET up == TrailingOnes(snapshot1 - 1)
        node == Shr(snapshot1 - 1, up)
        last == Shr(snapshot2 - 1, up)
        seed == IF node > 0 THEN Head(proof) ELSE root1
        rest == IF node > 0 THEN Tail(proof) ELSE proof
        both == HashBoth(node, last, seed, seed, rest)
    IN  CASE snapshot1 < 0 \/ snapshot2 < snapshot1 -> FALSE
          [] snapshot1 = snapshot2 -> root1 = root2 /\ proof = << >>
          [] snapshot1 = 0 /\ snapshot2 > 0 -> proof = << >>
          [] OTHER -> /\ proof # << >>
                      /\ both.ok
                      /\ both.hash1 = root1
                      \* Above the first tree every node is a left child.
                      /\ HashUp(0, both.last, both.hash2, both.proof) \notin {NoHash}
                      /\ HashUp(0, both.last, both.hash2, both.proof) = root2

-----------------------------------------------------------------------------
(* merkle/compact_merkle_tree.go. *)

SetNode(depth, index, hash) == [depth |-> depth, index |-> index, hash |-> hash]

IsPerfectTree(x) == x # 0 /\ \E e \in 0..BitLen(x) : x = 2^e

NewCompactMerkleTree == [root |-> EmptyRoot, nodes |-> << >>, size |-> 0]

\* The set bits of the size, from the lowest.
SizeBits(size) == SelectSeq([b \in 1..BitLen(size) |-> b - 1], LAMBDA b : BitSet(size, b))

RootFrom(c, bits) ==
    LET put(acc, b, h) == [root |-> h, set |-> Append(acc.set, SetNode(b + 1, Shr(c.size, b + 1), h))]
    IN  FoldLeft(LAMBDA acc, b : put(acc, b, HashChildren(c.nodes[b + 1], acc.root)),
                 [root |-> c.nodes[Head(bits) + 1], set |-> << >>], Tail(bits))

RecalculateRoot(c) ==
    IF c.size = 0 THEN [root |-> c.root, set |-> << >>] ELSE RootFrom(c, SizeBits(c.size))

\* The hashes of the nodes that the new leaf completes: it absorbs the perfect
\* trees at the k trailing ones of the size.
Absorbed(c, k, leafHash) ==
    LET merged[b \in 0..k] ==
            IF b = 0 THEN leafHash ELSE HashChildren(c.nodes[b], merged[b - 1])
    IN  merged

Grown(c, k, merged) ==
    [root |-> c.root, size |-> c.size + 1,
     nodes |-> [b \in 1..(IF k = Len(c.nodes) THEN k + 1 ELSE Len(c.nodes)) |->
                  IF b <= k THEN NoHash ELSE IF b = k + 1 THEN merged[k] ELSE c.nodes[b]]]

WithRoot(tree, set, top) == [tree |-> [tree EXCEPT !.root = top.root], set |-> set \o top.set]

Recalculated(tree, set) == WithRoot(tree, set, RecalculateRoot(tree))

AddAt(c, k, merged) ==
    Recalculated(Grown(c, k, merged),
                 [b \in 1..(k + 1) |-> SetNode(b - 1, Shr(c.size, b - 1), merged[b - 1])])

AddLeafHash(c, leafHash) ==
    LET at(k) == AddAt(c, k, Absorbed(c, k, leafHash))
    IN  at(TrailingOnes(c.size))

AddLeafHashes(c, hashes) ==
    LET after(acc, r) == [tree |-> r.tree, set |-> acc.set \o r.set]
    IN  FoldLeft(LAMBDA acc, h : after(acc, AddLeafHash(acc.tree, h)),
                 [tree |-> c, set |-> << >>], hashes)

(* The tree of an existing log, from the hashes of its nodes at the levels of the
   bits of its size; nothing is checked for a perfect one. *)
StateNodes(size, hashes, expectedRoot) ==
    [b \in 1..BitLen(size) |->
       IF IsPerfectTree(size)
         THEN IF b = BitLen(size) THEN expectedRoot ELSE NoHash
         ELSE IF BitSet(size, b - 1) THEN hashes[b - 1] ELSE NoHash]

NewCompactMerkleTreeWithState(size, hashes, expectedRoot) ==
    LET tree == [root |-> EmptyRoot, nodes |-> StateNodes(size, hashes, expectedRoot), size |-> size]
        state(root) == [ok |-> root = expectedRoot, tree |-> [tree EXCEPT !.root = root]]
    IN  state(IF IsPerfectTree(size) THEN expectedRoot ELSE RecalculateRoot(tree).root)

-----------------------------------------------------------------------------
CONSTANTS Queue,        \* the leaves in the order in which they are submitted
          MaxResigned   \* bound: number of roots signed again without new leaves

ASSUME LogTreeAssumption == Queue \in Seq(Nat) /\ MaxResigned \in Nat

VARIABLES
    submitted,          \* the leaves in the log's tables, in the order in which they are sequenced
    subtrees,           \* table Subtree: rows of a revision and a subtree
    roots               \* table TreeHead, by revision

treeVars == <<submitted, subtrees, roots>>

Root(size, hash, rev, ts) == [size |-> size, hash |-> hash, rev |-> rev, ts |-> ts]

NoRoot == Root(0, NoHash, -1, 0)

LatestRoot == IF roots = << >> THEN NoRoot ELSE Last(roots)

\* Table SequencedLeafData.
Sequenced == SubSeq(submitted, 1, LatestRoot.size)

-----------------------------------------------------------------------------
LogStrataDepth == Strata[1]

FullyPopulated(st) == Cardinality(DOMAIN st.leaves) = 2^st.depth

\* The leaves of a log's subtree are dense from the left.
LeafSuffix(st, i) ==
    Split(NewNodeIDFromPrefix(st.prefix, LogStrataDepth, i, LogStrataDepth, TotalDepth),
          Len(st.prefix), st.depth).suffix

Dense(st) ==
    \A i \in 0..(Cardinality(DOMAIN st.leaves) - 1) : LeafSuffix(st, i) \in DOMAIN st.leaves

\* The nodes above the leaves; there is no space for the root of the subtree.
Rebuilt(st) ==
    LET hashes == [i \in 1..Cardinality(DOMAIN st.leaves) |-> st.leaves[LeafSuffix(st, i - 1)]]
        suffix(s) == Split(NewNodeIDFromPrefix(st.prefix, LogStrataDepth - s.depth, s.index,
                                               LogStrataDepth, TotalDepth),
                           Len(st.prefix), st.depth).suffix
        inner == SelectSeq(AddLeafHashes(NewCompactMerkleTree, hashes).set,
                           LAMBDA s : s.depth > 0 /\ ~(s.depth = LogStrataDepth /\ s.index = 0))
    IN  FoldLeft(LAMBDA m, s : (suffix(s) :> s.hash) @@ m, EmptyMap, inner)

PopulateLogSubtree(st) ==
    LET filled(dense, internal) ==
            [ok |-> dense /\ Cardinality(DOMAIN internal) = st.count,
             subtree |-> [st EXCEPT !.internal = internal]]
    IN  filled(Dense(st), IF FullyPopulated(st) /\ Dense(st) THEN Rebuilt(st) ELSE st.internal)

PrepareLogSubtree(st) ==
    [st EXCEPT !.count = Cardinality(DOMAIN st.internal),
               !.internal = IF FullyPopulated(st) THEN EmptyMap ELSE @]

-----------------------------------------------------------------------------
LogSubtrees(rows, rev, prefixes) ==
    LET populated(found) == [px \in DOMAIN found |-> PopulateLogSubtree(found[px])]
    IN  populated(GetSubtrees(rows, rev, prefixes))

GetMerkleNodes(rows, rev, ids) ==
    GetNodes(NewSubtreeCache, ids,
             LogSubtrees(rows, rev, Wanted(NewSubtreeCache, ToSet(ids))), NoHash)

(* initMerkleTreeFromStorage; the cache stays with the transaction. *)
TreeNodeID(size, b) == NewNodeIDForTreeCoords(b, Shr(size, b) - 1, TotalDepth)

TreeBits(size) == IF IsPerfectTree(size) THEN << >> ELSE SizeBits(size)

TreeIn(cache, bits, root) ==
    LET hashes == [b \in ToSet(bits) |-> NodeHashIn(cache, TreeNodeID(root.size, b), NoHash)]
        loaded(t) == [ok |-> t.ok, tree |-> t.tree, cache |-> cache]
    IN  loaded(NewCompactMerkleTreeWithState(root.size, hashes, root.hash))

TreeFromStorage(rows, root) ==
    LET ids(bits) == [k \in 1..Len(bits) |-> TreeNodeID(root.size, bits[k])]
        tree(bits) == TreeIn(GetMerkleNodes(rows, root.rev, ids(bits)).cache, bits, root)
    IN  tree(TreeBits(root.size))

(* The node map: of several hashes for a node the last one stays. *)
BuildNodes(set) ==
    LET last(i) == ~\E j \in (i + 1)..Len(set) : set[j].depth = set[i].depth /\ set[j].index = set[i].index
        kept == SelectSeq([i \in 1..Len(set) |-> i], last)
    IN  [k \in 1..Len(kept) |->
           [id |-> NewNodeIDForTreeCoords(set[kept[k]].depth, set[kept[k]].index, TotalDepth),
            hash |-> set[kept[k]].hash]]

(* What a pass that integrates the leaves up to size writes. *)
Written(root, size, added, ok, written) ==
    [ok |-> ok /\ written.ok,
     rows |-> {[rev |-> root.rev + 1, subtree |-> PrepareLogSubtree(st)] : st \in Flush(written.cache)},
     root |-> Root(size, added.tree.root, root.rev + 1, root.ts + 1)]

WriteNodes(loaded, nodes, rev) ==
    SetNodes(loaded.cache, nodes,
             LogSubtrees(subtrees, rev, Wanted(loaded.cache, {nodes[k].id : k \in 1..Len(nodes)})))

Add(root, size, loaded, added) ==
    Written(root, size, added, loaded.ok, WriteNodes(loaded, BuildNodes(added.set), root.rev + 1))

AddLeaves(root, size, loaded) ==
    Add(root, size, loaded,
        AddLeafHashes(loaded.tree, [i \in 1..(size - root.size) |-> HashLeaf(submitted[root.size + i])]))

Integration(size) ==
    LET on(root) == AddLeaves(root, size, TreeFromStorage(subtrees, root))
    IN  on(LatestRoot)

Commit(pass) ==
    /\ pass.ok
    /\ subtrees' = subtrees \cup pass.rows
    /\ roots' = Append(roots, pass.root)

IntegrateBatch(size) ==
    /\ roots # << >>
    /\ LatestRoot.size < size /\ size <= Len(submitted)
    /\ Commit(Integration(size))
    /\ UNCHANGED submitted

Resigned == Cardinality({i \in 2..Len(roots) : roots[i].size = roots[i - 1].size})

(* A new root for the same leaves. *)
Resigning(root, loaded) ==
    [ok |-> loaded.ok, rows |-> {},
     root |-> Root(loaded.tree.size, loaded.tree.root, root.rev + 1, root.ts + 1)]

SignRoot ==
    /\ roots # << >>
    /\ Resigned < MaxResigned
    /\ Commit(Resigning(LatestRoot, TreeFromStorage(subtrees, LatestRoot)))
    /\ UNCHANGED submitted

(* The first root, of the empty tree. *)
InitLog ==
    /\ roots = << >>
    /\ roots' = <<Root(0, EmptyRoot, 0, 1)>>
    /\ UNCHANGED <<submitted, subtrees>>

TreeInit ==
    /\ subtrees = {}
    /\ roots = << >>
=============================================================================
