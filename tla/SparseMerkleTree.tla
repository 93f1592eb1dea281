--------------------------- MODULE SparseMerkleTree ---------------------------
(***************************************************************************)
(* The Merkle tree of a map: its hashers and verifiers, its tables, and      *)
(* merkle/sparse_merkle_tree.go.  A writer splits the tree in a top subtree  *)
(* and the subtrees below it.  Each is computed by a goroutine of its own,   *)
(* in a transaction of its own: it takes leaves from its queue until the     *)
(* queue is closed, and the leaves of the top are the roots of the others.   *)
(***************************************************************************)
EXTENDS SubtreeCache

(* merkle/maphasher/maphasher.go and merkle/coniks/coniks.go, the two hashers of maps,
   with an ideal hash function. The test hasher gives every empty branch of a height
   the same hash, that of its two empty halves; CONIKS ties the hash of a leaf and
   of an empty branch to its place. A value is a sequence and << >> the nil slice; a
   hash begins with a tag, which stands for the domain separation prefixes. *)

CONSTANT HashBits        \* the number of bits of an index

ASSUME HashBitsAssumption == HashBits \in Nat \ {0}

Strategies == {"TEST_MAP_HASHER", "CONIKS_SHA512_256"}

Nil == << >>

\* The hash of nothing; elements of a proof may be nil.
NoHash == <<"nil">>

TestHashLeaf(value) == <<"leaf", Nil, value>>

ConiksHashLeaf(index, value) == <<"leaf", index, value>>

HashLeaf(strategy, index, value) ==
    IF strategy = "CONIKS_SHA512_256" THEN ConiksHashLeaf(index, value) ELSE TestHashLeaf(value)

HashChildren(l, r) == <<"node", l, r>>

nullHashes[height \in 0..HashBits] ==
    IF height = 0 THEN TestHashLeaf(Nil)
                  ELSE HashChildren(nullHashes[height - 1], nullHashes[height - 1])

maskIndex(index, depth) == Fit(SubSeq(index, 1, depth), HashBits)

HashEmpty(strategy, index, height) ==
    IF strategy = "CONIKS_SHA512_256"
      THEN <<"empty", maskIndex(index, HashBits - height), HashBits - height>>
      ELSE nullHashes[height]

-----------------------------------------------------------------------------
(* merkle/hstar2.go: the root of a sparse Merkle tree, computed from the leaves that
   change and the hashes of the nodes beside them.  values is a function from
   indices, which are numbers of HashBits bits, to hashes of nodes at maxDepth; nodes
   is what the caller's get function finds, a function from pairs of a depth and an
   index.  The result has the hash and the nodes handed to set. *)

NodeAt(strategy, nodes, depth, index) ==
    IF <<depth, index>> \in DOMAIN nodes
      THEN nodes[<<depth, index>>]
      ELSE HashEmpty(strategy, NewNodeIDFromBigInt(BitLen(index), index, HashBits).path,
                     HashBits - depth)

\* below[d, is, off]: the node at depth d and index off, with the values at the indices is.
hStar2b(strategy, depth, maxDepth, values, offset, nodes) ==
    LET below[d \in 0..HashBits, is \in SUBSET DOMAIN values, off \in Nat] ==
          CASE is = {} ->
                 [hash |-> NodeAt(strategy, nodes, d, off), set |-> [n \in {} |-> NoHash]]
            [] is # {} /\ d = maxDepth ->
                 [hash |-> values[CHOOSE i \in is : TRUE], set |-> [n \in {} |-> NoHash]]
            [] OTHER ->
                 LET split == off + 2^(HashBits - d - 1)
                     lhs == below[d + 1, {i \in is : i < split}, off]
                     rhs == below[d + 1, {i \in is : i >= split}, split]
                     h == HashChildren(lhs.hash, rhs.hash)
                 IN  [hash |-> h, set |-> (<<d, off>> :> h) @@ lhs.set @@ rhs.set]
    IN  below[depth, DOMAIN values, offset]

HStar2Nodes(strategy, prefix, subtreeDepth, values, nodes) ==
    hStar2b(strategy, Len(prefix), Len(prefix) + subtreeDepth, values,
            BigInt(NewNodeIDFromPrefixSuffix(prefix, Suffix(0, << >>), HashBits)), nodes)

HStar2Root(strategy, depth, values) ==
    hStar2b(strategy, 0, depth, values, 0, [n \in {} |-> NoHash]).hash

-----------------------------------------------------------------------------
(* merkle/map_verifier.go, client/map_verifier.go, and the checks that
   integration/maptest/map.go makes of every answer.  A signature is the record
   that was signed. *)

(* The hash of a branch below which everything is empty is left open until
   the path meets a neighbour. *)
Combined(strategy, id, sib, running, element, height) ==
    LET own == IF running # NoHash THEN running
               ELSE HashEmpty(strategy, MaskLeft(id, id.len - height).path, height)
        other == IF element # NoHash THEN element ELSE HashEmpty(strategy, sib.path, height)
    IN  CASE running = NoHash /\ element = NoHash -> NoHash
          [] OTHER -> IF Bit(id, height) = 0 THEN HashChildren(own, other)
                                             ELSE HashChildren(other, own)

CalculatedRoot(strategy, index, leaf, proof) ==
    LET id == NewNodeIDFromHash(index)
        first == IF leaf = Nil THEN NoHash ELSE HashLeaf(strategy, index, leaf)
        last == FoldLeft(LAMBDA h, k : Combined(strategy, id, Siblings(id)[k], h, proof[k], k - 1),
                         first, [k \in 1..HashBits |-> k])
    IN  IF last # NoHash THEN last ELSE HashEmpty(strategy, MaskLeft(id, 0).path, HashBits)

VerifyMapInclusionProof(strategy, index, leaf, expectedRoot, proof) ==
    /\ Len(index) = HashBits /\ Len(proof) = HashBits
    /\ CalculatedRoot(strategy, index, leaf, proof) = expectedRoot

\* smr is a root with its signature.
VerifyMapLeafInclusion(strategy, smr, incl) ==
    VerifyMapInclusionProof(strategy, incl.leaf.index, incl.leaf.value, smr.hash, incl.inclusion)

Unsigned(smr) == [hash |-> smr.hash, ts |-> smr.ts, rev |-> smr.rev, meta |-> smr.meta]

VerifySignedMapRoot(smr) == smr.sig = Unsigned(smr)

verifyGetSignedMapRootResponse(smr, wantRevision) ==
    smr.rev = wantRevision /\ VerifySignedMapRoot(smr)

verifyGetMapLeavesResponse(strategy, resp, indexes, wantRevision) ==
    /\ resp.ok
    /\ Len(resp.inclusions) = Len(indexes)
    /\ verifyGetSignedMapRootResponse(resp.root, wantRevision)
    /\ \A i \in 1..Len(resp.inclusions) :
         LET incl == resp.inclusions[i]
         IN  /\ incl.leaf.hash = HashLeaf(strategy, incl.leaf.index, incl.leaf.value)
             /\ VerifyMapLeafInclusion(strategy, resp.root, incl)

-----------------------------------------------------------------------------
(* storage/mysql/map_storage.go with the map's half of the subtree cache,
   storage/cache/map_subtree_cache.go. A database is a record of the tables Subtree,
   MapLeaf and MapHead of one map; a transaction reads the tables as they were when
   it began. *)

ASSUME MapStrataAssumption == TotalDepth = HashBits

EmptyDB == [Subtree |-> {}, MapLeaf |-> {}, MapHead |-> {}]

MapLeaf(index, value, hash, extra) ==
    [index |-> index, value |-> value, hash |-> hash, extra |-> extra]

SignedMapRoot(hash, ts, rev, meta, sig) ==
    [hash |-> hash, ts |-> ts, rev |-> rev, meta |-> meta, sig |-> sig]

NoRoot == SignedMapRoot(NoHash, 0, -1, Nil, Nil)

-----------------------------------------------------------------------------
(* Only the lowest level of a subtree is stored. *)
LeafValues(st) ==
    LET index(sfx) == BigInt(NewNodeIDFromPrefixSuffix(st.prefix, sfx, HashBits))
    IN  [i \in {index(sfx) : sfx \in DOMAIN st.leaves} |->
           st.leaves[CHOOSE sfx \in DOMAIN st.leaves : index(sfx) = i]]

\* There is no space for the root of the subtree.
InternalNodes(st, set) ==
    LET inner == {n \in DOMAIN set : n[1] > Len(st.prefix) \/ st.prefix = << >>}
        suffix(n) == Split(NewNodeIDFromBigInt(n[1], n[2], HashBits), Len(st.prefix), st.depth).suffix
    IN  [sfx \in {suffix(n) : n \in inner} |-> set[CHOOSE n \in inner : suffix(n) = sfx]]

populateMapSubtreeNodes(strategy, st) ==
    [ok |-> \A sfx \in DOMAIN st.leaves : sfx.bits % Byte = 0,
     subtree |-> [st EXCEPT !.internal =
                    InternalNodes(st, HStar2Nodes(strategy, st.prefix, st.depth, LeafValues(st),
                                                  [n \in {} |-> NoHash]).set)]]

prepareMapSubtreeWrite(st) == [st EXCEPT !.internal = EmptyMap, !.count = 0]

MapSubtrees(strategy, rows, rev, prefixes) ==
    LET populated(found) == [px \in DOMAIN found |-> populateMapSubtreeNodes(strategy, found[px])]
    IN  populated(GetSubtrees(rows, rev, prefixes))

MapNodes(strategy, rows, rev, ids) ==
    GetNodes(NewSubtreeCache, ids,
             MapSubtrees(strategy, rows, rev, Wanted(NewSubtreeCache, ToSet(ids))), NoHash)

\* The primary key of table Subtree.
SubtreeClash(rows, new) ==
    \E r \in rows, n \in new : r.rev = n.rev /\ r.subtree.prefix = n.subtree.prefix

-----------------------------------------------------------------------------
(* The row with the latest timestamp. *)
LatestSignedMapRoot(db) ==
    IF db.MapHead = {} THEN NoRoot
    ELSE CHOOSE r \in db.MapHead : \A q \in db.MapHead : q.ts <= r.ts

GetSignedMapRoot(db, rev) ==
    IF \E r \in db.MapHead : r.rev = rev THEN CHOOSE r \in db.MapHead : r.rev = rev ELSE NoRoot

(* begin: a transaction that finds no root goes on, with revision -1. *)
WriteRevision(db) ==
    IF db.MapHead = {} THEN -1 ELSE LatestSignedMapRoot(db).rev + 1

(* The columns of the unique indices of MapHead. *)
RootClash(db, root) == \E r \in db.MapHead : r.rev = root.rev \/ r.ts = root.ts

MapLeafRow(leaf, rev) == [key |-> leaf.index, rev |-> rev, leaf |-> leaf]

LeafClash(rows, key, rev) == \E r \in rows : r.key = key /\ r.rev = rev

(* At most one leaf: the latest of this index up to the revision. *)
Get(db, rev, index) ==
    LET rows == {r \in db.MapLeaf : r.key = index /\ r.rev <= rev}
    IN  IF rows = {} THEN << >>
        ELSE <<[(CHOOSE r \in rows : \A q \in rows : q.rev <= r.rev).leaf EXCEPT !.index = index]>>

-----------------------------------------------------------------------------
(* The writers of the tree. *)

CONSTANT QueueSize       \* the length of the queue of a bottom subtree

ASSUME QueueSizeAssumption == QueueSize \in Nat \ {0}

topSubtreeSize == Strata[1]

Top == << >>

leafQueueSize(prefix) == IF prefix = Top THEN 2^topSubtreeSize ELSE QueueSize

\* rev and view: what the transaction read when it began.
newLocalSubtreeWriter(prefix, treeRevision) ==
    [prefix |-> prefix, depth |-> IF prefix = Top THEN topSubtreeSize ELSE HashBits - topSubtreeSize,
     treeRevision |-> treeRevision, state |-> "begin", rev |-> -1, view |-> {}, queue |-> << >>, closed |-> FALSE,
     values |-> [i \in {} |-> NoHash], root |-> NoHash]

ErrHash == <<"error">>

childPrefix(index) == SubSeq(index, 1, topSubtreeSize)

\* An entry of a queue is a leaf with its hash, or the future of a child with hash NoHash.
Entry(index, hash) == [index |-> index, hash |-> hash]

getOrCreateChildSubtree(tree, child) ==
    IF child \in DOMAIN tree THEN tree
    ELSE (child :> newLocalSubtreeWriter(child, tree[Top].treeRevision)) @@
         [tree EXCEPT ![Top].queue = Append(@, Entry(child, NoHash))]

SetLeaf(tree, index, hash) ==
    [getOrCreateChildSubtree(tree, childPrefix(index)) EXCEPT
        ![childPrefix(index)].queue = Append(@, Entry(index, hash))]

\* The entry that a goroutine works on has left its queue.
Queued(s) == Len(s.queue) - (IF s.state = "drain" /\ s.queue # << >> THEN 1 ELSE 0)

HasRoom(tree, index) ==
    LET p == IF childPrefix(index) \in DOMAIN tree THEN childPrefix(index) ELSE Top
    IN  Queued(tree[p]) < leafQueueSize(p)

\* Mutant: only the queue of the top is closed.
CalculateRootOfTop(tree) == [tree EXCEPT ![Top].closed = TRUE]

CalculateRoot(tree) == [p \in DOMAIN tree |-> [tree[p] EXCEPT !.closed = TRUE]]

\* What is left in the queue of a goroutine that failed stays there.
Ended(s, root) == [s EXCEPT !.state = "done", !.root = root, !.view = {},
                            !.values = [i \in {} |-> NoHash]]

Took(s, index, hash) ==
    [s EXCEPT !.queue = Tail(@),
              !.values = (BigInt(NewNodeIDFromPrefixSuffix(index, Suffix(0, << >>), HashBits)) :> hash) @@ @]

-----------------------------------------------------------------------------
(* The nodes of a subtree, and those that exist at the revision. *)
NodesBelow(s) ==
    LET nodes == {n \in (Len(s.prefix)..(Len(s.prefix) + s.depth)) \X (0..(2^s.depth - 1)) :
                    n[2] < 2^(n[1] - Len(s.prefix))}
        path(d, i) == Fit(s.prefix \o Bits(i, d - Len(s.prefix)), HashBits)
    IN  {<<n[1], BigInt(NodeID(path(n[1], n[2]), n[1]))>> : n \in nodes}

IDOf(n) == NewNodeIDFromBigInt(n[1], n[2], HashBits)

Found(cache, hashes) ==
    [cache |-> cache, nodes |-> Restrict(hashes, {n \in DOMAIN hashes : hashes[n] # NoHash})]

LookUp(cache, nodes) == Found(cache, [n \in nodes |-> NodeHashIn(cache, IDOf(n), NoHash)])

StoredNodes(strategy, s) ==
    LET load(c, id) == Preload(c, <<id>>, MapSubtrees(strategy, s.view, s.treeRevision, Wanted(c, {id})))
    IN  LookUp(FoldSet(LAMBDA n, c : load(c, IDOf(n)), NewSubtreeCache, NodesBelow(s)), NodesBelow(s))

\* Mutant: the root of a subtree is stored with the subtree, and its leaves are not.
NodesToStoreShifted(s, set) ==
    [n \in {m \in DOMAIN set : m[1] > Len(s.prefix) \/ s.prefix = Top} |-> set[n]]

(* The leaves of the subtree and what set was called for; its root belongs to
   the subtree above. *)
NodesToStore(s, set) ==
    LET bottom == Len(s.prefix) + s.depth
    IN  [n \in {<<bottom, i>> : i \in DOMAIN s.values} |-> s.values[n[2]]] @@
        [n \in {m \in DOMAIN set : m[1] > Len(s.prefix) \/ s.prefix = Top} |-> set[n]]

Store(strategy, s, cache, new) ==
    LET put(c, id, h) == SetNodeHash(c, id, h, MapSubtrees(strategy, s.view, s.rev, Wanted(c, {id}))).cache
    IN  FoldSet(LAMBDA n, c : put(c, IDOf(n), new[n]), cache, DOMAIN new)

(* buildSubtree, once the queue is closed and empty: the root and the rows of
   table Subtree.  Nodes are read at the revision of the request and written at
   that of this transaction; one that found no root writes none. *)
Built(strategy, s, cache, built) ==
    [root |-> built.hash,
     rows |-> IF s.rev = -1 THEN {}
              ELSE {[rev |-> s.rev, subtree |-> prepareMapSubtreeWrite(st)] :
                      st \in Flush(Store(strategy, s, cache, NodesToStore(s, built.set)))}]

BuildFrom(strategy, s, stored) ==
    Built(strategy, s, stored.cache, HStar2Nodes(strategy, s.prefix, s.depth, s.values, stored.nodes))

buildSubtree(strategy, s) == BuildFrom(strategy, s, StoredNodes(strategy, s))

-----------------------------------------------------------------------------
(* A proof has an element for every level from the leaf upwards; nodes that
   storage does not have stay nil. *)
ProofOf(sibs, nodes) ==
    LET at(i) == {k \in 1..Len(nodes) : Equivalent(nodes[k].id, sibs[i])}
    IN  [i \in 1..Len(sibs) |-> IF at(i) = {} THEN NoHash ELSE nodes[CHOOSE k \in at(i) : TRUE].hash]

InclusionProof(strategy, rows, rev, index) ==
    LET from(sibs) == ProofOf(sibs, MapNodes(strategy, rows, rev, sibs).nodes)
    IN  from(Siblings(NewNodeIDFromHash(index)))
=============================================================================
