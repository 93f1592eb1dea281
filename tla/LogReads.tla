------------------------------- MODULE LogReads ------------------------------
(***************************************************************************)
(* The read RPCs of server/log_rpc_server.go with server/validate.go and    *)
(* server/proof_fetcher.go, and how the nodes of a proof are chosen.  A     *)
(* handler reads in one snapshot transaction, so its answer is a function   *)
(* of the current tables: a code and a body.                                *)
(***************************************************************************)
EXTENDS LogTree

LOCAL INSTANCE SequencesExt

(* merkle/merkle_path.go: which stored nodes prove the inclusion of a leaf, or the
   consistency of two sizes, for any size up to that of the stored tree.  Nodes with
   a single child are not stored, and the right edge of a smaller tree has to be
   hashed anew from its left neighbours. *)

Fetch(id, rehash) == [id |-> id, rehash |-> rehash]

\* A list of fetches with this one in it is an error.
BadFetch == Fetch(NoNodeID, FALSE)

\* So is one with this, which stands for an error without a code.
BadRehash == Fetch(NoNodeID, TRUE)

CheckSnapshot(ss, treeSize) == 1 <= ss /\ ss <= treeSize

LastNodePresent(level, ts) == level = 0 \/ BitSet(ts - 1, level - 1)

RECURSIVE SkipMissingLevels(_, _, _, _)
SkipMissingLevels(snapshot, lastNode, level, sibling) ==
    IF level > 0 /\ sibling = lastNode /\ ~LastNodePresent(level, snapshot)
      THEN SkipMissingLevels(snapshot, Shr(snapshot - 1, level - 1), level - 1, 2 * sibling)
      ELSE [level |-> level, sibling |-> sibling]

SiblingIDSkipLevels(snapshot, lastNode, level, node, maxBitLen) ==
    LET at(s) == NewNodeIDForTreeCoords(s.level, s.sibling, maxBitLen)
    IN  at(SkipMissingLevels(snapshot, lastNode, level, Sibling(node)))

(* The node at nodeLevel on the right edge of the tree of size snapshot, from
   the nodes of the tree of size treeSize: a copy, or several to be hashed. *)
RecomputePastSnapshot(snapshot, treeSize, nodeLevel, maxBitLen) ==
    LET last(l) == Shr(snapshot - 1, l)
        id(l, node) == SiblingIDSkipLevels(snapshot, Shr(treeSize - 1, l), l, node, maxBitLen)
        up == TrailingOnes(snapshot - 1)
        saved == id(up, Sibling(last(up)))
        top == BitLen(snapshot - 1)
        right == SelectSeq([l \in 1..top |-> l - 1],
                           LAMBDA l : up <= l /\ l < nodeLevel /\ last(l) % 2 = 1)
        hashedWith == [i \in 1..Len(right) |-> Fetch(id(right[i], Sibling(last(right[i]) - 1)), TRUE)]
    IN  CASE nodeLevel < up -> <<Fetch(id(nodeLevel, Sibling(last(nodeLevel))), FALSE)>>
          [] nodeLevel = up -> <<Fetch(saved, TRUE)>>
          [] nodeLevel > up /\ right # << >> -> <<Fetch(saved, TRUE)>> \o hashedWith
          [] OTHER -> IF nodeLevel <= top THEN <<Fetch(saved, FALSE)>> ELSE << >>

CheckRecomputation(fetches) ==
    /\ Len(fetches) > 0
    /\ Len(fetches) = 1 => ~fetches[1].rehash
    /\ \A i \in 1..Len(fetches) : fetches[i].rehash = fetches[1].rehash

Checked(fetches) == IF CheckRecomputation(fetches) THEN fetches ELSE <<BadRehash>>

PathFromNodeToRootAtSnapshot(node, level, snapshot, treeSize, maxBitLen) ==
    LET at(l) ==
          LET sibling == Sibling(Shr(node, l - level))
              lastNode == Shr(snapshot - 1, l)
          IN  CASE sibling < lastNode ->
                     <<Fetch(NewNodeIDForTreeCoords(l, sibling, maxBitLen), FALSE)>>
                [] sibling = lastNode /\ snapshot = treeSize ->
                     <<Fetch(SiblingIDSkipLevels(snapshot, lastNode, l, Sibling(sibling), maxBitLen), FALSE)>>
                [] sibling = lastNode /\ snapshot # treeSize ->
                     Checked(RecomputePastSnapshot(snapshot, treeSize, l, maxBitLen))
                [] OTHER -> << >>
    IN  FlattenSeq([i \in 1..(BitLen(snapshot - 1) - level) |-> at(level + i - 1)])

CalcInclusionProofNodeAddresses(snapshot, index, treeSize, maxBitLen) ==
    IF CheckSnapshot(snapshot, treeSize) /\ 0 <= index /\ index < snapshot
      THEN PathFromNodeToRootAtSnapshot(index, 0, snapshot, treeSize, maxBitLen)
      ELSE <<BadFetch>>

SnapshotConsistency(snapshot1, snapshot2, treeSize, maxBitLen) ==
    LET level == TrailingOnes(snapshot1 - 1)
        node == Shr(snapshot1 - 1, level)
        first == IF node # 0 THEN <<Fetch(NewNodeIDForTreeCoords(level, node, maxBitLen), FALSE)>> ELSE << >>
    IN  IF snapshot1 = snapshot2
          THEN << >>
          ELSE first \o PathFromNodeToRootAtSnapshot(node, level, snapshot2, treeSize, maxBitLen)

CalcConsistencyProofNodeAddresses(snapshot1, snapshot2, treeSize, maxBitLen) ==
    IF CheckSnapshot(snapshot1, treeSize) /\ CheckSnapshot(snapshot2, treeSize) /\ snapshot1 <= snapshot2
      THEN SnapshotConsistency(snapshot1, snapshot2, treeSize, maxBitLen)
      ELSE <<BadFetch>>

-----------------------------------------------------------------------------
(* The handlers. *)

OK(body) == [code |-> "OK", body |-> body]

Error(code) == [code |-> code, body |-> << >>]

(* SnapshotForTree fails until the log has a root. *)
InSnapshot(answer) == IF roots = << >> THEN Error("FailedPrecondition") ELSE answer

Proof(leafIndex, hashes) == [leafIndex |-> leafIndex, hashes |-> hashes]

-----------------------------------------------------------------------------
(* The rehasher: a run of fetches marked rehash becomes one hash. *)
Process(r, hash, rehash) ==
    CASE ~r.rehashing /\ rehash -> [r EXCEPT !.rehashing = TRUE, !.hash = hash]
      [] r.rehashing /\ rehash -> [r EXCEPT !.hash = HashChildren(hash, @)]
      [] r.rehashing /\ ~rehash -> [rehashing |-> FALSE, hash |-> NoHash,
                                    proof |-> r.proof \o <<r.hash, hash>>]
      [] OTHER -> [r EXCEPT !.proof = Append(@, hash)]

\* Mutant: a chain at the end of the proof is forgotten.
UnfinishedProof(r) == r.proof

RehashedProof(r) == IF r.rehashing THEN Append(r.proof, r.hash) ELSE r.proof

Rehash(nodes, fetches) ==
    LET run[i \in 0..Len(nodes)] ==
            IF i = 0 THEN [rehashing |-> FALSE, hash |-> NoHash, proof |-> << >>]
                     ELSE Process(run[i - 1], nodes[i].hash, fetches[i].rehash)
    IN  run[Len(nodes)]

BuildProof(leafIndex, nodes, fetches) ==
    IF /\ Len(nodes) = Len(fetches)
       /\ \A i \in 1..Len(nodes) : Equivalent(nodes[i].id, fetches[i].id)
      THEN OK(Proof(leafIndex, RehashedProof(Rehash(nodes, fetches))))
      ELSE Error("Unknown")

FetchNodesAndBuildProof(leafIndex, fetches) ==
    BuildProof(leafIndex,
               GetMerkleNodes(subtrees, LatestRoot.rev, [i \in 1..Len(fetches) |-> fetches[i].id]).nodes,
               fetches)

\* The node addresses, unless they cannot be computed for the sizes asked for.
ProofFrom(leafIndex, fetches) ==
    CASE BadFetch \in ToSet(fetches) -> Error("InvalidArgument")
      [] BadRehash \in ToSet(fetches) -> Error("Unknown")
      [] OTHER -> FetchNodesAndBuildProof(leafIndex, fetches)

GetInclusionProofForLeafIndex(snapshot, leafIndex) ==
    ProofFrom(leafIndex,
        CalcInclusionProofNodeAddresses(snapshot, leafIndex, LatestRoot.size, TotalDepth))

-----------------------------------------------------------------------------
(* The indices of the leaves with a hash; duplicates are possible. *)
LeavesByHash(leafHash) == {i \in 0..(LatestRoot.size - 1) : HashLeaf(submitted[i + 1]) = leafHash}

LeafAt(i) == [leafIndex |-> i, leafValue |-> submitted[i + 1], merkleLeafHash |-> HashLeaf(submitted[i + 1])]

GetInclusionProof(leafIndex, treeSize) ==
    IF treeSize <= 0 \/ leafIndex < 0 \/ leafIndex >= treeSize
      THEN Error("InvalidArgument")
      ELSE InSnapshot(GetInclusionProofForLeafIndex(treeSize, leafIndex))

AllProofs(proofs) ==
    CASE proofs = {} -> Error("NotFound")
      [] \A p \in proofs : p.code = "OK" -> OK({p.body : p \in proofs})
      [] OTHER -> CHOOSE p \in proofs : p.code # "OK"

GetInclusionProofByHash(leafHash, treeSize) ==
    IF treeSize <= 0
      THEN Error("InvalidArgument")
      ELSE InSnapshot(AllProofs({GetInclusionProofForLeafIndex(treeSize, i) : i \in LeavesByHash(leafHash)}))

GetConsistencyProof(first, second) ==
    IF first <= 0 \/ second <= 0 \/ second < first
      THEN Error("InvalidArgument")
      ELSE InSnapshot(ProofFrom(0,
               CalcConsistencyProofNodeAddresses(first, second, LatestRoot.size, TotalDepth)))

GetLatestSignedLogRoot == InSnapshot(OK(LatestRoot))

GetSequencedLeafCount == InSnapshot(OK(Len(Sequenced)))

GetLeavesByIndex(indices) ==
    IF indices = << >> \/ \E i \in ToSet(indices) : i < 0
      THEN Error("InvalidArgument")
      ELSE InSnapshot(IF \A i \in ToSet(indices) : i < Len(Sequenced)
                        THEN OK([k \in 1..Len(indices) |-> LeafAt(indices[k])])
                        ELSE Error("Unknown"))

\* A range that reaches beyond the tree is cut short.
GetLeavesByRange(start, count) ==
    IF start < 0 \/ count <= 0
      THEN Error("InvalidArgument")
      ELSE InSnapshot(IF start >= Len(Sequenced)
                        THEN Error("InvalidArgument")
                        ELSE OK([k \in 1..(IF start + count <= Len(Sequenced) THEN count ELSE Len(Sequenced) - start) |->
                                   LeafAt(start + k - 1)]))

GetLeavesByHash(leafHashes) ==
    IF leafHashes = {}
      THEN Error("InvalidArgument")
      ELSE InSnapshot(OK({LeafAt(i) : i \in UNION {LeavesByHash(h) : h \in leafHashes}}))

GetEntryAndProof(leafIndex, treeSize) ==
    LET with(proof) == IF proof.code # "OK" THEN proof
                                            ELSE OK([proof |-> proof.body, leaf |-> LeafAt(leafIndex)])
    IN  with(GetInclusionProof(leafIndex, treeSize))
=============================================================================
