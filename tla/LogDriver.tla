------------------------------ MODULE LogDriver ------------------------------
(***************************************************************************)
(* integration/log.go: the test that runs against a log of its own.  It     *)
(* queues leaves, some of them several times, waits until all are           *)
(* sequenced, reads them back, builds the tree from them with the two       *)
(* implementations of package merkle and compares the root and the proofs   *)
(* of the log with that.                                                    *)
(***************************************************************************)
EXTENDS LogReads

LOCAL INSTANCE SequencesExt
LOCAL INSTANCE FiniteSetsExt

(* merkle/memory_merkle_tree.go: all levels of a log's tree, evaluated lazily. Leaves
   are only appended to the lowest level; asking for a root or a path processes as
   many leaves as the question needs and changes the tree. tree[1] is the level of
   the leaves; the level above the last node without a sibling holds a copy of it. *)

IsPowerOfTwoPlusOne(n) == n = 1 \/ (n > 1 /\ \E e \in 0..BitLen(n) : n - 1 = 2^e)

NewInMemoryMerkleTree == [tree |-> << >>, leavesProcessed |-> 0, levelCount |-> 0]

LeafCount(mt) == IF mt.tree = << >> THEN 0 ELSE Len(mt.tree[1])

LeafHash(mt, leaf) == IF leaf = 0 \/ leaf > LeafCount(mt) THEN NoHash ELSE mt.tree[1][leaf]

AddLeafHashTo(mt, hash) ==
    LET leaves == IF mt.tree = << >> THEN <<hash>> ELSE Append(mt.tree[1], hash)
    IN  [tree |-> <<leaves>> \o SubSeq(mt.tree, 2, Len(mt.tree)),
         leavesProcessed |-> IF mt.tree = << >> THEN 1 ELSE mt.leavesProcessed,
         levelCount |-> mt.levelCount + (IF IsPowerOfTwoPlusOne(Len(leaves)) THEN 1 ELSE 0)]

RootOf(mt) ==
    IF Assert(Len(Last(mt.tree)) = 1, "found multiple nodes in root") THEN Last(mt.tree)[1] ELSE NoHash

(* Hash the nodes first..last of a level into the level above, whose last node
   may be the parent of first as it was before. *)
RECURSIVE UpdateLevels(_, _, _, _)
UpdateLevels(tree, level, first, last) ==
    IF last = 0
      THEN tree
      ELSE LET nodes == tree[level + 1]
               above == IF Len(tree) < level + 2 THEN << >> ELSE tree[level + 2]
               kept == IF Len(above) = Shr(first, 1) + 1 THEN Front(above) ELSE above
               start == first - (first % 2)
               hashed == [i \in 1..((last - start + 1) \div 2) |->
                            HashChildren(nodes[start + 2 * i - 1], nodes[start + 2 * i])]
               copied == IF last % 2 = 0 THEN <<nodes[last + 1]>> ELSE << >>
               parents == kept \o hashed \o copied
               grown == IF Len(tree) < level + 2 THEN Append(tree, parents)
                                                 ELSE [tree EXCEPT ![level + 2] = parents]
           IN  UpdateLevels(grown, level + 1, Shr(first, 1), Shr(last, 1))

UpdateToSnapshot(mt, snapshot) ==
    IF snapshot <= 1 \/ snapshot = mt.leavesProcessed
      THEN mt
      ELSE IF Assert(mt.leavesProcessed < snapshot /\ snapshot <= LeafCount(mt), "updateToSnapshot")
             THEN [mt EXCEPT !.tree = UpdateLevels(mt.tree, 0, mt.leavesProcessed, snapshot - 1),
                             !.leavesProcessed = snapshot]
             ELSE mt

(* The nodes of the right edge of a smaller tree, level by level, its root
   included. *)
PastEdge(mt, snapshot) ==
    LET last(l) == Shr(snapshot - 1, l)
        up == TrailingOnes(snapshot - 1)
        edge[l \in 0..BitLen(snapshot - 1)] ==
            CASE l <= up -> mt.tree[l + 1][last(l) + 1]
              [] l > up /\ last(l - 1) % 2 = 1 -> HashChildren(mt.tree[l][last(l - 1)], edge[l - 1])
              [] OTHER -> edge[l - 1]
    IN  edge

RecomputePastRoot(mt, snapshot) ==
    IF snapshot = mt.leavesProcessed THEN RootOf(mt)
    ELSE PastEdge(mt, snapshot)[BitLen(snapshot - 1)]

RecomputePastNode(mt, snapshot, nodeLevel) ==
    CASE snapshot = mt.leavesProcessed /\ nodeLevel > 0 -> Last(mt.tree[nodeLevel + 1])
      [] snapshot = mt.leavesProcessed /\ nodeLevel = 0 -> mt.tree[1][snapshot]
      [] OTHER -> PastEdge(mt, snapshot)[nodeLevel]

RootAtSnapshot(mt, snapshot) ==
    LET updated == UpdateToSnapshot(mt, snapshot)
    IN  CASE snapshot = 0 -> [tree |-> mt, root |-> EmptyRoot]
          [] snapshot > LeafCount(mt) -> [tree |-> mt, root |-> NoHash]
          [] snapshot = 1 /\ snapshot >= mt.leavesProcessed -> [tree |-> mt, root |-> mt.tree[1][1]]
          [] 1 < snapshot /\ mt.leavesProcessed <= snapshot /\ snapshot <= LeafCount(mt) ->
               [tree |-> updated, root |-> RootOf(updated)]
          [] OTHER -> [tree |-> mt, root |-> RecomputePastRoot(mt, snapshot)]

CurrentRoot(mt) == RootAtSnapshot(mt, LeafCount(mt))

PathFromNode(mt, node, level, snapshot) ==
    LET at(l) ==
          LET sibling == Sibling(Shr(node, l - level))
              lastNode == Shr(snapshot - 1, l)
          IN  CASE sibling < lastNode -> <<mt.tree[l + 1][sibling + 1]>>
                [] sibling = lastNode -> <<RecomputePastNode(mt, snapshot, l)>>
                [] OTHER -> << >>
    IN  IF snapshot = 0 \/ level >= mt.levelCount \/ node > Shr(snapshot - 1, level)
          THEN << >>
          ELSE FlattenSeq([i \in 1..(BitLen(snapshot - 1) - level) |-> at(level + i - 1)])

PathToRootAtSnapshot(mt, leaf, snapshot) ==
    LET updated == IF snapshot > mt.leavesProcessed THEN UpdateToSnapshot(mt, snapshot) ELSE mt
    IN  IF leaf > snapshot \/ snapshot > LeafCount(mt) \/ leaf = 0
          THEN [tree |-> mt, path |-> << >>]
          ELSE [tree |-> updated, path |-> PathFromNode(updated, leaf - 1, 0, snapshot)]

SnapshotConsistencyOf(mt, snapshot1, snapshot2) ==
    LET level == TrailingOnes(snapshot1 - 1)
        node == Shr(snapshot1 - 1, level)
        updated == IF snapshot2 > mt.leavesProcessed THEN UpdateToSnapshot(mt, snapshot2) ELSE mt
        first == IF node # 0 THEN <<updated.tree[level + 1][node + 1]>> ELSE << >>
    IN  IF snapshot1 = 0 \/ snapshot1 >= snapshot2 \/ snapshot2 > LeafCount(mt)
          THEN [tree |-> mt, path |-> << >>]
          ELSE [tree |-> updated, path |-> first \o PathFromNode(updated, node, level, snapshot2)]

-----------------------------------------------------------------------------
(* The test. *)

CONSTANTS QueueBatchSize,        \* leaves per QueueLeaves request
          SequencerBatchSize,    \* the batch size the log is assumed to have
          ReadBatchSize,         \* leaves per GetLeavesByIndex request
          InclusionIndices       \* where the inclusion proofs are probed

ASSUME LogDriverAssumption ==
    /\ {QueueBatchSize, SequencerBatchSize, ReadBatchSize} \subseteq Nat \ {0}
    /\ InclusionIndices \subseteq Nat

VARIABLE driver

LeafTotal == Len(Queue)

DriverInit == driver = [pc |-> "empty", leafMap |-> << >>, mt |-> NewInMemoryMerkleTree]

\* Every leaf was read back as often as it was queued.
SameCounts(s, t) ==
    \A v \in ToSet(s) \cup ToSet(t) :
       Cardinality({i \in 1..Len(s) : s[i] = v}) = Cardinality({i \in 1..Len(t) : t[i] = v})

Check(passed, next) == driver' = [driver EXCEPT !.pc = IF passed THEN next ELSE "failed"]

-----------------------------------------------------------------------------
CheckLogEmpty ==
    /\ driver.pc = "empty"
    /\ Check(GetLatestSignedLogRoot.code = "OK" /\ GetLatestSignedLogRoot.body.size = 0, "queue")
    /\ UNCHANGED treeVars

QueueLeaves ==
    /\ driver.pc = "queue"
    /\ submitted' = SubSeq(Queue, 1, Min({Len(submitted) + QueueBatchSize, LeafTotal}))
    /\ Check(TRUE, IF submitted' = Queue THEN "wait" ELSE "queue")
    /\ UNCHANGED <<subtrees, roots>>

(* Poll until all leaves are sequenced or the time is over. *)
WaitForSequencing ==
    /\ driver.pc = "wait"
    /\ \/ /\ GetSequencedLeafCount.code = "OK" => GetSequencedLeafCount.body >= LeafTotal
          /\ Check(GetSequencedLeafCount.code = "OK", "readback")
       \/ Check(TRUE, "expired")
    /\ UNCHANGED treeVars

ReadbackLogEntries ==
    /\ driver.pc = "readback"
    /\ LET current == Len(driver.leafMap)
           resp == GetLeavesByIndex([i \in 1..Min({ReadBatchSize, LeafTotal - current}) |-> current + i - 1])
           read == resp.body
           right == \A i \in 1..Len(read) : /\ read[i].leafIndex = current + i - 1
                                            /\ HashLeaf(read[i].leafValue) = read[i].merkleLeafHash
           leafMap == driver.leafMap \o [i \in 1..Len(read) |-> read[i].leafValue]
           all == Len(leafMap) >= LeafTotal
       IN  IF resp.code # "OK" \/ read = << >> \/ ~right
                \/ (all /\ ~SameCounts(leafMap, Queue))
             THEN driver' = [driver EXCEPT !.pc = "failed"]
             ELSE driver' = [driver EXCEPT !.leafMap = leafMap, !.pc = IF all THEN "build" ELSE "readback"]
    /\ UNCHANGED treeVars

(* The same leaves in both trees; their roots have to agree. *)
BuildMemoryMerkleTree ==
    /\ driver.pc = "build"
    /\ LET hashes == [i \in 1..LeafTotal |-> HashLeaf(driver.leafMap[i])]
           compact == AddLeafHashes(NewCompactMerkleTree, hashes).tree
           memory == CurrentRoot(FoldLeft(AddLeafHashTo, NewInMemoryMerkleTree, hashes))
       IN  driver' = [driver EXCEPT !.mt = memory.tree,
                                    !.pc = IF compact.root = memory.root THEN "root" ELSE "failed"]
    /\ UNCHANGED treeVars

CheckLogRootHashMatches ==
    /\ driver.pc = "root"
    /\ Check(/\ GetLatestSignedLogRoot.code = "OK"
             /\ GetLatestSignedLogRoot.body.hash = CurrentRoot(driver.mt).root, "range")
    /\ UNCHANGED treeVars

CheckInclusionProofOutOfRange ==
    /\ driver.pc = "range"
    /\ Check(/\ GetInclusionProof(LeafTotal + 1, LeafTotal).code # "OK"
             /\ GetInclusionProof(SequencerBatchSize, LeafTotal + SequencerBatchSize).code # "OK", "inclusion")
    /\ UNCHANGED treeVars

IncludedAt(index, treeSize, resp) ==
    /\ (resp.code = "OK") <=> (index < treeSize)
    /\ resp.code = "OK" =>
         VerifyInclusionProof(index, treeSize, resp.body.hashes,
                              RootAtSnapshot(driver.mt, treeSize).root, LeafHash(driver.mt, index + 1))

CheckInclusionProofsAtIndex ==
    /\ driver.pc = "inclusion"
    /\ Check(\A index \in InclusionIndices, treeSize \in 0..(Min({LeafTotal, 2 * SequencerBatchSize}) - 1) :
               IncludedAt(index, treeSize, GetInclusionProof(index, treeSize)), "consistency")
    /\ UNCHANGED treeVars

ConsistentWith(first, second, resp) ==
    /\ resp.code = "OK"
    /\ VerifyConsistencyProof(first, second, RootAtSnapshot(driver.mt, first).root,
                              RootAtSnapshot(driver.mt, second).root, resp.body.hashes)

ConsistentAt(first, second) == ConsistentWith(first, second, GetConsistencyProof(first, second))

BadSizes == {<<0, 0>>, <<-1, 0>>, <<1000, 1000>>}

GoodSizes == {<<1, 2>>, <<2, 3>>, <<1, 3>>, <<2, 4>>}

\* Good sizes are tried with half the batch size, too, unless the batch is a single leaf.
CheckConsistencyProofs ==
    /\ driver.pc = "consistency"
    /\ Check(\A p \in BadSizes \cup GoodSizes, batch \in {QueueBatchSize, QueueBatchSize \div 2} \ {0} :
               p \in GoodSizes \/ batch = QueueBatchSize =>
                 (ConsistentAt(p[1] * batch, p[2] * batch) <=> p \in GoodSizes), "passed")
    /\ UNCHANGED treeVars

DriverNext ==
    \/ CheckLogEmpty \/ QueueLeaves \/ WaitForSequencing \/ ReadbackLogEntries
    \/ BuildMemoryMerkleTree \/ CheckLogRootHashMatches \/ CheckInclusionProofOutOfRange
    \/ CheckInclusionProofsAtIndex \/ CheckConsistencyProofs
=============================================================================
