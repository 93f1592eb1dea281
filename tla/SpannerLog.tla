------------------------------ MODULE SpannerLog -------------------------------
(***************************************************************************)
(* A log stored in Cloud Spanner (log_storage.go, tree_storage.go and      *)
(* sigs.go of storage/cloudspanner): what its reads return and what its    *)
(* writes buffer, on the database db that the transaction sees.            *)
(*                                                                         *)
(* A leaf is [id, merkle]: its identity hash and its Merkle leaf hash, of  *)
(* which the first byte matters.  The nodes of the Merkle tree are kept in *)
(* subtrees of ChunkSize leaves, a root hash is the sequence of the leaf   *)
(* hashes below it (the Merkle tree itself is the matter of LogTree).      *)
(***************************************************************************)
EXTENDS SpannerAdmin

CONSTANTS LogID,          \* the log
          HashesPerByte,  \* how many of the Merkle leaf hashes share a first byte
          ChunkSize,      \* leaves per subtree
          Signature       \* the signature algorithm of the tree's key

FirstByte(merkle) == merkle \div HashesPerByte

-------------------------------------------------------------------------------
\* sigs.go: the algorithms of a signature, in the API and in the storage.
apiHashAlg == "NONE" :> "storage NONE" @@ "SHA256" :> "storage SHA256"
apiSigAlg  == "ANONYMOUS" :> "storage ANONYMOUS" @@ "RSA" :> "storage RSA"
              @@ "ECDSA" :> "storage ECDSA"
storageHashAlg == "storage NONE" :> "NONE" @@ "storage SHA256" :> "SHA256"
storageSigAlg  == "storage ANONYMOUS" :> "ANONYMOUS" @@ "storage RSA" :> "RSA"
                  @@ "storage ECDSA" :> "ECDSA"

apiToStorageSig(sig) == [hash |-> apiHashAlg[sig.hash], alg |-> apiSigAlg[sig.alg]]
storageToAPISig(sig) == [hash |-> storageHashAlg[sig.hash], alg |-> storageSigAlg[sig.alg]]

-------------------------------------------------------------------------------
\* treeStorage.latestSTH: the head with the greatest timestamp.
Heads(db) == {r \in db.TreeHeads : r.TreeID = LogID}
NoHead == [TreeRevision |-> -1]
latestSTH(db) ==
    IF Heads(db) = {} THEN NoHead
    ELSE CHOOSE r \in Heads(db) : \A o \in Heads(db) : o.TimestampNanos <= r.TimestampNanos

\* Mutant: the first revision of a log that has no root is 1.
writeRevFromOne(db) == IF latestSTH(db) = NoHead THEN 1 ELSE latestSTH(db).TreeRevision + 1

\* treeTX.writeRev; StoreSignedLogRoot takes ErrTreeNeedsInit for revision 0.
writeRev(db) == latestSTH(db).TreeRevision + 1

\* What LatestSignedLogRoot returns once there is a root.
LatestSignedLogRoot(db) ==
    LET h == latestSTH(db)
    IN [TimestampNanos |-> h.TimestampNanos, RootHash |-> h.RootHash, TreeSize |-> h.TreeSize,
        TreeRevision |-> h.TreeRevision, Signature |-> storageToAPISig(h.RootSignature)]

\* StoreSignedLogRoot, at the transaction's revision.
StoreSignedLogRoot(db, ts, hashes) ==
    <<Insert("TreeHeads",
        [TreeID |-> LogID, TimestampNanos |-> ts, TreeSize |-> Len(hashes), RootHash |-> hashes,
         RootSignature |-> apiToStorageSig([hash |-> "SHA256", alg |-> Signature]),
         TreeRevision |-> writeRev(db)])>>

-------------------------------------------------------------------------------
Chunk(i) == i \div ChunkSize     \* the subtree of the leaf with index i

\* treeTX.getSubtree: the subtree at the newest revision that is not above rev.
getSubtree(db, chunk, rev) ==
    LET rows == {r \in db.SubtreeData : r.TreeID = LogID /\ r.SubtreeID = chunk /\ r.Revision <= rev}
    IN IF rows = {} THEN << >>
       ELSE (CHOOSE r \in rows : \A o \in rows : o.Revision <= r.Revision).Subtree

\* GetMerkleNodes for a tree of the given size: the leaf hashes below its nodes.
NodesAt(db, size, rev) ==
    LET all == FoldLeft(LAMBDA acc, c : acc \o getSubtree(db, c, rev), << >>,
                        [i \in 1..((size + ChunkSize - 1) \div ChunkSize) |-> i - 1])
    IN SubSeq(all, 1, IF Len(all) < size THEN Len(all) ELSE size)

\* SetMerkleNodes and flushSubtrees, after leaves from index from on were added: every
\* subtree that changed is stored at the transaction's revision.
storeSubtrees(db, hashes, from) ==
    LET chunks == [i \in 1..(Chunk(Len(hashes) - 1) - Chunk(from) + 1) |-> Chunk(from) + i - 1]
    IN [i \in 1..Len(chunks) |->
            Insert("SubtreeData",
                [TreeID |-> LogID, SubtreeID |-> chunks[i], Revision |-> writeRev(db),
                 Subtree |-> SubSeq(hashes, chunks[i] * ChunkSize + 1,
                     IF (chunks[i] + 1) * ChunkSize < Len(hashes)
                     THEN (chunks[i] + 1) * ChunkSize ELSE Len(hashes))])]

-------------------------------------------------------------------------------
\* The queue.  A bucket is a place on the time ring and the first byte of the hash.
Config(db) == toTrillianTree(getTreeInfo(db, LogID)).storage_settings
QueueBucket(config, second, merkle) ==
    (second % config.NumUnseqBuckets) * NumByteValues + FirstByte(merkle)

\* The two rows of a leaf, which are inserted together.
QueueMutations(config, second, qTS, leaf) ==
    <<Insert("LeafData", [TreeID |-> LogID, LeafIdentityHash |-> leaf.id,
                          QueueTimestampNanos |-> qTS]),
      Insert("Unsequenced",
             [TreeID |-> LogID, Bucket |-> QueueBucket(config, second, leaf.merkle),
              QueueTimestampNanos |-> qTS, MerkleLeafHash |-> leaf.merkle,
              LeafIdentityHash |-> leaf.id])>>

\* The place on the ring that is read at a time: opposite to where leaves are queued.
TimeBucket(config, second) ==
    ((second + config.NumUnseqBuckets \div 2) % config.NumUnseqBuckets) * NumByteValues

\* genDequeueBucketsSingleSplit: the buckets of one Merkle bucket.
genDequeueBucketsSingleSplit(config, second, first) ==
    {TimeBucket(config, second) + (i % NumByteValues) :
        i \in first..(first + NumByteValues \div config.NumMerkleBuckets - 1)}

\* genDequeueRowsAcrossBuckets: one or two closed ranges of buckets, read in this order.
genDequeueRowsAcrossBuckets(config, second, first, fraction) ==
    LET limit == first + (NumByteValues * fraction.num) \div fraction.den
        high  == TimeBucket(config, second)
    IN IF limit <= NumByteValues - 1 THEN <<(high + first)..(high + limit)>>
       ELSE <<(high + first)..(high + NumByteValues - 1),
              high..(high + (limit % NumByteValues))>>

NoFraction == [num |-> 0, den |-> 1]  \* the option DequeueAcrossMerkleBuckets is off
KeySets(config, opts, second, first) ==
    IF opts = NoFraction THEN <<genDequeueBucketsSingleSplit(config, second, first)>>
    ELSE genDequeueRowsAcrossBuckets(config, second, first, opts)

\* Rows of the queue in the order of the primary key.
KeyBefore(r, s) ==
    \/ r.Bucket < s.Bucket
    \/ r.Bucket = s.Bucket /\ r.QueueTimestampNanos < s.QueueTimestampNanos
    \/ /\ r.Bucket = s.Bucket /\ r.QueueTimestampNanos = s.QueueTimestampNanos
       /\ r.MerkleLeafHash < s.MerkleLeafHash
QueuedIn(db, buckets) ==
    SetToSortSeq({r \in db.Unsequenced : r.TreeID = LogID /\ r.Bucket \in buckets}, KeyBefore)

\* Mutant: a row that the second range meets again is dequeued again.
DequeueLeavesTwice(db, keysets, limit) ==
    LET rows == FoldLeft(LAMBDA acc, ks : acc \o QueuedIn(db, ks), << >>, keysets)
    IN SubSeq(rows, 1, IF Len(rows) < limit THEN Len(rows) ELSE limit)

\* DequeueLeaves: up to limit rows, each once although the ranges may overlap.
DequeueLeaves(db, keysets, limit) ==
    LET take(acc, row) ==
            IF Len(acc) >= limit \/ row \in Range(acc) THEN acc ELSE Append(acc, row)
    IN FoldLeft(LAMBDA acc, ks : FoldLeft(take, acc, QueuedIn(db, ks)), << >>, keysets)

\* Mutant: the key names another place on the ring than the one that was read.
QueueKeyOff(row) ==
    [TreeID |-> LogID, Bucket |-> FirstByte(row.MerkleLeafHash),
     QueueTimestampNanos |-> row.QueueTimestampNanos, MerkleLeafHash |-> row.MerkleLeafHash]

\* The key of a dequeued row, which the transaction remembers (QueuedEntry).
QueueKey(row) ==
    [TreeID |-> LogID, Bucket |-> row.Bucket,
     QueueTimestampNanos |-> row.QueueTimestampNanos, MerkleLeafHash |-> row.MerkleLeafHash]

\* UpdateSequencedLeaves: leaves take the numbers from the tree size on, and leave the queue
\* by the key under which they were dequeued.  iTimestamp is the sequencer's clock.
UpdateSequencedLeaves(db, rows, iTimestamp) ==
    LET size == latestSTH(db).TreeSize
    IN FlattenSeq([i \in 1..Len(rows) |->
        <<Insert("SequencedLeafData",
              [TreeID |-> LogID, SequenceNumber |-> size + i - 1,
               LeafIdentityHash |-> rows[i].LeafIdentityHash,
               MerkleLeafHash |-> rows[i].MerkleLeafHash,
               IntegrateTimestampNanos |-> iTimestamp]),
          Delete("Unsequenced", QueueKey(rows[i]))>>])

-------------------------------------------------------------------------------
\* Reads of leaves.  The joins of SequencedLeafData and LeafData.
Joined(db) ==
    {[index |-> s.SequenceNumber, id |-> s.LeafIdentityHash, merkle |-> s.MerkleLeafHash,
      queued |-> l.QueueTimestampNanos, integrated |-> s.IntegrateTimestampNanos] :
        <<s, l>> \in {p \in db.SequencedLeafData \X db.LeafData :
            p[1].TreeID = LogID /\ p[2].TreeID = LogID
            /\ p[1].LeafIdentityHash = p[2].LeafIdentityHash}}

LeafAt(leaves, i) == CHOOSE l \in leaves : l.index = i
Found(leaves)     == {l.index : l \in leaves}

\* GetSequencedLeafCount.
GetSequencedLeafCount(db) == latestSTH(db).TreeSize

validateIndices(indices, size) ==
    LET bad == SelectSeq(indices, LAMBDA i : i < 0 \/ i > size - 1)
    IN IF bad = << >> THEN "OK" ELSE IF bad[1] < 0 THEN "InvalidArgument" ELSE "OutOfRange"

GetLeavesByIndex(db, indices) ==
    LET err    == validateIndices(indices, latestSTH(db).TreeSize)
        leaves == {l \in Joined(db) : l.index \in Range(indices)}
    IN IF err # "OK" THEN Fail(err)
       ELSE IF Cardinality(Found(leaves)) # Len(indices) THEN Fail("inconsistency")
       ELSE Body(<< >>, [k \in 1..Len(indices) |-> LeafAt(leaves, indices[k])])

validateRange(start, count, size) ==
    IF count <= 0 \/ start < 0 THEN "InvalidArgument"
    ELSE IF start >= size THEN "OutOfRange" ELSE "OK"

\* Mutant: a range that passes the end of the tree is not cut there.
RangeUncut(start, count, size) == count

RangeCount(start, count, size) == IF start + count > size THEN size - start ELSE count

GetLeavesByRange(db, start, count) ==
    LET size   == latestSTH(db).TreeSize
        err    == validateRange(start, count, size)
        n      == RangeCount(start, count, size)
        leaves == {l \in Joined(db) : l.index \in start..(start + n - 1)}
    IN IF err # "OK" THEN Fail(err)
       ELSE IF Found(leaves) # start..(start + n - 1) THEN Fail("inconsistency")
       ELSE Body(<< >>, [k \in 1..n |-> LeafAt(leaves, start + k - 1)])

\* A field of an answer that is left empty.
Unset == -1

\* populateLeafData adds what LeafData knows of a leaf, if there is such a row.
populateLeafData(db, leaf) ==
    IF \E l \in db.LeafData : l.TreeID = LogID /\ l.LeafIdentityHash = leaf.id
    THEN [leaf EXCEPT !.queued =
             (CHOOSE l \in db.LeafData : l.TreeID = LogID /\ l.LeafIdentityHash = leaf.id)
                 .QueueTimestampNanos]
    ELSE leaf

\* GetLeavesByHash, through getUsingIndex: what the index holds of a row, to which
\* populateLeafData adds the rest.  Nobody fills in when the leaf was integrated.  An unknown
\* hash is ignored.
GetLeavesByHash(db, hashes) ==
    {populateLeafData(db,
        [index |-> s.SequenceNumber, id |-> s.LeafIdentityHash, merkle |-> s.MerkleLeafHash,
         queued |-> Unset, integrated |-> Unset]) :
        s \in {r \in db.SequencedLeafData : r.TreeID = LogID /\ r.MerkleLeafHash \in hashes}}

\* GetUnsequencedCounts, for this log.
UnsequencedCount(db) == Cardinality({r \in db.Unsequenced : r.TreeID = LogID})
================================================================================
