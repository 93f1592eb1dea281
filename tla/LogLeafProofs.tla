----------------------------- MODULE LogLeafProofs ----------------------------
(***************************************************************************)
(* Proofs about what TrillianLog keeps in its tables: no leaf is lost or   *)
(* sequenced twice, and every root is backed by its rows and nodes; and of *)
(* what it promises to its clients: the published root only advances, the  *)
(* log implements the append-only log, and no circle of handlers waits for *)
(* rows that the others have inserted.                                     *)
(***************************************************************************)
EXTENDS TrillianLogProofs, FiniteSetTheorems

-------------------------------------------------------------------------------
\* Steps of one client that leave the tables alone.

\* Such a step has to establish only what LeafInv says of that client, and the
\* accounting of the quota.
LEMMA LocalStep ==
    ASSUME StorageType, LeafInv, NEW c \in Client, db' = db,
           tx' \in [Client -> Transaction],
           \A d \in Client \ {c} : tx'[d] = tx[d] /\ pc'[d] = pc[d],
           \A s \in Signer \ {c} : batch'[s] = batch[s],
           PendingInv(c)', QuotaInv',
           c \in Signer => SignerWrites(c)',
           c \in Frontend => FrontendWrites(c)'
    PROVE  LeafInv'
<1>1. ASSUME NEW d \in Client \ {c} PROVE PendingInv(d)'
  <2>1. PendingInv(d) /\ tx'[d] = tx[d]
    BY DEF LeafInv
  <2>2. PendingStamp(d)'
    BY <2>1 DEF PendingInv, PendingStamp
  <2>3. PendingLeaves(d)'
    BY <2>1 DEF PendingInv, PendingLeaves
  <2>4. PendingDeletes(d)'
    BY <2>1 DEF PendingInv, PendingDeletes
  <2>5. BatchWhole(tx'[d])
    BY <2>1 DEF PendingInv
  <2> QED BY <2>2, <2>3, <2>4, <2>5 DEF PendingInv
<1>2. ASSUME NEW s \in Signer \ {c} PROVE SignerWrites(s)'
  <2>1. SignerWrites(s) /\ tx'[s] = tx[s] /\ pc'[s] = pc[s] /\ batch'[s] = batch[s]
    BY SequencerAssumption DEF LeafInv
  <2>2. Rows(batch'[s]) = Rows(batch[s])
    BY <2>1
  <2>3. NewSequenced(s)' = NewSequenced(s) /\ NewNodes(s)' = NewNodes(s)
    BY <2>1 DEF NewSequenced, NewNodes, LeafIndex
  <2> QED BY <2>1, <2>2, <2>3 DEF SignerWrites
<1>3. ASSUME NEW f \in Frontend \ {c} PROVE FrontendWrites(f)'
  <2>1. FrontendWrites(f) /\ tx'[f] = tx[f] /\ pc'[f] = pc[f]
    BY LogRPCServerAssumption DEF LeafInv
  <2> QED BY <2>1 DEF FrontendWrites
<1>4. TablesInv'
  BY DEF LeafInv, TablesInv, StampsUnique, RowsKept, NodesKept, QueueExact,
         SequencedLeaves, QueuedLeaves
<1> QED BY <1>1, <1>2, <1>3, <1>4 DEF LeafInv

\* The quota is not touched by a step of a client that neither has tokens to put back
\* nor gets some.
LEMMA QuotaSame ==
    ASSUME QuotaInv, NEW c \in Client,
           db'.SequencedLeafData = db.SequencedLeafData, replenished' = replenished,
           pc[c] # "replenish", pc'[c] # "replenish",
           \A d \in Client \ {c} : pc'[d] = pc[d],
           \A s \in Signer \ {c} : batch'[s] = batch[s]
    PROVE  QuotaInv'
<1>1. Replenishing' = Replenishing /\ c \notin Replenishing
  BY SequencerAssumption DEF Replenishing
<1>2. ASSUME NEW s \in Replenishing PROVE BatchLeaves(s)' = BatchLeaves(s)
  <2>1. batch'[s] = batch[s]
    BY <1>1 DEF Replenishing
  <2> QED BY <2>1 DEF BatchLeaves
<1>3. SequencedLeaves' = SequencedLeaves
  BY DEF SequencedLeaves
<1>4. PICK done \in SUBSET db.SequencedLeafData :
          /\ PaidFor(Cardinality(done))
          /\ \A s \in Replenishing : \A r \in done : r.leaf \notin BatchLeaves(s)
  BY DEF QuotaInv
<1>5. \E new \in SUBSET db'.SequencedLeafData :
          /\ PaidFor(Cardinality(new))'
          /\ \A s \in Replenishing' : \A r \in new : r.leaf \notin BatchLeaves(s)'
  BY <1>1, <1>2, <1>4 DEF PaidFor
<1>6. \A s \in Replenishing' :
        /\ BatchLeaves(s)' \subseteq SequencedLeaves'
        /\ \A d \in Replenishing' \ {s} : BatchLeaves(s)' \cap BatchLeaves(d)' = {}
  BY <1>1, <1>2, <1>3 DEF QuotaInv
<1> QED BY <1>5, <1>6 DEF QuotaInv

\* A transaction that has written nothing: none at all, or one that has just begun.
LEMMA EmptyWrites ==
    ASSUME NEW c \in Client, tx'[c].deleted = {}, tx'[c].leaves = {}, tx'[c].queued = {},
           tx'[c].sequenced = {}, tx'[c].heads = {}, tx'[c].nodes = {}
    PROVE  /\ PendingInv(c)'
           /\ pc'[c] \in {"idle", "fetch"} => SignerWrites(c)'
           /\ pc'[c] \in {"idle", "init", "leaked"} => FrontendWrites(c)'
           /\ pc'[c] = "insert" /\ tx'[c].root # NoRoot => FrontendWrites(c)'
BY DEF PendingInv, PendingStamp, PendingLeaves, PendingDeletes, BatchWhole, SignerWrites,
       FrontendWrites

\* A transaction ends without a trace.
LEMMA RollbackLeaves ==
    ASSUME RInv, LeafInv, NEW c \in Client, Rollback(c), Goto(c, "idle"),
           tx[c].open, replenished' = replenished,
           \A s \in Signer \ {c} : batch'[s] = batch[s]
    PROVE  LeafInv'
<1>1. /\ StorageType /\ pc \in [Client -> Labels] /\ pc[c] # "replenish"
      /\ tx' \in [Client -> Transaction]
  BY RInvParts, RollbackType DEF TypeOK, StorageType
<1>2. /\ db' = db /\ tx'[c] = NoTransaction /\ pc'[c] = "idle"
      /\ \A d \in Client \ {c} : tx'[d] = tx[d] /\ pc'[d] = pc[d]
  BY <1>1 DEF Rollback, Goto, StorageType
<1>3. QuotaInv'
  BY <1>1, <1>2, QuotaSame DEF LeafInv
<1>4. /\ tx'[c].deleted = {} /\ tx'[c].leaves = {} /\ tx'[c].queued = {}
      /\ tx'[c].sequenced = {} /\ tx'[c].heads = {} /\ tx'[c].nodes = {}
  BY <1>2 DEF NoTransaction
<1>5. PendingInv(c)' /\ SignerWrites(c)' /\ FrontendWrites(c)'
  BY <1>2, <1>4, EmptyWrites
<1> QED BY <1>1, <1>2, <1>3, <1>5, LocalStep

\* A transaction begins.
LEMMA BeginLeaves ==
    ASSUME RInv, LeafInv, NEW c \in Client, BeginTx(c), NEW label, Goto(c, label),
           pc[c] = "idle", replenished' = replenished,
           \A s \in Signer \ {c} : batch'[s] = batch[s],
           c \in Signer => label = "fetch",
           c \in Frontend => \/ label \in {"init", "leaked"}
                             \/ label = "insert" /\ LatestRoot(db) # NoRoot,
           label # "replenish"
    PROVE  LeafInv'
<1>1. StorageType /\ pc \in [Client -> Labels] /\ tx' \in [Client -> Transaction]
  BY RInvParts, BeginTxType DEF TypeOK, StorageType
<1>2. /\ db' = db /\ pc'[c] = label
      /\ \A d \in Client \ {c} : tx'[d] = tx[d] /\ pc'[d] = pc[d]
  BY <1>1 DEF BeginTx, Goto, StorageType
<1>3. /\ tx'[c].deleted = {} /\ tx'[c].leaves = {} /\ tx'[c].queued = {}
      /\ tx'[c].sequenced = {} /\ tx'[c].heads = {} /\ tx'[c].nodes = {}
      /\ tx'[c].root = LatestRoot(db)
  BY <1>1 DEF BeginTx, StorageType, NoTransaction
<1>4. QuotaInv'
  BY <1>1, <1>2, QuotaSame DEF LeafInv
<1>5. /\ PendingInv(c)'
      /\ c \in Signer => SignerWrites(c)'
      /\ c \in Frontend => FrontendWrites(c)'
  BY <1>2, <1>3, EmptyWrites
<1> QED BY <1>1, <1>2, <1>4, <1>5, LocalStep

-------------------------------------------------------------------------------
\* The writes of a signer.

\* The leaves of a batch are different: their rows are, and the queue holds a leaf
\* once.
LEMMA BatchDistinct ==
    ASSUME RInv, LeafInv, NEW s \in Signer, NEW b \in Selected(s), DeleteOK(Rows(b)),
           NEW i \in 1 .. Len(b), NEW j \in 1 .. Len(b), b[i].leaf = b[j].leaf
    PROVE  i = j
<1>1. b \in Seq(QueuedRow)
  BY RInvParts, SelectedType
<1>2. b[i] \in Rows(b) /\ b[j] \in Rows(b)
  BY DEF Rows
<1>3. b[i] = b[j]
  BY <1>2 DEF DeleteOK, LeafInv, TablesInv, QueueExact
<1>4. \A k, l \in 1 .. Len(b) : k < l => QueuedBefore(b[k], b[l])
  BY DEF Selected, FirstRows
<1>5. b[i] \in QueuedRow /\ b[j] \in QueuedRow
  BY <1>1, ElementOfSeq
<1>6. ~QueuedBefore(b[i], b[j]) /\ ~QueuedBefore(b[j], b[i])
  <2>1. b[i].leaf \in Int /\ b[i].ts \in Int
    BY <1>5, LeafAssumption DEF QueuedRow
  <2>2. ~QueuedBefore(b[i], b[i])
    BY <2>1 DEF QueuedBefore
  <2> QED BY <1>3, <2>2
<1>7. i \in Int /\ j \in Int
  BY <1>1
<1> QED BY <1>4, <1>6, <1>7

LEMMA FetchLeaves ==
    ASSUME RInv, LeafInv, NEW s \in Signer, Fetch(s)
    PROVE  LeafInv'
<1>1. /\ s \in Client /\ s \notin Frontend /\ StorageType /\ RestType /\ TypeOK
      /\ pc \in [Client -> Labels] /\ tx[s] \in Transaction /\ pc[s] = "fetch"
      /\ tx[s].open
  BY SequencerAssumption, ActorsAssumption, RInvParts DEF TypeOK, StorageType, Fetch
<1>2. PICK b \in Selected(s) :
          /\ DeleteWaitsFor(s, Rows(b)) = {} /\ DeleteOK(Rows(b))
          /\ DeleteQueued(s, Rows(b)) /\ batch' = [batch EXCEPT ![s] = b]
  BY DEF Fetch
<1>3. b \in Seq(QueuedRow) /\ Rows(b) \in SUBSET QueuedRow
  BY <1>1, SelectedType
<1>4. /\ tx' \in [Client -> Transaction] /\ batch'[s] = b /\ pc'[s] = "update" /\ db' = db
      /\ \A d \in Client \ {s} : tx'[d] = tx[d] /\ pc'[d] = pc[d]
      /\ \A d \in Signer \ {s} : batch'[d] = batch[d]
      /\ replenished' = replenished
  BY <1>1, <1>2, <1>3, DeleteQueuedType DEF DeleteQueued, StorageType, Goto, Fetch, RestType
<1>5. SignerWrites(s) /\ PendingInv(s) /\ QuotaInv
  BY <1>1 DEF LeafInv
<1>6. /\ tx'[s].deleted = Rows(b)
      /\ tx'[s].leaves = {} /\ tx'[s].queued = {} /\ tx'[s].sequenced = {}
      /\ tx'[s].heads = {} /\ tx'[s].nodes = {}
  BY <1>1, <1>2, <1>5 DEF DeleteQueued, SignerWrites, StorageType, Transaction, RInv, StepInv
<1>7. ASSUME NEW d \in Client \ {s}, NEW r \in Rows(b) PROVE r \notin tx[d].deleted
  <2>1. CASE tx[d].open
    BY <1>2, <2>1 DEF DeleteWaitsFor, Others
  <2>2. CASE ~tx[d].open
    <3>1. pc[d] \in {"idle", "replenish"}
      BY <1>1, <2>2 DEF TypeOK
    <3>2. tx[d].deleted = {}
      BY <3>1, ActorsAssumption DEF LeafInv, SignerWrites, FrontendWrites
    <3> QED BY <3>2
  <2> QED BY <2>1, <2>2
<1>8. PendingInv(s)'
  BY <1>2, <1>4, <1>6, <1>7
  DEF PendingInv, PendingStamp, PendingLeaves, PendingDeletes, BatchWhole, DeleteOK
<1>9. \A i, j \in 1 .. Len(b) : b[i].leaf = b[j].leaf => i = j
  BY <1>2, BatchDistinct
<1>10. SignerWrites(s)'
  BY <1>4, <1>6, <1>9 DEF SignerWrites
<1>11. QuotaInv'
  BY <1>1, <1>4, <1>5, QuotaSame
<1> QED BY <1>1, <1>4, <1>8, <1>10, <1>11, LocalStep

LEMMA UpdateLeaves ==
    ASSUME RInv, LeafInv, NEW s \in Signer, Update(s)
    PROVE  LeafInv'
<1>1. /\ s \in Client /\ s \notin Frontend /\ StorageType /\ RestType
      /\ pc \in [Client -> Labels] /\ tx[s] \in Transaction /\ pc[s] = "update"
      /\ tx[s].root # NoRoot
  BY SequencerAssumption, ActorsAssumption, RInvParts
  DEF TypeOK, StorageType, Update, RInv, StepInv
<1>2. tx' \in [Client -> Transaction]
  BY <1>1, NewRowsType, InsertSequencedType DEF Update, StorageType
<1>3. /\ pc'[s] = "store" /\ db' = db /\ batch' = batch /\ replenished' = replenished
      /\ \A d \in Client \ {s} : tx'[d] = tx[d] /\ pc'[d] = pc[d]
  BY <1>1 DEF InsertSequenced, StorageType, Goto, Update, signerVars
<1>4. SignerWrites(s) /\ PendingInv(s) /\ QuotaInv
  BY <1>1 DEF LeafInv
<1>5. /\ tx'[s].sequenced = NewSequenced(s) /\ tx'[s].nodes = NewNodes(s)
      /\ tx'[s].deleted = tx[s].deleted /\ tx'[s].leaves = {} /\ tx'[s].queued = {}
      /\ tx'[s].heads = {} /\ tx'[s].root = tx[s].root
      /\ tx'[s].writeRevision = tx[s].writeRevision
  BY <1>1, <1>4
  DEF Update, InsertSequenced, SignerWrites, StorageType, Transaction, RInv, StepInv
<1>6. NewSequenced(s)' = NewSequenced(s) /\ NewNodes(s)' = NewNodes(s)
  BY <1>3, <1>5 DEF NewSequenced, NewNodes, LeafIndex
<1>7. PendingInv(s)'
  BY <1>3, <1>4, <1>5
  DEF PendingInv, PendingStamp, PendingLeaves, PendingDeletes, BatchWhole
<1>8. SignerWrites(s)'
  BY <1>1, <1>3, <1>4, <1>5, <1>6 DEF SignerWrites
<1>9. QuotaInv'
  BY <1>1, <1>3, <1>4, QuotaSame
<1> QED BY <1>1, <1>2, <1>3, <1>7, <1>8, <1>9, LocalStep

\* A new root has a timestamp of its own: the primary key keeps it apart from the
\* stored roots, and the row locks from those about to be.
LEMMA StampApart ==
    ASSUME RInv, NEW c \in Client, NEW head, HeadOK(head), HeadWaitsFor(c, head) = {}
    PROVE  /\ \A g \in db.TreeHead : g.ts # head.ts
           /\ \A d \in Client \ {c} : \A g \in tx[d].heads : g.ts # head.ts
BY RInvParts DEF HeadOK, HeadWaitsFor, HeadClash, Others

\* Counting from m instead of from 0.
LEMMA Shift ==
    ASSUME NEW m \in Nat, NEW n \in Nat
    PROVE  /\ \A i \in 1 .. n : m + i \in (m + 1) .. (m + n)
           /\ \A k \in (m + 1) .. (m + n) : k - m \in 1 .. n /\ m + (k - m) = k
OBVIOUS

\* A batch, seen from the root that integrates it.
LEMMA BatchOfNewRoot ==
    ASSUME RInv, NEW s \in Signer, pc[s] = "store", SignerWrites(s)
    PROVE  LET h == NewRoot(s)
               new == tx[s].root.size + 1 .. h.size
           IN  /\ NewSequenced(s) = {[seq |-> k - 1, leaf |-> h.hash[k]] : k \in new}
               /\ NewNodes(s) =
                      {[index |-> k - 1, rev |-> h.rev, leaf |-> h.hash[k]] : k \in new}
               /\ {r.leaf : r \in Rows(batch[s])} = {h.hash[k] : k \in new}
               /\ \A k, l \in new : h.hash[k] = h.hash[l] => k = l
<1> DEFINE h == NewRoot(s)
           n == Len(batch[s])
           m == tx[s].root.size
           new == m + 1 .. h.size
<1>1. /\ batch[s] \in Seq(QueuedRow) /\ tx[s].root # NoRoot /\ s \in Client
      /\ tx[s] \in Transaction
  BY SequencerAssumption, RInvParts DEF RInv, StepInv, RestType, StorageType
<1>2. n \in Nat /\ m \in Nat
  BY <1>1 DEF Transaction, HeadRow
<1>3. \A i \in 1 .. n : h.hash[m + i] = batch[s][i].leaf
  BY NewRootFollows
<1>4. h.size = m + n /\ h.rev = tx[s].writeRevision
  BY DEF NewRoot
<1>5. NewSequenced(s) = {[seq |-> m + i - 1, leaf |-> batch[s][i].leaf] : i \in 1 .. n}
  BY DEF NewSequenced, LeafIndex
<1>6. NewNodes(s) = {[index |-> m + i - 1, rev |-> h.rev, leaf |-> batch[s][i].leaf] :
                         i \in 1 .. n}
  BY <1>4 DEF NewNodes, LeafIndex
<1>7. {r.leaf : r \in Rows(batch[s])} = {batch[s][i].leaf : i \in 1 .. n}
  BY DEF Rows
<1>8. new = (m + 1) .. (m + n)
  BY <1>4
<1>9. \A i, j \in 1 .. n : batch[s][i].leaf = batch[s][j].leaf => i = j
  BY DEF SignerWrites
<1> HIDE DEF n, m, h, new
<1>10. /\ \A i \in 1 .. n : m + i \in new
       /\ \A k \in new : k - m \in 1 .. n /\ m + (k - m) = k
  BY <1>2, <1>8, Shift
<1>15. new \in SUBSET Int
  BY <1>2, <1>8
<1>11. NewSequenced(s) = {[seq |-> k - 1, leaf |-> h.hash[k]] : k \in new}
  <2>1. ASSUME NEW i \in 1 .. n
        PROVE  [seq |-> m + i - 1, leaf |-> batch[s][i].leaf]
                   \in {[seq |-> k - 1, leaf |-> h.hash[k]] : k \in new}
    <3>1. m + i \in new /\ batch[s][i].leaf = h.hash[m + i]
      BY <1>3, <1>10
    <3> QED BY <1>2, <3>1, <1>15
  <2>2. ASSUME NEW k \in new
        PROVE  [seq |-> k - 1, leaf |-> h.hash[k]] \in NewSequenced(s)
    <3>1. h.hash[k] = batch[s][k - m].leaf /\ k - m \in 1 .. n /\ m + (k - m) = k
      BY <1>3, <1>10
    <3>2. [seq |-> m + (k - m) - 1, leaf |-> batch[s][k - m].leaf] \in NewSequenced(s)
      BY <1>5, <3>1, Zenon
    <3> QED BY <1>2, <3>1, <3>2, <1>15
  <2> QED BY <1>5, <2>1, <2>2
<1>12. NewNodes(s) = {[index |-> k - 1, rev |-> h.rev, leaf |-> h.hash[k]] : k \in new}
  <2>1. ASSUME NEW i \in 1 .. n
        PROVE  [index |-> m + i - 1, rev |-> h.rev, leaf |-> batch[s][i].leaf]
                   \in {[index |-> k - 1, rev |-> h.rev, leaf |-> h.hash[k]] : k \in new}
    <3>1. m + i \in new /\ batch[s][i].leaf = h.hash[m + i]
      BY <1>3, <1>10
    <3> QED BY <1>2, <3>1, <1>15
  <2>2. ASSUME NEW k \in new
        PROVE  [index |-> k - 1, rev |-> h.rev, leaf |-> h.hash[k]] \in NewNodes(s)
    <3>1. h.hash[k] = batch[s][k - m].leaf /\ k - m \in 1 .. n /\ m + (k - m) = k
      BY <1>3, <1>10
    <3>2. [index |-> m + (k - m) - 1, rev |-> h.rev, leaf |-> batch[s][k - m].leaf]
              \in NewNodes(s)
      BY <1>6, <3>1, Zenon
    <3> QED BY <1>2, <3>1, <3>2, <1>15
  <2> QED BY <1>6, <2>1, <2>2
<1>13. {r.leaf : r \in Rows(batch[s])} = {h.hash[k] : k \in new}
  BY <1>3, <1>7, <1>10
<1>14. ASSUME NEW k \in new, NEW l \in new, h.hash[k] = h.hash[l] PROVE k = l
  <2>1. batch[s][k - m].leaf = batch[s][l - m].leaf
    BY <1>3, <1>10, <1>14
  <2>2. k - m = l - m
    BY <1>9, <1>10, <2>1
  <2> QED BY <2>2, <1>10
<1> QED BY <1>11, <1>12, <1>13, <1>14 DEF h, m, new

LEMMA StoreRootLeaves ==
    ASSUME RInv, LeafInv, NEW s \in Signer, StoreRoot(s)
    PROVE  LeafInv'
<1>1. /\ s \in Client /\ s \notin Frontend /\ StorageType
      /\ pc \in [Client -> Labels] /\ tx[s] \in Transaction /\ pc[s] = "store"
      /\ tx[s].heads = {}
  BY SequencerAssumption, ActorsAssumption, RInvParts
  DEF TypeOK, StorageType, StoreRoot, RInv, StepInv
<1>2. tx' \in [Client -> Transaction]
  BY <1>1, NewRootFollows, StoreSignedLogRootType DEF StoreRoot, StorageType
<1>3. /\ pc'[s] = "commit" /\ db' = db /\ batch' = batch /\ replenished' = replenished
      /\ \A d \in Client \ {s} : tx'[d] = tx[d] /\ pc'[d] = pc[d]
  BY <1>1 DEF StoreSignedLogRoot, StorageType, Goto, StoreRoot, signerVars
<1>4. SignerWrites(s) /\ PendingInv(s) /\ QuotaInv
  BY <1>1 DEF LeafInv
<1>5. /\ tx'[s].sequenced = NewSequenced(s) /\ tx'[s].nodes = NewNodes(s)
      /\ tx'[s].deleted = Rows(batch[s]) /\ tx'[s].leaves = {} /\ tx'[s].queued = {}
      /\ tx'[s].heads = {NewRoot(s)} /\ tx'[s].root = tx[s].root
      /\ tx[s].deleted = Rows(batch[s])
  BY <1>1, <1>4 DEF StoreRoot, StoreSignedLogRoot, SignerWrites, StorageType, Transaction
<1>6. BatchWhole(tx'[s])
  <2> DEFINE h == NewRoot(s)
             new == tx[s].root.size + 1 .. h.size
  <2>1. /\ NewSequenced(s) = {[seq |-> k - 1, leaf |-> h.hash[k]] : k \in new}
        /\ NewNodes(s) = {[index |-> k - 1, rev |-> h.rev, leaf |-> h.hash[k]] : k \in new}
        /\ {r.leaf : r \in Rows(batch[s])} = {h.hash[k] : k \in new}
        /\ \A k, l \in new : h.hash[k] = h.hash[l] => k = l
    BY <1>1, <1>4, BatchOfNewRoot, Zenon
  <2>2. /\ tx'[s].heads = {h} /\ tx'[s].root.size + 1 .. h.size = new
    BY <1>5
  <2> HIDE DEF h, new
  <2>3. Adds(tx'[s], h, new)
    BY <1>5, <2>1 DEF Adds
  <2> QED BY <2>2, <2>3 DEF BatchWhole
<1>7. PendingStamp(s)'
  BY <1>1, <1>3, <1>5, StampApart DEF PendingStamp, StoreRoot
<1>8. PendingInv(s)'
  BY <1>3, <1>4, <1>5, <1>6, <1>7 DEF PendingInv, PendingLeaves, PendingDeletes
<1>9. SignerWrites(s)'
  BY <1>1, <1>3, <1>4, <1>5 DEF SignerWrites
<1>10. QuotaInv'
  BY <1>1, <1>3, <1>4, QuotaSame
<1> QED BY <1>1, <1>2, <1>3, <1>8, <1>9, <1>10, LocalStep

-------------------------------------------------------------------------------
\* The writes of a server.

LEMMA InitStoreLeaves ==
    ASSUME RInv, LeafInv, NEW f \in Frontend, InitStore(f), UNCHANGED signerVars
    PROVE  LeafInv'
<1>1. /\ f \in Client /\ f \notin Signer /\ StorageType
      /\ pc \in [Client -> Labels] /\ tx[f] \in Transaction /\ pc[f] = "init"
      /\ tx[f].heads = {} /\ tx[f].root = NoRoot
  BY FrontendParts DEF TypeOK, StorageType, InitStore, RInv, StepInv
<1>2. FirstRoot(f) \in HeadRow
  BY FrontendParts, RuntimeAssumption, EmptySeq DEF FirstRoot, HeadRow, Now, RestType
<1>3. tx' \in [Client -> Transaction]
  BY <1>1, <1>2, StoreSignedLogRootType DEF InitStore, StorageType
<1>4. /\ pc'[f] = "initcommit" /\ db' = db /\ batch' = batch /\ replenished' = replenished
      /\ \A d \in Client \ {f} : tx'[d] = tx[d] /\ pc'[d] = pc[d]
  BY <1>1 DEF StoreSignedLogRoot, StorageType, Goto, InitStore, signerVars
<1>5. FrontendWrites(f) /\ PendingInv(f) /\ QuotaInv
  BY <1>1 DEF LeafInv
<1>6. /\ tx'[f].sequenced = {} /\ tx'[f].nodes = {} /\ tx'[f].deleted = {}
      /\ tx'[f].leaves = {} /\ tx'[f].queued = tx[f].queued
      /\ tx'[f].heads = {FirstRoot(f)} /\ tx'[f].root = NoRoot
      /\ tx[f].leaves = {}
  BY <1>1, <1>5 DEF InitStore, StoreSignedLogRoot, FrontendWrites, StorageType, Transaction
<1>7. FirstRoot(f).size = 0 /\ NoRoot.size = 0
  BY DEF FirstRoot, NoRoot
<1>8. BatchWhole(tx'[f])
  <2>1. tx'[f].root.size + 1 .. FirstRoot(f).size = {}
    BY <1>6, <1>7
  <2>2. Adds(tx'[f], FirstRoot(f), {})
    BY <1>6 DEF Adds
  <2> QED BY <1>6, <2>1, <2>2 DEF BatchWhole
<1>9. PendingStamp(f)'
  BY <1>1, <1>4, <1>6, StampApart DEF PendingStamp, InitStore
<1>10. PendingInv(f)'
  BY <1>4, <1>5, <1>6, <1>8, <1>9 DEF PendingInv, PendingLeaves, PendingDeletes
<1>11. FrontendWrites(f)'
  BY <1>4, <1>6, <1>7 DEF FrontendWrites
<1>12. QuotaInv'
  BY <1>1, <1>4, <1>5, QuotaSame
<1> QED BY <1>1, <1>3, <1>4, <1>10, <1>11, <1>12, LocalStep

\* A step of QueueLeaves that leaves the storage alone.
LEMMA FrontendIdles ==
    ASSUME RInv, LeafInv, NEW f \in Frontend, UNCHANGED storageVars, UNCHANGED signerVars,
           pc[f] = "insert", pc'[f] \in {"insert", "ack", "leaked"},
           \A d \in Client \ {f} : pc'[d] = pc[d]
    PROVE  LeafInv'
<1>1. /\ f \in Client /\ f \notin Signer /\ StorageType /\ db' = db /\ tx' = tx
      /\ batch' = batch /\ replenished' = replenished
      /\ tx' \in [Client -> Transaction]
  BY FrontendParts DEF storageVars, signerVars, StorageType
<1>2. FrontendWrites(f) /\ PendingInv(f) /\ QuotaInv
  BY <1>1 DEF LeafInv
<1>3. PendingInv(f)'
  BY <1>1, <1>2 DEF PendingInv, PendingStamp, PendingLeaves, PendingDeletes
<1>4. FrontendWrites(f)'
  BY <1>1, <1>2 DEF FrontendWrites
<1>5. QuotaInv'
  BY <1>1, <1>2, QuotaSame
<1> QED BY <1>1, <1>3, <1>4, <1>5, LocalStep

LEMMA InsertLeaves ==
    ASSUME RInv, LeafInv, NEW f \in Frontend, NEW leaf \in Leaf, NEW ts \in Int,
           pc[f] = "insert", UNCHANGED pc, UNCHANGED signerVars,
           LeafWaitsFor(f, leaf) = {}, ~LeafExists(f, leaf), InsertLeaf(f, leaf, ts)
    PROVE  LeafInv'
<1> DEFINE row == [leaf |-> leaf, ts |-> ts]
           t == [tx[f] EXCEPT !.leaves = @ \cup {leaf}, !.queued = @ \cup {row}]
<1>1. /\ f \in Client /\ f \notin Signer /\ StorageType /\ TypeOK /\ tx[f] \in Transaction
      /\ batch' = batch /\ replenished' = replenished /\ tx[f].heads = {} /\ pc' = pc
  BY FrontendParts DEF signerVars, RInv, StepInv
<1>2. tx' = [tx EXCEPT ![f] = t] /\ db' = db
  BY DEF InsertLeaf
<1>3. /\ t.leaves = tx[f].leaves \cup {leaf} /\ t.queued = tx[f].queued \cup {row}
      /\ t.heads = {} /\ t.deleted = tx[f].deleted /\ t.sequenced = tx[f].sequenced
      /\ t.nodes = tx[f].nodes /\ t.root = tx[f].root /\ row.leaf = leaf
  BY <1>1 DEF Transaction
<1>4. tx' \in [Client -> Transaction]
  BY <1>1, InsertLeafType DEF StorageType
<1> HIDE DEF t, row
<1>5. tx'[f] = t /\ \A d \in Client \ {f} : tx'[d] = tx[d]
  BY <1>1, <1>2 DEF StorageType
<1>6. FrontendWrites(f) /\ PendingInv(f) /\ QuotaInv
  BY <1>1 DEF LeafInv
<1>7. ASSUME NEW d \in Client \ {f} PROVE leaf \notin tx[d].leaves
  <2>1. CASE tx[d].open
    BY <2>1 DEF LeafWaitsFor, Others
  <2>2. CASE ~tx[d].open
    <3>1. pc[d] \in {"idle", "replenish"}
      BY <1>1, <2>2 DEF TypeOK
    <3>2. CASE d \in Signer
      BY <3>2 DEF LeafInv, SignerWrites
    <3>3. CASE d \in Frontend
      BY <3>1, <3>3 DEF LeafInv, FrontendWrites
    <3> QED BY <3>2, <3>3, ActorsAssumption
  <2> QED BY <2>1, <2>2
<1>8. leaf \notin db.LeafData /\ leaf \notin tx[f].leaves
  BY DEF LeafExists
<1>9. PendingLeaves(f)'
  <2>1. PendingLeaves(f)
    BY <1>6 DEF PendingInv
  <2> QED BY <1>2, <1>3, <1>5, <1>7, <1>8, <2>1 DEF PendingLeaves
<1>10. PendingInv(f)'
  BY <1>2, <1>3, <1>5, <1>6, <1>9
  DEF PendingInv, PendingStamp, PendingDeletes, BatchWhole
<1>11. FrontendWrites(f)'
  BY <1>1, <1>3, <1>5, <1>6 DEF FrontendWrites
<1>12. QuotaInv'
  BY <1>1, <1>2, <1>6, QuotaSame
<1> QED BY <1>1, <1>2, <1>4, <1>5, <1>10, <1>11, <1>12, LocalStep

-------------------------------------------------------------------------------
\* Commits.

\* What a commit does to the tables.
LEMMA CommitTables ==
    ASSUME StorageType, NEW c \in Client, Commit(c)
    PROVE  /\ db'.LeafData = db.LeafData \cup tx[c].leaves
           /\ db'.Unsequenced = (db.Unsequenced \ tx[c].deleted) \cup tx[c].queued
           /\ db'.SequencedLeafData = db.SequencedLeafData \cup tx[c].sequenced
           /\ db'.Subtree = db.Subtree \cup tx[c].nodes
           /\ db'.TreeHead = db.TreeHead \cup tx[c].heads
           /\ tx'[c] = NoTransaction
           /\ \A d \in Client \ {c} : tx'[d] = tx[d]
BY DEF Commit, StorageType

\* What is pending elsewhere is not disturbed by a commit.
LEMMA CommitOthers ==
    ASSUME RInv, LeafInv, NEW c \in Client, Commit(c),
           NEW label \in {"idle", "replenish"}, Goto(c, label),
           label = "replenish" => pc[c] = "commit" /\ c \in Signer /\ batch'[c] = batch[c],
           \A s \in Signer \ {c} : batch'[s] = batch[s]
    PROVE  /\ \A d \in Client : PendingInv(d)'
           /\ \A s \in Signer : SignerWrites(s)'
           /\ \A f \in Frontend : FrontendWrites(f)'
<1>1. StorageType /\ pc \in [Client -> Labels]
  BY RInvParts DEF TypeOK
<1>2. /\ db'.LeafData = db.LeafData \cup tx[c].leaves
      /\ db'.Unsequenced = (db.Unsequenced \ tx[c].deleted) \cup tx[c].queued
      /\ db'.TreeHead = db.TreeHead \cup tx[c].heads
      /\ tx'[c] = NoTransaction
      /\ \A d \in Client \ {c} : tx'[d] = tx[d]
  BY <1>1, CommitTables
<1>3. pc'[c] = label /\ \A d \in Client \ {c} : pc'[d] = pc[d]
  BY <1>1 DEF Goto
<1>4. /\ tx'[c].deleted = {} /\ tx'[c].leaves = {} /\ tx'[c].queued = {}
      /\ tx'[c].sequenced = {} /\ tx'[c].heads = {} /\ tx'[c].nodes = {}
  BY <1>2 DEF NoTransaction
<1>5. PendingInv(c)'
  BY <1>4, EmptyWrites
<1>6. ASSUME NEW d \in Client \ {c} PROVE PendingInv(d)'
  <2>1. PendingInv(d) /\ tx'[d] = tx[d]
    BY <1>2 DEF LeafInv
  <2>2. PendingStamp(d)'
    BY <1>2, <1>4, <2>1 DEF PendingInv, PendingStamp
  <2>3. PendingLeaves(d)'
    BY <1>2, <1>4, <2>1 DEF PendingInv, PendingLeaves
  <2>4. PendingDeletes(d)'
    BY <1>2, <1>4, <2>1 DEF PendingInv, PendingDeletes
  <2>5. BatchWhole(tx'[d])
    BY <2>1 DEF PendingInv
  <2> QED BY <2>2, <2>3, <2>4, <2>5 DEF PendingInv
<1>7. ASSUME NEW s \in Signer PROVE SignerWrites(s)'
  <2>1. CASE s # c
    <3>1. SignerWrites(s) /\ tx'[s] = tx[s] /\ pc'[s] = pc[s] /\ batch'[s] = batch[s]
      BY <1>2, <1>3, <2>1, SequencerAssumption DEF LeafInv
    <3>2. NewSequenced(s)' = NewSequenced(s) /\ NewNodes(s)' = NewNodes(s)
      BY <3>1 DEF NewSequenced, NewNodes, LeafIndex
    <3> QED BY <3>1, <3>2 DEF SignerWrites
  <2>2. CASE s = c /\ label = "idle"
    BY <1>3, <1>4, <2>2, EmptyWrites
  <2>3. CASE s = c /\ label = "replenish"
    <3>1. \A i, j \in 1 .. Len(batch[c]) : batch[c][i].leaf = batch[c][j].leaf => i = j
      BY <2>3 DEF LeafInv, SignerWrites
    <3> QED BY <1>3, <1>4, <2>3, <3>1 DEF SignerWrites
  <2> QED BY <2>1, <2>2, <2>3
<1>8. ASSUME NEW f \in Frontend PROVE FrontendWrites(f)'
  <2>1. CASE f # c
    <3>1. FrontendWrites(f) /\ tx'[f] = tx[f] /\ pc'[f] = pc[f]
      BY <1>2, <1>3, <2>1, LogRPCServerAssumption DEF LeafInv
    <3> QED BY <3>1 DEF FrontendWrites
  <2>2. CASE f = c
    <3>1. label = "idle"
      BY <2>2, ActorsAssumption
    <3> QED BY <1>3, <1>4, <2>2, <3>1, EmptyWrites
  <2> QED BY <2>1, <2>2
<1> QED BY <1>5, <1>6, <1>7, <1>8

\* A commit without a root puts new leaves into LeafData and into the queue.
LEMMA CommitAccepts ==
    ASSUME StorageType, LeafInv, NEW c \in Client, Commit(c), tx[c].heads = {},
           tx[c].sequenced = {}, tx[c].nodes = {}, tx[c].deleted = {}
    PROVE  TablesInv'
<1>1. /\ db'.LeafData = db.LeafData \cup tx[c].leaves
      /\ db'.Unsequenced = db.Unsequenced \cup tx[c].queued
      /\ db'.SequencedLeafData = db.SequencedLeafData
      /\ db'.Subtree = db.Subtree
      /\ db'.TreeHead = db.TreeHead
  BY CommitTables
<1>2. StampsUnique' /\ RowsKept' /\ NodesKept'
  BY <1>1 DEF LeafInv, TablesInv, StampsUnique, RowsKept, NodesKept
<1>3. PendingLeaves(c) /\ QueueExact
  BY DEF LeafInv, PendingInv, TablesInv
<1>4. SequencedLeaves' = SequencedLeaves
  BY <1>1 DEF SequencedLeaves
<1>5. \A r, q \in db'.Unsequenced : r.leaf = q.leaf => r = q
  BY <1>1, <1>3 DEF PendingLeaves, QueueExact
<1>6. \A r \in db'.Unsequenced : r.leaf \in db'.LeafData /\ r.leaf \notin SequencedLeaves'
  BY <1>1, <1>3, <1>4 DEF PendingLeaves, QueueExact
<1>7. ASSUME NEW leaf \in db'.LeafData PROVE leaf \in QueuedLeaves' \cup SequencedLeaves'
  <2>1. CASE leaf \in db.LeafData
    BY <1>1, <1>3, <1>4, <2>1 DEF QueueExact, QueuedLeaves
  <2>2. CASE leaf \in tx[c].leaves
    BY <1>1, <1>3, <2>2 DEF PendingLeaves, QueuedLeaves
  <2> QED BY <1>1, <2>1, <2>2
<1>8. SequencedLeaves' \subseteq db'.LeafData
  BY <1>1, <1>3, <1>4 DEF QueueExact
<1> QED BY <1>2, <1>5, <1>6, <1>7, <1>8 DEF TablesInv, QueueExact

\* A commit with a root takes the batch out of the queue and into the tree.
LEMMA CommitGrows ==
    ASSUME RInv, LeafInv, NEW c \in Client, Commit(c), NEW h \in tx[c].heads,
           tx[c].leaves = {}
    PROVE  TablesInv'
<1> DEFINE root == tx[c].root
           new == root.size + 1 .. h.size
<1>1. StorageType /\ RootsInv
  BY RInvParts
<1>2. /\ db.TreeHead \subseteq HeadRow /\ h \in HeadRow /\ root \in HeadRow \cup {NoRoot}
      /\ db.SequencedLeafData \subseteq SequencedRow /\ db.Subtree \subseteq NodeRow
  BY <1>1 DEF StorageType, Transaction, Tables
<1>3. /\ tx[c].heads = {h} /\ tx[c].queued = {}
      /\ Adds(tx[c], h, new)
      /\ PendingStamp(c) /\ PendingDeletes(c)
  BY <1>1 DEF RootsInv, PendingRoots, LeafInv, PendingInv, PendingLeaves, BatchWhole
<1>4. /\ root.size \in Nat /\ h.size \in Nat /\ root.size <= h.size
      /\ h.rev = root.rev + 1 /\ root.rev \in Int
      /\ \A i \in 1 .. root.size : h.hash[i] = root.hash[i]
      /\ root \in db.TreeHead \cup {NoRoot}
  BY <1>1, <1>2 DEF HeadRow, NoRoot, RootsInv, PendingRoots, Follows, ReadRootsKept
<1>5. ASSUME NEW g \in db.TreeHead PROVE g.size <= root.size /\ g.size \in Nat
  BY <1>1, <1>2, PendingExtends DEF HeadRow
<1>6. /\ db'.LeafData = db.LeafData
      /\ db'.Unsequenced = db.Unsequenced \ tx[c].deleted
      /\ db'.SequencedLeafData = db.SequencedLeafData \cup tx[c].sequenced
      /\ db'.Subtree = db.Subtree \cup tx[c].nodes
      /\ db'.TreeHead = db.TreeHead \cup {h}
  BY <1>1, <1>3, CommitTables
<1>7. StampsUnique'
  BY <1>3, <1>6 DEF StampsUnique, PendingStamp, LeafInv, TablesInv
<1> HIDE DEF root
<1>8. ASSUME NEW i \in 1 .. h.size, i \notin new PROVE root \in db.TreeHead /\ i \in 1 .. root.size
  <2>1. i \in 1 .. root.size
    BY <1>4, <1>8
  <2>2. root # NoRoot
    BY <2>1 DEF NoRoot
  <2> QED BY <1>4, <2>1, <2>2
<1>9. ASSUME NEW i \in new
      PROVE  /\ i \in 1 .. h.size
             /\ [seq |-> i - 1, leaf |-> h.hash[i]] \in tx[c].sequenced
             /\ [index |-> i - 1, rev |-> h.rev, leaf |-> h.hash[i]] \in tx[c].nodes
             /\ \E q \in tx[c].deleted : q.leaf = h.hash[i]
  <2>1. i \in 1 .. h.size
    BY <1>4
  <2>2. h.hash[i] \in {r.leaf : r \in tx[c].deleted}
    BY <1>3 DEF Adds
  <2> QED BY <1>3, <2>1, <2>2, Zenon DEF Adds
<1>10. ASSUME NEW r \in tx[c].sequenced
       PROVE  \E i \in new : r = [seq |-> i - 1, leaf |-> h.hash[i]]
  BY <1>3, Zenon DEF Adds
<1>11. ASSUME NEW n \in tx[c].nodes
       PROVE  \E i \in new : n = [index |-> i - 1, rev |-> h.rev, leaf |-> h.hash[i]]
  BY <1>3, Zenon DEF Adds
<1>12. ASSUME NEW q \in tx[c].deleted
       PROVE  q \in db.Unsequenced /\ \E i \in new : h.hash[i] = q.leaf
  <2>1. q.leaf \in {h.hash[i] : i \in new}
    BY <1>3 DEF Adds
  <2> QED BY <1>3, <2>1 DEF PendingDeletes
<1>13. \A i, j \in new : h.hash[i] = h.hash[j] => i = j
  BY <1>3 DEF Adds
<1>14. RowsKept /\ NodesKept /\ QueueExact
  BY DEF LeafInv, TablesInv
<1>15. new \subseteq Nat \ {0} /\ \A i \in new : root.size <= i - 1 /\ i - 1 < h.size
  BY <1>4
<1> HIDE DEF new
\* The leaf that a new row holds was in the queue, hence not in the tree.
<1>16. ASSUME NEW i \in new PROVE h.hash[i] \notin SequencedLeaves /\ h.hash[i] \in db.LeafData
  BY <1>9, <1>12, <1>14 DEF QueueExact
<1>17. RowsKept'
  <2>1. ASSUME NEW g \in db'.TreeHead, NEW i \in 1 .. g.size
        PROVE  [seq |-> i - 1, leaf |-> g.hash[i]] \in db'.SequencedLeafData
    <3>1. CASE g \in db.TreeHead
      BY <1>6, <1>14, <3>1 DEF RowsKept
    <3>2. CASE g = h /\ i \in new
      BY <1>6, <1>9, <3>2
    <3>3. CASE g = h /\ i \notin new
      <4>1. root \in db.TreeHead /\ i \in 1 .. root.size
        BY <1>8, <3>3
      <4>2. h.hash[i] = root.hash[i]
        BY <1>4, <4>1
      <4>3. [seq |-> i - 1, leaf |-> root.hash[i]] \in db.SequencedLeafData
        BY <1>14, <4>1 DEF RowsKept
      <4> QED BY <1>6, <3>3, <4>2, <4>3
    <3> QED BY <1>6, <3>1, <3>2, <3>3
  <2>2. ASSUME NEW r \in db.SequencedLeafData, NEW q \in tx[c].sequenced
        PROVE  r.seq # q.seq /\ r.leaf # q.leaf
    <3>1. PICK i \in new : q = [seq |-> i - 1, leaf |-> h.hash[i]]
      BY <1>10
    <3>2. PICK g \in db.TreeHead : r.seq < g.size
      BY <1>14 DEF RowsKept
    <3>3. r.seq \in Nat /\ q.seq = i - 1 /\ q.leaf = h.hash[i]
      BY <1>2, <3>1 DEF SequencedRow
    <3>4. r.seq < i - 1
      BY <1>4, <1>5, <1>15, <3>2, <3>3
    <3>5. r.leaf \in SequencedLeaves
      BY DEF SequencedLeaves
    <3> QED BY <1>15, <1>16, <3>3, <3>4, <3>5
  <2>3. ASSUME NEW r \in tx[c].sequenced, NEW q \in tx[c].sequenced,
               r.seq = q.seq \/ r.leaf = q.leaf
        PROVE  r = q
    <3>1. PICK i \in new : r = [seq |-> i - 1, leaf |-> h.hash[i]]
      BY <1>10
    <3>2. PICK j \in new : q = [seq |-> j - 1, leaf |-> h.hash[j]]
      BY <1>10
    <3>3. i - 1 = j - 1 \/ h.hash[i] = h.hash[j]
      BY <2>3, <3>1, <3>2
    <3>4. i = j
      BY <1>13, <1>15, <3>3
    <3> QED BY <3>1, <3>2, <3>4
  <2>4. \A r, q \in db'.SequencedLeafData : r.seq = q.seq \/ r.leaf = q.leaf => r = q
    BY <1>6, <1>14, <2>2, <2>3 DEF RowsKept
  <2>5. ASSUME NEW r \in db'.SequencedLeafData
        PROVE  \E g \in db'.TreeHead : r.seq < g.size
    <3>1. CASE r \in db.SequencedLeafData
      BY <1>6, <1>14, <3>1 DEF RowsKept
    <3>2. CASE r \in tx[c].sequenced
      <4>1. PICK i \in new : r = [seq |-> i - 1, leaf |-> h.hash[i]]
        BY <1>10, <3>2
      <4>2. r.seq < h.size
        BY <1>15, <4>1
      <4> QED BY <1>6, <4>2
    <3> QED BY <1>6, <3>1, <3>2
  <2> QED BY <2>1, <2>4, <2>5 DEF RowsKept
<1>18. NodesKept'
  <2>1. ASSUME NEW g \in db'.TreeHead, NEW i \in 1 .. g.size
        PROVE  \E n \in db'.Subtree : n.index = i - 1 /\ n.rev <= g.rev /\ n.leaf = g.hash[i]
    <3>1. CASE g \in db.TreeHead
      BY <1>6, <1>14, <3>1 DEF NodesKept
    <3>2. CASE g = h /\ i \in new
      <4> DEFINE n == [index |-> i - 1, rev |-> h.rev, leaf |-> h.hash[i]]
      <4>1. n \in db'.Subtree
        BY <1>6, <1>9, <3>2
      <4>2. n.index = i - 1 /\ n.rev <= g.rev /\ n.leaf = g.hash[i]
        BY <1>2, <3>2 DEF HeadRow
      <4> QED BY <4>1, <4>2
    <3>3. CASE g = h /\ i \notin new
      <4>1. root \in db.TreeHead /\ i \in 1 .. root.size
        BY <1>8, <3>3
      <4>2. h.hash[i] = root.hash[i]
        BY <1>4, <4>1
      <4>3. PICK n \in db.Subtree : n.index = i - 1 /\ n.rev <= root.rev /\ n.leaf = root.hash[i]
        BY <1>14, <4>1 DEF NodesKept
      <4>4. n.rev <= h.rev
        <5>1. n.rev \in Int
          BY <1>2 DEF NodeRow
        <5> QED BY <1>4, <4>3, <5>1
      <4> QED BY <1>6, <3>3, <4>2, <4>3, <4>4
    <3> QED BY <1>6, <3>1, <3>2, <3>3
  <2>2. ASSUME NEW n \in db.Subtree, NEW m \in tx[c].nodes PROVE n.index # m.index
    <3>1. PICK i \in new : m = [index |-> i - 1, rev |-> h.rev, leaf |-> h.hash[i]]
      BY <1>11
    <3>2. PICK g \in db.TreeHead : n.index < g.size
      BY <1>14 DEF NodesKept
    <3>3. n.index \in Nat /\ m.index = i - 1
      BY <1>2, <3>1 DEF NodeRow
    <3>4. n.index < i - 1
      BY <1>4, <1>5, <1>15, <3>2, <3>3
    <3> QED BY <1>15, <3>3, <3>4
  <2>3. ASSUME NEW n \in tx[c].nodes, NEW m \in tx[c].nodes, n.index = m.index PROVE n = m
    <3>1. PICK i \in new : n = [index |-> i - 1, rev |-> h.rev, leaf |-> h.hash[i]]
      BY <1>11
    <3>2. PICK j \in new : m = [index |-> j - 1, rev |-> h.rev, leaf |-> h.hash[j]]
      BY <1>11
    <3>3. i - 1 = j - 1
      BY <2>3, <3>1, <3>2
    <3>4. i = j
      BY <1>15, <3>3
    <3> QED BY <3>1, <3>2, <3>4
  <2>4. \A n, m \in db'.Subtree : n.index = m.index => n = m
    BY <1>6, <1>14, <2>2, <2>3 DEF NodesKept
  <2>5. ASSUME NEW n \in db'.Subtree PROVE \E g \in db'.TreeHead : n.index < g.size
    <3>1. CASE n \in db.Subtree
      BY <1>6, <1>14, <3>1 DEF NodesKept
    <3>2. CASE n \in tx[c].nodes
      <4>1. PICK i \in new : n = [index |-> i - 1, rev |-> h.rev, leaf |-> h.hash[i]]
        BY <1>11, <3>2
      <4>2. n.index < h.size
        BY <1>15, <4>1
      <4> QED BY <1>6, <4>2
    <3> QED BY <1>6, <3>1, <3>2
  <2> QED BY <2>1, <2>4, <2>5 DEF NodesKept
<1>19. QueueExact'
  <2>1. \A leaf : leaf \in SequencedLeaves' <=>
                      leaf \in SequencedLeaves \/ \E i \in new : leaf = h.hash[i]
    <3>1. ASSUME NEW leaf \in SequencedLeaves'
          PROVE  leaf \in SequencedLeaves \/ \E i \in new : leaf = h.hash[i]
      BY <1>6, <1>10 DEF SequencedLeaves
    <3>2. SequencedLeaves \subseteq SequencedLeaves'
      BY <1>6 DEF SequencedLeaves
    <3>3. ASSUME NEW i \in new PROVE h.hash[i] \in SequencedLeaves'
      <4> DEFINE r == [seq |-> i - 1, leaf |-> h.hash[i]]
      <4>1. r \in db'.SequencedLeafData /\ r.leaf = h.hash[i]
        BY <1>6, <1>9
      <4> QED BY <4>1 DEF SequencedLeaves
    <3> QED BY <3>1, <3>2, <3>3
  <2>2. \A r, q \in db'.Unsequenced : r.leaf = q.leaf => r = q
    BY <1>6, <1>14 DEF QueueExact
  <2>3. ASSUME NEW r \in db'.Unsequenced
        PROVE  r.leaf \in db'.LeafData /\ r.leaf \notin SequencedLeaves'
    <3>1. r \in db.Unsequenced /\ r \notin tx[c].deleted
      BY <1>6
    <3>2. r.leaf \in db.LeafData /\ r.leaf \notin SequencedLeaves
      BY <1>14, <3>1 DEF QueueExact
    <3>3. ASSUME NEW i \in new PROVE r.leaf # h.hash[i]
      <4>1. PICK q \in tx[c].deleted : q.leaf = h.hash[i]
        BY <1>9
      <4>2. q \in db.Unsequenced /\ q # r
        BY <1>12, <3>1
      <4> QED BY <1>14, <3>1, <4>1, <4>2 DEF QueueExact
    <3> QED BY <1>6, <2>1, <3>2, <3>3
  <2>4. ASSUME NEW leaf \in db'.LeafData PROVE leaf \in QueuedLeaves' \cup SequencedLeaves'
    <3>1. CASE leaf \in SequencedLeaves
      BY <2>1, <3>1
    <3>2. CASE leaf \in QueuedLeaves
      <4>1. PICK r \in db.Unsequenced : r.leaf = leaf
        BY <3>2 DEF QueuedLeaves
      <4>2. CASE r \in tx[c].deleted
        BY <1>12, <2>1, <4>1, <4>2
      <4>3. CASE r \notin tx[c].deleted
        BY <1>6, <4>1, <4>3 DEF QueuedLeaves
      <4> QED BY <4>2, <4>3
    <3> QED BY <1>6, <1>14, <3>1, <3>2 DEF QueueExact
  <2>5. SequencedLeaves' \subseteq db'.LeafData
    BY <1>6, <1>14, <1>16, <2>1 DEF QueueExact
  <2> QED BY <2>2, <2>3, <2>4, <2>5 DEF QueueExact
<1> QED BY <1>7, <1>17, <1>18, <1>19 DEF TablesInv

-------------------------------------------------------------------------------
\* The quota.

\* A batch is finite.
LEMMA BatchFinite ==
    ASSUME NEW t, NEW h, NEW a \in Int, NEW b \in Int, Adds(t, h, a .. b)
    PROVE  IsFiniteSet(t.sequenced)
<1> DEFINE row == [i \in a .. b |-> [seq |-> i - 1, leaf |-> h.hash[i]]]
<1>1. t.sequenced = {[seq |-> i - 1, leaf |-> h.hash[i]] : i \in a .. b}
  BY DEF Adds
<1>2. row \in [a .. b -> t.sequenced]
  BY <1>1
<1>3. \A r \in t.sequenced : \E i \in a .. b : row[i] = r
  BY <1>1
<1> HIDE DEF row
<1>4. row \in Surjection(a .. b, t.sequenced)
  BY <1>2, <1>3 DEF Surjection
<1>5. IsFiniteSet(a .. b)
  BY FS_Interval
<1> QED BY <1>4, <1>5, FS_Surjection

\* The commit of a batch makes its tokens due.
LEMMA CommitQuota ==
    ASSUME RInv, LeafInv, NEW c \in Client, Commit(c), NEW h \in tx[c].heads,
           NEW label \in {"idle", "replenish"}, Goto(c, label),
           label = "replenish" => pc[c] = "commit" /\ c \in Signer /\ batch'[c] = batch[c],
           replenished' = replenished,
           \A s \in Signer \ {c} : batch'[s] = batch[s]
    PROVE  QuotaInv'
<1>1. /\ StorageType /\ pc \in [Client -> Labels]
      /\ pc[c] \in {"commit", "initcommit"} /\ QuotaInv /\ QueueExact
      /\ tx[c] \in Transaction
  BY RInvParts DEF TypeOK, RInv, StepInv, LeafInv, TablesInv, StorageType
<1>2. db'.SequencedLeafData = db.SequencedLeafData \cup tx[c].sequenced
  BY <1>1, CommitTables
<1>3. pc'[c] = label /\ \A d \in Client \ {c} : pc'[d] = pc[d]
  BY <1>1 DEF Goto
<1>4. Adds(tx[c], h, tx[c].root.size + 1 .. h.size)
  BY DEF LeafInv, PendingInv, BatchWhole
<1>5. IsFiniteSet(db'.SequencedLeafData)
  <2>1. tx[c].root.size + 1 \in Int /\ h.size \in Int
    BY <1>1 DEF Transaction, HeadRow, NoRoot
  <2>2. IsFiniteSet(tx[c].sequenced)
    BY <1>4, <2>1, BatchFinite
  <2>3. IsFiniteSet(db.SequencedLeafData)
    BY <1>1 DEF QuotaInv
  <2>4. IsFiniteSet(db.SequencedLeafData \cup tx[c].sequenced)
    BY <2>2, <2>3, FS_Union
  <2> QED BY <1>2, <2>4
<1>6. SequencedLeaves \subseteq SequencedLeaves'
  BY <1>2 DEF SequencedLeaves
<1>7. ASSUME NEW s \in Replenishing', s # c
      PROVE  /\ s \in Replenishing /\ BatchLeaves(s)' = BatchLeaves(s)
             /\ BatchLeaves(s) \subseteq SequencedLeaves
  <2>1. s \in Replenishing /\ batch'[s] = batch[s]
    BY <1>3, <1>7, SequencerAssumption DEF Replenishing
  <2>2. BatchLeaves(s)' = BatchLeaves(s)
    BY <2>1 DEF BatchLeaves
  <2> QED BY <1>1, <2>1, <2>2 DEF QuotaInv
<1>8. ASSUME c \in Replenishing'
      PROVE  /\ BatchLeaves(c)' = BatchLeaves(c)
             /\ BatchLeaves(c) \subseteq SequencedLeaves'
             /\ BatchLeaves(c) \cap SequencedLeaves = {}
  <2>1. label = "replenish"
    BY <1>3, <1>8 DEF Replenishing
  <2>2. BatchLeaves(c)' = BatchLeaves(c)
    BY <2>1 DEF BatchLeaves
  <2>3. tx[c].deleted = Rows(batch[c]) /\ PendingDeletes(c)
    BY <2>1 DEF LeafInv, SignerWrites, PendingInv
  <2>4. ASSUME NEW leaf \in BatchLeaves(c)
        PROVE  leaf \in SequencedLeaves' /\ leaf \notin SequencedLeaves
    <3>1. PICK r \in tx[c].deleted : r.leaf = leaf
      BY <2>3 DEF BatchLeaves, Rows
    <3>2. leaf \in {h.hash[i] : i \in tx[c].root.size + 1 .. h.size}
      BY <1>4, <3>1 DEF Adds
    <3>3. PICK i \in tx[c].root.size + 1 .. h.size : leaf = h.hash[i]
      BY <3>2
    <3> DEFINE q == [seq |-> i - 1, leaf |-> h.hash[i]]
    <3>4. q \in tx[c].sequenced
      BY <1>4, Zenon DEF Adds
    <3>5. q.leaf = leaf
      BY <3>3
    <3>6. leaf \in SequencedLeaves'
      BY <1>2, <3>4, <3>5 DEF SequencedLeaves
    <3>7. leaf \notin SequencedLeaves
      BY <1>1, <2>3, <3>1 DEF PendingDeletes, QueueExact
    <3> QED BY <3>6, <3>7
  <2> QED BY <2>2, <2>4
<1>9. ASSUME NEW s \in Replenishing'
      PROVE  /\ BatchLeaves(s)' \subseteq SequencedLeaves'
             /\ \A d \in Replenishing' \ {s} : BatchLeaves(s)' \cap BatchLeaves(d)' = {}
  <2>1. BatchLeaves(s)' \subseteq SequencedLeaves'
    BY <1>6, <1>7, <1>8
  <2>2. ASSUME NEW d \in Replenishing' \ {s} PROVE BatchLeaves(s)' \cap BatchLeaves(d)' = {}
    <3>1. CASE s # c /\ d # c
      BY <1>1, <1>7, <3>1 DEF QuotaInv
    <3>2. CASE s = c /\ d # c
      BY <1>7, <1>8, <3>2
    <3>3. CASE s # c /\ d = c
      BY <1>7, <1>8, <3>3
    <3> QED BY <3>1, <3>2, <3>3
  <2> QED BY <2>1, <2>2
<1>10. PICK done \in SUBSET db.SequencedLeafData :
           /\ PaidFor(Cardinality(done))
           /\ \A s \in Replenishing : \A r \in done : r.leaf \notin BatchLeaves(s)
  BY <1>1 DEF QuotaInv
<1>11. ASSUME NEW s \in Replenishing', NEW r \in done PROVE r.leaf \notin BatchLeaves(s)'
  <2>1. r.leaf \in SequencedLeaves
    BY DEF SequencedLeaves
  <2> QED BY <1>7, <1>8, <1>10, <2>1
<1>12. done \in SUBSET db'.SequencedLeafData /\ PaidFor(Cardinality(done))'
  BY <1>2, <1>10 DEF PaidFor
<1> QED BY <1>5, <1>9, <1>11, <1>12 DEF QuotaInv

\* More leaves pay for more tokens, and the tokens of a batch are paid for by its leaves.
LEMMA TokensGrow ==
    ASSUME NEW t \in Nat, NEW m \in Nat, NEW n \in Nat, m <= n,
           100 * t <= quotaIncreaseFactor * m
    PROVE  100 * t <= quotaIncreaseFactor * n
<1>1. PICK f \in Nat : f = quotaIncreaseFactor
  BY TokensType
<1>2. PICK k \in Nat : n = m + k
  OBVIOUS
<1>3. f * n = f * m + f * k /\ f * k \in Nat /\ f * m \in Nat
  BY <1>2
<1> QED BY <1>1, <1>3

LEMMA TokensAdd ==
    ASSUME NEW t \in Nat, NEW m \in Nat, NEW n \in Nat,
           100 * t <= quotaIncreaseFactor * m
    PROVE  100 * (t + Tokens(n)) <= quotaIncreaseFactor * (m + n)
<1>1. PICK f \in Nat : f = quotaIncreaseFactor
  BY TokensType
<1>2. PICK k \in Nat : k = n * f
  BY <1>1
<1>3. k \div 100 \in Nat /\ 100 * (k \div 100) <= k
  BY <1>2
<1>4. Tokens(n) = k \div 100
  BY <1>1, <1>2 DEF Tokens
<1>5. f * (m + n) = f * m + k /\ f * m \in Nat
  BY <1>1, <1>2
<1> QED BY <1>1, <1>3, <1>4, <1>5

\* As many rows as the batch has leaves hold the leaves of a committed batch.
LEMMA BatchCount ==
    ASSUME RInv, LeafInv, NEW s \in Replenishing
    PROVE  LET mine == {r \in db.SequencedLeafData : r.leaf \in BatchLeaves(s)}
           IN  IsFiniteSet(mine) /\ Cardinality(mine) = Len(batch[s])
<1> DEFINE mine == {r \in db.SequencedLeafData : r.leaf \in BatchLeaves(s)}
           n == Len(batch[s])
           index == [r \in mine |-> CHOOSE i \in 1 .. n : batch[s][i].leaf = r.leaf]
<1>1. /\ s \in Signer /\ n \in Nat /\ SignerWrites(s) /\ pc[s] = "replenish"
      /\ RowsKept /\ QuotaInv
  BY RInvParts DEF Replenishing, RestType, LeafInv, TablesInv
<1>2. \A i, j \in 1 .. n : batch[s][i].leaf = batch[s][j].leaf => i = j
  BY <1>1 DEF SignerWrites
<1>3. ASSUME NEW r \in mine PROVE index[r] \in 1 .. n /\ batch[s][index[r]].leaf = r.leaf
  BY DEF BatchLeaves
<1>4. index \in [mine -> 1 .. n]
  BY <1>3
<1>5. ASSUME NEW r \in mine, NEW q \in mine, index[r] = index[q] PROVE r = q
  <2>1. r \in db.SequencedLeafData /\ q \in db.SequencedLeafData
    OBVIOUS
  <2>2. \A a, b \in db.SequencedLeafData : a.leaf = b.leaf => a = b
    BY <1>1 DEF RowsKept
  <2> HIDE DEF mine, index
  <2>3. r.leaf = q.leaf
    BY <1>3, <1>5
  <2> QED BY <2>1, <2>2, <2>3
<1>6. ASSUME NEW i \in 1 .. n PROVE \E r \in mine : index[r] = i
  <2>1. batch[s][i].leaf \in BatchLeaves(s)
    BY DEF BatchLeaves
  <2>2. batch[s][i].leaf \in SequencedLeaves
    BY <1>1, <2>1 DEF QuotaInv
  <2>3. PICK r \in mine : r.leaf = batch[s][i].leaf
    BY <2>1, <2>2 DEF SequencedLeaves
  <2> QED BY <1>2, <1>3, <2>3
<1> HIDE DEF index
<1>7. index \in Bijection(mine, 1 .. n)
  BY <1>4, <1>5, <1>6 DEF Bijection, Injection, Surjection, IsInjective
<1>8. IsFiniteSet(mine)
  BY <1>1, FS_Subset DEF QuotaInv
<1>9. Cardinality(1 .. n) = Cardinality(mine)
  BY <1>7, <1>8, FS_Bijection DEF ExistsBijection
<1>10. Cardinality(1 .. n) = n
  BY <1>1, FS_Interval
<1> QED BY <1>8, <1>9, <1>10

\* Putting tokens back moves the batch to the leaves that are done with.
LEMMA ReplenishLeaves ==
    ASSUME RInv, LeafInv, NEW s \in Signer, Replenish(s)
    PROVE  LeafInv'
<1> DEFINE mine == {r \in db.SequencedLeafData : r.leaf \in BatchLeaves(s)}
<1>1. /\ s \in Client /\ s \notin Frontend /\ StorageType /\ RestType /\ TypeOK
      /\ pc \in [Client -> Labels] /\ pc[s] = "replenish" /\ db' = db /\ tx' = tx
      /\ s \in Replenishing /\ QuotaInv /\ RowsKept /\ tx' \in [Client -> Transaction]
  BY SequencerAssumption, ActorsAssumption, RInvParts
  DEF TypeOK, StorageType, Replenish, storageVars, Replenishing, LeafInv, TablesInv
<1>2. /\ pc'[s] = "idle" /\ \A d \in Client \ {s} : pc'[d] = pc[d]
      /\ \A d \in Signer \ {s} : batch'[d] = batch[d]
  BY <1>1 DEF Replenish, Goto, DropLocals, RestType
<1>3. Replenishing' = Replenishing \ {s}
  BY <1>2, SequencerAssumption DEF Replenishing
<1>4. ASSUME NEW d \in Replenishing' PROVE d \in Replenishing /\ BatchLeaves(d)' = BatchLeaves(d)
  BY <1>2, <1>3 DEF BatchLeaves, Replenishing
<1>5. SequencedLeaves' = SequencedLeaves
  BY <1>1 DEF SequencedLeaves
<1>6. PICK done \in SUBSET db.SequencedLeafData :
          /\ PaidFor(Cardinality(done))
          /\ \A d \in Replenishing : \A r \in done : r.leaf \notin BatchLeaves(d)
  BY <1>1 DEF QuotaInv
<1>7. \E new \in SUBSET db.SequencedLeafData :
          /\ PaidFor(Cardinality(new))'
          /\ \A d \in Replenishing' : \A r \in new : r.leaf \notin BatchLeaves(d)
  <2>1. CASE replenished' = replenished
    BY <1>4, <1>6, <2>1 DEF PaidFor
  <2>2. CASE replenished' = replenished + Tokens(Len(batch[s]))
    <3>1. IsFiniteSet(mine) /\ Cardinality(mine) = Len(batch[s])
      BY <1>1, BatchCount
    <3>2. IsFiniteSet(done)
      BY <1>1, FS_Subset DEF QuotaInv
    <3>3. done \cap mine = {}
      BY <1>1, <1>6
    <3>4. Cardinality(done \cup mine) = Cardinality(done) + Cardinality(mine) - Cardinality({})
      BY <3>1, <3>2, <3>3, FS_Union
    <3>5. Cardinality(done) \in Nat /\ Cardinality(mine) \in Nat
      BY <3>1, <3>2, FS_CardinalityType
    <3>6. 100 * replenished' <= quotaIncreaseFactor * Cardinality(done \cup mine)
      <4>1. Cardinality(done \cup mine) = Cardinality(done) + Len(batch[s])
        BY <3>1, <3>4, <3>5, FS_EmptySet
      <4>2. replenished \in Nat
        BY <1>1 DEF TypeOK
      <4>3. PICK m \in Nat, n \in Nat : m = Cardinality(done) /\ n = Len(batch[s])
        BY <3>1, <3>5
      <4>4. 100 * replenished <= quotaIncreaseFactor * m
        BY <1>6, <4>3 DEF PaidFor
      <4>5. 100 * (replenished + Tokens(n)) <= quotaIncreaseFactor * (m + n)
        BY <4>2, <4>4, TokensAdd
      <4> QED BY <2>2, <4>1, <4>3, <4>5
    <3>7. ASSUME NEW d \in Replenishing', NEW r \in done \cup mine
          PROVE  r.leaf \notin BatchLeaves(d)
      <4>1. CASE r \in done
        BY <1>4, <1>6, <4>1
      <4>2. CASE r \in mine
        <5>1. BatchLeaves(d) \cap BatchLeaves(s) = {}
          BY <1>1, <1>3, <1>4 DEF QuotaInv
        <5> QED BY <4>2, <5>1
      <4> QED BY <4>1, <4>2
    <3>8. done \cup mine \in SUBSET db.SequencedLeafData
      OBVIOUS
    <3> QED BY <3>6, <3>7, <3>8 DEF PaidFor
  <2> QED BY <2>1, <2>2 DEF Replenish
<1>8. QuotaInv'
  <2>1. IsFiniteSet(db'.SequencedLeafData)
    BY <1>1 DEF QuotaInv
  <2>2. \A d \in Replenishing' :
          /\ BatchLeaves(d)' \subseteq SequencedLeaves'
          /\ \A e \in Replenishing' \ {d} : BatchLeaves(d)' \cap BatchLeaves(e)' = {}
    BY <1>1, <1>4, <1>5 DEF QuotaInv
  <2>3. \E new \in SUBSET db'.SequencedLeafData :
          /\ PaidFor(Cardinality(new))'
          /\ \A d \in Replenishing' : \A r \in new : r.leaf \notin BatchLeaves(d)'
    BY <1>1, <1>4, <1>7
  <2> QED BY <2>1, <2>2, <2>3 DEF QuotaInv
<1>9. PendingInv(s) /\ SignerWrites(s)
  BY <1>1 DEF LeafInv
<1>10. PendingInv(s)'
  BY <1>1, <1>9 DEF PendingInv, PendingStamp, PendingLeaves, PendingDeletes
<1>11. SignerWrites(s)'
  BY <1>1, <1>2, <1>9 DEF SignerWrites
<1> QED BY <1>1, <1>2, <1>8, <1>10, <1>11, LocalStep

-------------------------------------------------------------------------------
\* The commits of the two servers.

\* A commit that carries no root.
LEMMA PlainCommitLeaves ==
    ASSUME RInv, LeafInv, NEW c \in Client, Commit(c), Goto(c, "idle"), tx[c].open,
           tx[c].heads = {}, tx[c].sequenced = {}, tx[c].nodes = {}, tx[c].deleted = {},
           replenished' = replenished, \A s \in Signer \ {c} : batch'[s] = batch[s]
    PROVE  LeafInv'
<1>1. StorageType /\ pc \in [Client -> Labels] /\ pc[c] # "replenish" /\ QuotaInv
  BY RInvParts DEF TypeOK, LeafInv
<1>2. db'.SequencedLeafData = db.SequencedLeafData
  BY <1>1, CommitTables
<1>3. pc'[c] = "idle" /\ \A d \in Client \ {c} : pc'[d] = pc[d]
  BY <1>1 DEF Goto
<1>4. QuotaInv'
  BY <1>1, <1>2, <1>3, QuotaSame
<1>5. TablesInv'
  BY <1>1, CommitAccepts
<1> QED BY <1>4, <1>5, CommitOthers DEF LeafInv

\* A commit that carries a root.
LEMMA RootCommitLeaves ==
    ASSUME RInv, LeafInv, NEW c \in Client, Commit(c), tx[c].heads # {}, tx[c].leaves = {},
           NEW label \in {"idle", "replenish"}, Goto(c, label),
           label = "replenish" => pc[c] = "commit" /\ c \in Signer /\ batch'[c] = batch[c],
           replenished' = replenished, \A s \in Signer \ {c} : batch'[s] = batch[s]
    PROVE  LeafInv'
<1>1. PICK h \in tx[c].heads : TRUE
  OBVIOUS
<1>2. TablesInv'
  BY CommitGrows
<1>3. QuotaInv'
  BY CommitQuota
<1> QED BY <1>2, <1>3, CommitOthers DEF LeafInv

LEMMA SignerLeaves ==
    ASSUME RInv, LeafInv, NEW s \in Signer, SignerAction(s)
    PROVE  LeafInv'
<1>1. /\ s \in Client /\ StorageType /\ RestType /\ TypeOK /\ s \notin Frontend
      /\ SignerWrites(s)
      /\ tx[s].open <=> pc[s] \notin {"idle", "replenish"}
      /\ tx[s].heads # {} => pc[s] = "commit" \/ pc[s] = "initcommit"
  BY SequencerAssumption, ActorsAssumption, RInvParts DEF TypeOK, LeafInv, RInv, StepInv
<1>2. DropLocals(s) => \A d \in Signer \ {s} : batch'[d] = batch[d]
  BY <1>1 DEF DropLocals, RestType
<1>3. CASE BeginPass(s)
  BY <1>1, <1>3, BeginLeaves DEF BeginPass
<1>4. CASE NeedsInit(s)
  BY <1>1, <1>2, <1>4, RollbackLeaves DEF NeedsInit, Return
<1>5. CASE Fetch(s)
  BY <1>5, FetchLeaves
<1>6. CASE NothingToDo(s)
  BY <1>1, <1>2, <1>6, PlainCommitLeaves DEF NothingToDo, SignerWrites
<1>7. CASE Update(s)
  BY <1>7, UpdateLeaves
<1>8. CASE StoreRoot(s)
  BY <1>8, StoreRootLeaves
<1>9. CASE Conflict(s)
  BY <1>1, <1>2, <1>9, RollbackLeaves DEF Conflict, Return, StatementFails
<1>10. CASE CommitPass(s)
  <2>1. tx[s].leaves = {} /\ tx[s].heads # {} /\ pc[s] = "commit" /\ Commit(s)
    BY <1>1, <1>10 DEF SignerWrites, CommitPass
  <2>2. \A d \in Signer \ {s} : batch'[d] = batch[d]
    BY <1>2, <1>10 DEF CommitPass
  <2>3. replenished' = replenished
    BY <1>10 DEF CommitPass
  <2>4. CASE Goto(s, "replenish") /\ batch' = batch
    BY <1>1, <2>1, <2>2, <2>3, <2>4, RootCommitLeaves
  <2>5. CASE Goto(s, "idle")
    BY <1>1, <2>1, <2>2, <2>3, <2>5, RootCommitLeaves
  <2> QED BY <1>10, <2>4, <2>5 DEF CommitPass
<1>11. CASE Replenish(s)
  BY <1>11, ReplenishLeaves
<1>12. CASE SignerFails(s)
  BY <1>1, <1>2, <1>12, RollbackLeaves DEF SignerFails, Fail
<1> QED BY <1>3, <1>4, <1>5, <1>6, <1>7, <1>8, <1>9, <1>10, <1>11, <1>12
       DEF SignerAction, SignerStep

LEMMA FrontendLeaves ==
    ASSUME RInv, LeafInv, NEW f \in Frontend, FrontendAction(f)
    PROVE  LeafInv'
<1>1. /\ f \in Client /\ f \notin Signer /\ StorageType /\ RestType /\ TypeOK
      /\ FrontendWrites(f) /\ pc \in [Client -> Labels]
      /\ tx[f].open <=> pc[f] \notin {"idle", "replenish"}
      /\ tx[f].heads # {} => pc[f] \in {"commit", "initcommit"}
  BY FrontendParts DEF TypeOK, LeafInv, RInv, StepInv
<1>2. batch' = batch /\ replenished' = replenished /\ UNCHANGED signerVars
  BY DEF FrontendAction, signerVars
<1>3. CASE BeginInit(f)
  BY <1>1, <1>2, <1>3, BeginLeaves DEF BeginInit
<1>4. CASE InitStore(f)
  BY <1>2, <1>4, InitStoreLeaves
<1>5. CASE InitRefused(f)
  BY <1>1, <1>2, <1>5, RollbackLeaves DEF InitRefused
<1>6. CASE InitCommit(f)
  <2>1. pc[f] = "initcommit" /\ tx[f].open /\ Commit(f) /\ Goto(f, "idle")
    BY <1>1, <1>6 DEF InitCommit
  <2>2. CASE tx[f].heads = {}
    BY <1>1, <1>2, <2>1, <2>2, PlainCommitLeaves DEF FrontendWrites
  <2>3. CASE tx[f].heads # {}
    BY <1>1, <1>2, <2>1, <2>3, RootCommitLeaves DEF FrontendWrites
  <2> QED BY <2>2, <2>3
<1>7. CASE BeginQueue(f)
  <2>1. CASE LatestRoot(db) = NoRoot
    BY <1>1, <1>2, <1>7, <2>1, BeginLeaves DEF BeginQueue
  <2>2. CASE LatestRoot(db) # NoRoot
    BY <1>1, <1>2, <1>7, <2>2, BeginLeaves DEF BeginQueue
  <2> QED BY <2>1, <2>2
<1>8. CASE InsertNext(f)
  <2>1. /\ pc[f] = "insert" /\ pc' = pc
        /\ next[f] \in 1 .. Len(request[f])
        /\ request[f] \in Seq(Leaf) /\ queueTs[f] \in Int
    BY <1>1, <1>8 DEF InsertNext, runtimeVars, RestType
  <2>2. request[f][next[f]] \in Leaf
    BY <2>1, ElementOfSeq
  <2>3. CASE UNCHANGED storageVars
    BY <1>1, <1>2, <2>1, <2>3, FrontendIdles
  <2>4. CASE ~UNCHANGED storageVars
    BY <1>1, <1>2, <1>8, <2>1, <2>2, <2>4, InsertLeaves DEF InsertNext
  <2> QED BY <2>3, <2>4
<1>9. CASE RetrieveExisting(f)
  <2>1. pc[f] = "insert" /\ pc'[f] \in {"ack", "leaked"} /\ UNCHANGED storageVars
    BY <1>1, <1>9 DEF RetrieveExisting, Goto
  <2>2. \A d \in Client \ {f} : pc'[d] = pc[d]
    BY <1>1, <1>9 DEF RetrieveExisting, Goto
  <2> QED BY <1>1, <1>2, <2>1, <2>2, FrontendIdles
<1>10. CASE CommitQueue(f)
  BY <1>1, <1>2, <1>10, PlainCommitLeaves DEF CommitQueue, FrontendWrites
<1>11. CASE ContextDone(f)
  BY <1>1, <1>2, <1>11, RollbackLeaves DEF ContextDone
<1>12. CASE FrontendFails(f)
  BY <1>1, <1>2, <1>12, RollbackLeaves DEF FrontendFails, Fail
<1> QED BY <1>3, <1>4, <1>5, <1>6, <1>7, <1>8, <1>9, <1>10, <1>11, <1>12
       DEF FrontendAction, FrontendStep

-------------------------------------------------------------------------------
\* The theorems.

LEMMA LeafInitInv == Init => LeafInv
<1> SUFFICES ASSUME Init PROVE LeafInv
  OBVIOUS
<1>1. /\ db = EmptyTables /\ \A c \in Client : tx[c] = NoTransaction /\ pc[c] = "idle"
      /\ replenished = 0
  BY DEF Init, StorageInit, RuntimeInit, SequencerInit
<1>2. TablesInv
  BY <1>1 DEF EmptyTables, TablesInv, StampsUnique, RowsKept, NodesKept, QueueExact,
              SequencedLeaves, QueuedLeaves
<1>3. \A c \in Client : PendingInv(c)
  BY <1>1 DEF NoTransaction, PendingInv, PendingStamp, PendingLeaves, PendingDeletes,
              BatchWhole
<1>4. \A s \in Signer : SignerWrites(s)
  BY <1>1, SequencerAssumption DEF NoTransaction, SignerWrites
<1>5. \A f \in Frontend : FrontendWrites(f)
  BY <1>1, LogRPCServerAssumption DEF NoTransaction, FrontendWrites
<1>6. QuotaInv
  <2>1. db.SequencedLeafData = {} /\ Replenishing = {}
    BY <1>1, SequencerAssumption DEF EmptyTables, Replenishing
  <2>2. PaidFor(0)
    BY <1>1, TokensType DEF PaidFor
  <2> QED BY <1>1, <2>1, <2>2, FS_EmptySet DEF QuotaInv
<1> QED BY <1>2, <1>3, <1>4, <1>5, <1>6 DEF LeafInv

LEMMA LeafNextInv == RInv /\ LeafInv /\ [Next]_vars => LeafInv'
<1> SUFFICES ASSUME RInv, LeafInv, [Next]_vars PROVE LeafInv'
  OBVIOUS
<1>1. CASE \E s \in Signer : SignerAction(s)
  BY <1>1, SignerLeaves
<1>2. CASE \E f \in Frontend : FrontendAction(f)
  BY <1>2, FrontendLeaves
<1>3. CASE UNCHANGED <<db, tx, pc, batch, replenished>>
  <2>1. /\ db' = db /\ tx' = tx /\ pc' = pc /\ batch' = batch /\ replenished' = replenished
    BY <1>3
  <2>2. TablesInv'
    BY <2>1 DEF LeafInv, TablesInv, StampsUnique, RowsKept, NodesKept, QueueExact,
                SequencedLeaves, QueuedLeaves
  <2>3. \A c \in Client : PendingInv(c)'
    BY <2>1 DEF LeafInv, PendingInv, PendingStamp, PendingLeaves, PendingDeletes
  <2>4. ASSUME NEW s \in Signer PROVE SignerWrites(s)'
    <3>1. SignerWrites(s) /\ NewSequenced(s)' = NewSequenced(s) /\ NewNodes(s)' = NewNodes(s)
      BY <2>1 DEF LeafInv, NewSequenced, NewNodes, LeafIndex
    <3> QED BY <2>1, <3>1 DEF SignerWrites
  <2>5. \A f \in Frontend : FrontendWrites(f)'
    BY <2>1 DEF LeafInv, FrontendWrites
  <2>6. QuotaInv'
    <3>1. /\ Replenishing' = Replenishing /\ SequencedLeaves' = SequencedLeaves
          /\ \A s \in Signer : BatchLeaves(s)' = BatchLeaves(s)
      BY <2>1 DEF Replenishing, BatchLeaves, SequencedLeaves
    <3>2. Replenishing \subseteq Signer /\ QuotaInv
      BY DEF Replenishing, LeafInv
    <3> QED BY <2>1, <3>1, <3>2 DEF QuotaInv, PaidFor
  <2> QED BY <2>2, <2>3, <2>4, <2>5, <2>6 DEF LeafInv
<1> QED
  BY <1>1, <1>2, <1>3 DEF Next, Tick, vars, storageVars, runtimeVars, signerVars

\* The account of every leaf, node and token holds in every behaviour of the log.
THEOREM LeafInvariance == Spec => [](RInv /\ LeafInv)
<1>1. Init => LeafInv
  BY LeafInitInv
<1>2. RInv /\ LeafInv /\ [Next]_vars => LeafInv'
  BY LeafNextInv
<1> QED BY <1>1, <1>2, RootsInvariance, PTL DEF Spec

\* Every signed root is backed: the rows that GetLeavesByIndex serves and the nodes
\* that proofs are made of agree with its hash, whatever the signers and servers do
\* and wherever they fail (log/sequencer.go, storage/mysql/log_storage.go).
THEOREM RootsAlwaysBacked == Spec => []RootsBacked
<1>1. ASSUME RInv, LeafInv PROVE RootsBacked
  <2>1. /\ SizesRight /\ RowsKept /\ NodesKept
        /\ db.TreeHead \subseteq HeadRow /\ db.Subtree \subseteq NodeRow
    BY <1>1 DEF RInv, RootsInv, LeafInv, TablesInv, TypeOK, Tables
  <2>2. ASSUME NEW h \in db.TreeHead, NEW i \in 1 .. h.size
        PROVE  \E n \in NodeAt(db, i - 1, h.rev) : n.leaf = h.hash[i]
    <3>1. PICK n \in db.Subtree : n.index = i - 1 /\ n.rev <= h.rev /\ n.leaf = h.hash[i]
      BY <2>1 DEF NodesKept
    <3>2. \A m \in db.Subtree : m.index = i - 1 => m = n
      BY <2>1, <3>1 DEF NodesKept
    <3>3. n \in NodeAt(db, i - 1, h.rev)
      BY <2>1, <3>1, <3>2 DEF NodeAt, NodeRow
    <3> QED BY <3>1, <3>3
  <2> QED BY <2>1, <2>2 DEF RootsBacked, SizesRight, RowsKept, NodesMatch
<1> QED BY <1>1, LeafInvariance, PTL

\* No leaf is lost, queued twice, sequenced twice or given a number that another leaf
\* has, and no more quota is put back than leaves were sequenced (QueueLeaves,
\* DequeueLeaves and UpdateSequencedLeaves of storage/mysql/log_storage.go).
THEOREM LeavesNeverLostOrRepeated == Spec => []NoLeafLostOrRepeated
<1>1. ASSUME RInv, LeafInv PROVE NoLeafLostOrRepeated
  <2>1. RowsKept /\ QueueExact /\ QuotaInv
    BY <1>1 DEF LeafInv, TablesInv
  <2>2. QueuedLeaves \cap SequencedLeaves = {}
    BY <2>1 DEF QueueExact, QueuedLeaves
  <2>3. QueuedLeaves \cup SequencedLeaves = db.LeafData
    BY <2>1 DEF QueueExact, QueuedLeaves
  <2>4. PaidFor(Cardinality(db.SequencedLeafData))
    <3>1. PICK done \in SUBSET db.SequencedLeafData : PaidFor(Cardinality(done))
      BY <2>1 DEF QuotaInv
    <3>2. /\ Cardinality(done) <= Cardinality(db.SequencedLeafData)
          /\ Cardinality(done) \in Nat /\ Cardinality(db.SequencedLeafData) \in Nat
      BY <2>1, FS_Subset, FS_CardinalityType DEF QuotaInv
    <3>3. replenished \in Nat
      BY <1>1 DEF RInv, TypeOK
    <3> QED BY <3>1, <3>2, <3>3, TokensGrow DEF PaidFor
  <2> QED BY <2>1, <2>2, <2>3, <2>4 DEF NoLeafLostOrRepeated, RowsKept, QueueExact
<1> QED BY <1>1, LeafInvariance, PTL

-------------------------------------------------------------------------------
\* The steps that change the tables.

\* The tables change only when a transaction commits, at one of four places.
LEMMA StepKinds ==
    ASSUME [Next]_vars
    PROVE  \/ db' = db
           \/ \E s \in Signer : pc[s] \in {"fetch", "commit"} /\ Commit(s)
           \/ \E f \in Frontend : pc[f] \in {"initcommit", "ack"} /\ Commit(f)
<1>1. ASSUME NEW s \in Signer, SignerAction(s)
      PROVE  db' = db \/ (pc[s] \in {"fetch", "commit"} /\ Commit(s))
  BY <1>1 DEF SignerAction, SignerStep, BeginPass, NeedsInit, Fetch, NothingToDo, Update,
       StoreRoot, Conflict, CommitPass, Replenish, SignerFails, Return, Fail, BeginTx,
       Rollback, DeleteQueued, InsertSequenced, StoreSignedLogRoot, storageVars
<1>2. ASSUME NEW f \in Frontend, FrontendAction(f)
      PROVE  db' = db \/ (pc[f] \in {"initcommit", "ack"} /\ Commit(f))
  BY <1>2 DEF FrontendAction, FrontendStep, BeginInit, InitStore, InitRefused, InitCommit,
       BeginQueue, InsertNext, RetrieveExisting, CommitQueue, ContextDone, FrontendFails,
       Fail, BeginTx, Rollback, StoreSignedLogRoot, InsertLeaf, storageVars
<1>3. ASSUME Tick \/ UNCHANGED vars PROVE db' = db
  BY <1>3 DEF Tick, vars, storageVars
<1> QED BY <1>1, <1>2, <1>3 DEF Next

-------------------------------------------------------------------------------
\* The published root.

\* A commit moves the latest root to the committed one or leaves it alone.
LEMMA CommitLatest ==
    ASSUME RInv, LeafInv, NEW c \in Client, Commit(c), NEW h \in tx[c].heads
    PROVE  LatestRoot(db') \in {LatestRoot(db), h}
<1> DEFINE old == db.TreeHead
           all == db'.TreeHead
<1>1. StorageType /\ RootsInv
  BY RInvParts
<1>2. all = old \cup {h} /\ old \subseteq HeadRow /\ h \in HeadRow
  BY <1>1, CommitTables DEF RootsInv, PendingRoots, StorageType, Transaction, Tables
<1>3. \A g, k \in old : g.ts = k.ts => g = k
  BY DEF LeafInv, TablesInv, StampsUnique
<1>4. \A g \in all : g.ts \in Int
  BY <1>2 DEF HeadRow
<1> HIDE DEF old, all
<1>5. ASSUME NEW k \in Latest(all) PROVE k = h \/ Latest(old) = {k}
  <2>1. k \in all /\ \A g \in all : g.ts <= k.ts
    BY DEF Latest
  <2>2. CASE k \in old
    <3>1. k \in Latest(old)
      BY <1>2, <2>1, <2>2 DEF Latest
    <3>2. ASSUME NEW g \in Latest(old) PROVE g = k
      <4>1. g \in old /\ k.ts <= g.ts /\ g.ts <= k.ts
        BY <2>2, <3>1 DEF Latest
      <4>2. g.ts \in Int /\ k.ts \in Int
        BY <1>2, <1>4, <2>1, <4>1
      <4>3. g.ts = k.ts
        BY <4>1, <4>2
      <4> QED BY <1>3, <2>2, <4>1, <4>3
    <3> QED BY <3>1, <3>2
  <2> QED BY <1>2, <2>1, <2>2
<1>6. ASSUME Latest(all) = {} PROVE Latest(old) = {}
  <2>1. SUFFICES ASSUME NEW k \in Latest(old) PROVE FALSE
    OBVIOUS
  <2>2. k \in old /\ \A g \in old : g.ts <= k.ts
    BY DEF Latest
  <2>3. k.ts \in Int /\ h.ts \in Int /\ \A g \in old : g.ts \in Int
    BY <1>2, <1>4, <2>2
  <2>4. CASE h.ts <= k.ts
    BY <1>2, <1>6, <2>2, <2>4 DEF Latest
  <2>5. CASE k.ts <= h.ts
    <3>1. \A g \in old : g.ts <= h.ts
      BY <2>2, <2>3, <2>5
    <3>2. h \in Latest(all)
      BY <1>2, <2>3, <3>1 DEF Latest
    <3> QED BY <1>6, <3>2
  <2> QED BY <2>3, <2>4, <2>5
<1>7. CASE Latest(all) = {}
  BY <1>6, <1>7 DEF LatestRoot, old, all
<1>8. CASE Latest(all) # {}
  <2>1. LatestRoot(db') \in Latest(all)
    BY <1>8 DEF LatestRoot, all
  <2>2. CASE LatestRoot(db') # h
    <3>1. Latest(old) = {LatestRoot(db')}
      BY <1>5, <2>1, <2>2
    <3>2. LatestRoot(db) \in Latest(old)
      BY <3>1 DEF LatestRoot, old
    <3> QED BY <3>1, <3>2
  <2> QED BY <2>2
<1> QED BY <1>7, <1>8

\* The root that GetLatestSignedLogRoot hands out only moves to a root of a later
\* revision whose tree extends the one before, however the clocks of the signers
\* disagree (storage/mysql/log_storage.go, fetchLatestRoot; log/sequencer.go).
THEOREM PublishedRootOnlyAdvances == Spec => PublishedRootAdvances
<1> DEFINE old == LatestRoot(db)
           new == LatestRoot(db')
<1>1. ASSUME RInv, LeafInv, [Next]_vars, old # new
      PROVE  /\ new.rev > old.rev /\ new.size >= old.size
             /\ \A i \in 1 .. old.size : new.hash[i] = old.hash[i]
  <2>1. PICK c \in Client : Commit(c)
    BY <1>1, StepKinds, ActorsAssumption
  <2>2. StorageType /\ RootsInv
    BY <1>1, RInvParts
  <2>3. db'.TreeHead = db.TreeHead \cup tx[c].heads
    BY <2>1, <2>2, CommitTables
  <2>4. PICK h \in tx[c].heads : TRUE
    <3>1. CASE tx[c].heads = {}
      <4>1. db'.TreeHead = db.TreeHead
        BY <2>3, <3>1
      <4>2. new = old
        BY <4>1 DEF LatestRoot
      <4> QED BY <1>1, <4>2
    <3> QED BY <3>1
  <2>5. new = h
    BY <1>1, <2>1, <2>4, CommitLatest
  <2>6. old \in db.TreeHead \cup {NoRoot} /\ h \in HeadRow
    BY <2>2, LatestRootStored DEF StorageType, Transaction
  <2>7. CASE old \in db.TreeHead
    <3>1. /\ old.rev < h.rev /\ old.size <= h.size
          /\ \A i \in 1 .. old.size : old.hash[i] = h.hash[i]
      BY <2>2, <2>7, PendingExtends
    <3>2. old \in HeadRow
      BY <2>2, <2>7 DEF StorageType, Tables
    <3> HIDE DEF old, new
    <3> QED BY <2>5, <2>6, <3>1, <3>2 DEF HeadRow
  <2>8. CASE old = NoRoot
    <3>1. old.rev = -1 /\ old.size = 0
      BY <2>8 DEF NoRoot
    <3> HIDE DEF old, new
    <3> QED BY <2>5, <2>6, <3>1 DEF HeadRow
  <2> QED BY <2>6, <2>7, <2>8
<1>2. RInv /\ LeafInv /\ [Next]_vars =>
          [LET o == LatestRoot(db)
               n == LatestRoot(db)'
           IN  o # n => /\ n.rev > o.rev
                        /\ n.size >= o.size
                        /\ \A i \in 1 .. o.size : n.hash[i] = o.hash[i]]_vars
  BY <1>1
<1> QED BY <1>2, LeafInvariance, PTL DEF Spec, PublishedRootAdvances

-------------------------------------------------------------------------------
\* The refinement.

\* The newest root is the one that a transaction with a root to store has read.
LEMMA NewestIsRead ==
    ASSUME RInv, LeafInv, NEW c \in Client, NEW h \in tx[c].heads
    PROVE  /\ NewestRoot = tx[c].root
           /\ db.TreeHead = {} <=> tx[c].root = NoRoot
<1> DEFINE root == tx[c].root
<1>1. StorageType /\ RootsInv
  BY RInvParts
<1>2. db.TreeHead \subseteq HeadRow /\ root \in db.TreeHead \cup {NoRoot} /\ h \in HeadRow
  BY <1>1 DEF StorageType, Tables, RootsInv, ReadRootsKept, Transaction
<1>3. NoRoot \notin HeadRow
  BY DEF NoRoot, HeadRow
<1>4. CASE db.TreeHead = {}
  BY <1>2, <1>4 DEF NewestRoot, Newest
<1>5. CASE db.TreeHead # {}
  <2>1. root \in db.TreeHead
    BY <1>1, <1>5, PendingExtends
  <2>2. h.rev = root.rev + 1 /\ h.rev \in Nat /\ root.rev \in Nat
    BY <1>1, <1>2, <2>1 DEF RootsInv, PendingRoots, Follows, HeadRow
  <2>3. ASSUME NEW g \in db.TreeHead PROVE g.rev <= root.rev /\ g.rev \in Nat
    <3>1. g.rev < h.rev /\ g.rev \in Nat
      BY <1>1, <1>2, PendingExtends DEF HeadRow
    <3> QED BY <2>2, <3>1
  <2> HIDE DEF root
  <2>4. Newest(db.TreeHead) = {root}
    <3>1. root \in Newest(db.TreeHead)
      BY <2>1, <2>3 DEF Newest
    <3>2. ASSUME NEW g \in Newest(db.TreeHead) PROVE g = root
      <4>1. g \in db.TreeHead /\ root.rev <= g.rev
        BY <2>1 DEF Newest
      <4>2. g.rev = root.rev
        BY <2>2, <2>3, <4>1
      <4> QED BY <1>1, <2>1, <4>1, <4>2 DEF RootsInv, RootsConsistent
    <3> QED BY <3>1, <3>2
  <2>5. NewestRoot = root
    BY <2>4 DEF NewestRoot
  <2> QED BY <1>2, <1>3, <1>5, <2>1, <2>5 DEF root
<1> QED BY <1>4, <1>5

\* Once committed, it is the newest one itself.
LEMMA NewestIsCommitted ==
    ASSUME RInv, LeafInv, NEW c \in Client, Commit(c), NEW h \in tx[c].heads
    PROVE  NewestRoot' = h
<1>1. StorageType /\ RootsInv
  BY RInvParts
<1>2. db'.TreeHead = db.TreeHead \cup {h} /\ h \in HeadRow /\ db.TreeHead \subseteq HeadRow
  BY <1>1, CommitTables DEF RootsInv, PendingRoots, StorageType, Transaction, Tables
<1>3. \A g \in db.TreeHead : g.rev < h.rev /\ g.rev \in Nat /\ h.rev \in Nat
  BY <1>1, <1>2, PendingExtends DEF HeadRow
<1>4. h.rev \in Nat
  BY <1>2 DEF HeadRow
<1>5. Newest(db'.TreeHead) = {h}
  <2>1. h \in Newest(db'.TreeHead)
    BY <1>2, <1>3, <1>4 DEF Newest
  <2>2. ASSUME NEW g \in Newest(db'.TreeHead) PROVE g = h
    BY <1>2, <1>3 DEF Newest
  <2> QED BY <2>1, <2>2
<1> QED BY <1>5 DEF NewestRoot

\* The leaves of the newest root are sequenced.
LEMMA NewestSequenced ==
    ASSUME RInv, LeafInv, NEW i \in 1 .. Len(NewestRoot.hash)
    PROVE  NewestRoot.hash[i] \in SequencedLeaves
<1>1. CASE Newest(db.TreeHead) = {}
  <2>1. NewestRoot.hash = << >>
    BY <1>1 DEF NewestRoot, NoRoot
  <2> QED BY <2>1
<1>2. CASE Newest(db.TreeHead) # {}
  <2>1. NewestRoot \in db.TreeHead
    BY <1>2 DEF NewestRoot, Newest
  <2>2. NewestRoot.size = Len(NewestRoot.hash)
    BY <2>1 DEF RInv, RootsInv, SizesRight
  <2> DEFINE r == [seq |-> i - 1, leaf |-> NewestRoot.hash[i]]
  <2>3. r \in db.SequencedLeafData
    BY <2>1, <2>2 DEF LeafInv, TablesInv, RowsKept
  <2>4. r.leaf = NewestRoot.hash[i]
    OBVIOUS
  <2> QED BY <2>3, <2>4 DEF SequencedLeaves
<1> QED BY <1>1, <1>2

\* The commit of a signer's batch appends it to the log.
LEMMA CommitIntegrates ==
    ASSUME RInv, LeafInv, NEW s \in Signer, pc[s] = "commit", Commit(s)
    PROVE  Abstract!AIntegrate
<1> DEFINE root == tx[s].root
<1>1. s \in Client /\ StorageType /\ RootsInv /\ SignerWrites(s)
  BY SequencerAssumption, RInvParts DEF LeafInv
<1>2. PICK h \in tx[s].heads : TRUE
  BY <1>1 DEF SignerWrites
<1>3. NewestRoot = root /\ NewestRoot' = h
  BY <1>1, <1>2, NewestIsRead, NewestIsCommitted
<1>4. /\ root \in db.TreeHead /\ root \in HeadRow /\ h \in HeadRow
      /\ tx[s].heads = {h} /\ tx[s].queued = {}
  BY <1>1, <1>2 DEF RInv, StepInv, RootsInv, ReadRootsKept, PendingRoots, StorageType, Tables,
                    Transaction, SignerWrites
<1>5. /\ root.size = Len(root.hash) /\ h.size = Len(h.hash) /\ root.size <= h.size
      /\ \A i \in 1 .. root.size : h.hash[i] = root.hash[i]
      /\ root.size \in Nat /\ h.size \in Nat
  BY <1>1, <1>2, <1>4 DEF RootsInv, SizesRight, PendingRoots, Follows, HeadRow
<1>6. Adds(tx[s], h, root.size + 1 .. h.size) /\ PendingDeletes(s) /\ QueueExact
  BY <1>1, <1>2 DEF LeafInv, PendingInv, BatchWhole, TablesInv
<1>7. /\ db'.Unsequenced = db.Unsequenced \ tx[s].deleted
      /\ db'.TreeHead = db.TreeHead \cup {h}
  BY <1>1, <1>4, CommitTables
<1> HIDE DEF root
<1>8. Abstract!Added(root.hash, h.hash) = {r.leaf : r \in tx[s].deleted}
  BY <1>5, <1>6 DEF Abstract!Added, Adds
<1>9. {r.leaf : r \in tx[s].deleted} \subseteq QueuedLeaves
  BY <1>6 DEF PendingDeletes, QueuedLeaves
<1>10. QueuedLeaves' = QueuedLeaves \ {r.leaf : r \in tx[s].deleted}
  <2>1. ASSUME NEW r \in db.Unsequenced, r \notin tx[s].deleted
        PROVE  r.leaf \notin {q.leaf : q \in tx[s].deleted}
    BY <1>6, <2>1 DEF PendingDeletes, QueueExact
  <2> QED BY <1>7, <2>1 DEF QueuedLeaves
<1>11. \A i, j \in Len(root.hash) + 1 .. Len(h.hash) : h.hash[i] = h.hash[j] => i = j
  BY <1>5, <1>6 DEF Adds
<1>12. {g.size : g \in db'.TreeHead} = {g.size : g \in db.TreeHead} \cup {Len(h.hash)}
  BY <1>5, <1>7
<1>13. {g.size : g \in db.TreeHead} # {}
  BY <1>4
<1>14. /\ Len(h.hash) >= Len(root.hash)
       /\ \A i \in 1 .. Len(root.hash) : h.hash[i] = root.hash[i]
  BY <1>5
<1>15. PICK gone : gone = {r.leaf : r \in tx[s].deleted}
  OBVIOUS
<1>16. /\ Abstract!Added(root.hash, h.hash) = gone /\ gone \subseteq QueuedLeaves
       /\ QueuedLeaves' = QueuedLeaves \ gone
  BY <1>8, <1>9, <1>10, <1>15
<1>17. PICK old, new : old = root.hash /\ new = h.hash
  OBVIOUS
<1>18. /\ Len(new) >= Len(old) /\ \A i \in 1 .. Len(old) : new[i] = old[i]
       /\ \A i, j \in Len(old) + 1 .. Len(new) : new[i] = new[j] => i = j
       /\ Abstract!Added(old, new) \subseteq QueuedLeaves
       /\ QueuedLeaves' = QueuedLeaves \ Abstract!Added(old, new)
       /\ {g.size : g \in db'.TreeHead} = {g.size : g \in db.TreeHead} \cup {Len(new)}
  BY <1>11, <1>12, <1>14, <1>16, <1>17
<1>19. NewestRoot.hash = old /\ NewestRoot'.hash = new
  BY <1>3, <1>17
<1> QED
  BY <1>13, <1>18, <1>19, Zenon DEF Abstract!AIntegrate

\* The commit of InitLog creates the log.
LEMMA CommitCreates ==
    ASSUME RInv, LeafInv, NEW f \in Frontend, pc[f] = "initcommit", Commit(f),
           NEW h \in tx[f].heads
    PROVE  Abstract!ACreate
<1>1. f \in Client /\ StorageType /\ RootsInv /\ FrontendWrites(f) /\ PendingLeaves(f)
  BY FrontendParts DEF LeafInv, PendingInv
<1>2. /\ h.size = 0 /\ tx[f].root = NoRoot /\ tx[f].deleted = {} /\ tx[f].queued = {}
      /\ tx[f].heads = {h} /\ h \in HeadRow /\ h.size = Len(h.hash)
  BY <1>1 DEF FrontendWrites, PendingLeaves, RootsInv, PendingRoots, StorageType, Transaction,
              Follows
<1>3. NewestRoot = NoRoot /\ NewestRoot' = h /\ db.TreeHead = {}
  BY <1>1, <1>2, NewestIsRead, NewestIsCommitted
<1>4. NoRoot.hash = << >> /\ h.hash = << >>
  <2>1. h.hash \in Seq(Leaf)
    BY <1>2 DEF HeadRow
  <2> QED BY <1>2, <2>1, EmptySeq DEF NoRoot
<1>5. db'.TreeHead = {h} /\ db'.Unsequenced = db.Unsequenced
  BY <1>1, <1>2, <1>3, CommitTables
<1>6. {g.size : g \in db.TreeHead} = {} /\ {g.size : g \in db'.TreeHead} = {0}
  BY <1>2, <1>3, <1>5
<1>7. QueuedLeaves' = QueuedLeaves
  BY <1>5 DEF QueuedLeaves
<1> QED BY <1>3, <1>4, <1>6, <1>7 DEF Abstract!ACreate

\* The commit of QueueLeaves accepts its new leaves.
LEMMA CommitQueues ==
    ASSUME RInv, LeafInv, NEW f \in Frontend, pc[f] = "ack", Commit(f)
    PROVE  Abstract!AAccept
<1>1. /\ f \in Client /\ StorageType /\ RootsInv /\ FrontendWrites(f) /\ PendingLeaves(f)
      /\ QueueExact /\ tx[f].heads = {} /\ tx[f] \in Transaction
  BY FrontendParts DEF LeafInv, PendingInv, TablesInv, RInv, StepInv
<1>2. tx[f].root \in db.TreeHead /\ tx[f].deleted = {}
  BY <1>1 DEF FrontendWrites, RootsInv, ReadRootsKept
<1>3. db'.TreeHead = db.TreeHead /\ db'.Unsequenced = db.Unsequenced \cup tx[f].queued
  BY <1>1, <1>2, CommitTables
<1>4. NewestRoot' = NewestRoot
  BY <1>3 DEF NewestRoot
<1>5. QueuedLeaves \subseteq QueuedLeaves' /\ QueuedLeaves' \subseteq Leaf
  <2>1. db.Unsequenced \cup tx[f].queued \subseteq QueuedRow
    BY <1>1 DEF StorageType, Tables, Transaction
  <2> QED BY <1>3, <2>1 DEF QueuedLeaves, QueuedRow
<1>6. ASSUME NEW i \in 1 .. Len(NewestRoot.hash)
      PROVE  NewestRoot.hash[i] \notin QueuedLeaves' \ QueuedLeaves
  <2>1. NewestRoot.hash[i] \in db.LeafData
    BY <1>1, NewestSequenced DEF QueueExact
  <2>2. ASSUME NEW leaf \in QueuedLeaves' \ QueuedLeaves PROVE leaf \in tx[f].leaves
    BY <1>1, <1>3 DEF QueuedLeaves, PendingLeaves
  <2> QED BY <1>1, <2>1, <2>2 DEF PendingLeaves
<1>7. {g.size : g \in db.TreeHead} # {} /\ {g.size : g \in db'.TreeHead} = {g.size : g \in db.TreeHead}
  BY <1>2, <1>3
<1> QED BY <1>4, <1>5, <1>6, <1>7 DEF Abstract!AAccept

\* A commit that writes nothing, and every other step, leaves the log as it is.
LEMMA TablesStutter ==
    ASSUME db'.TreeHead = db.TreeHead, db'.Unsequenced = db.Unsequenced
    PROVE  UNCHANGED Abstract!alogVars
<1>1. NewestRoot' = NewestRoot /\ QueuedLeaves' = QueuedLeaves
  BY DEF NewestRoot, QueuedLeaves
<1>2. {g.size : g \in db'.TreeHead} = {g.size : g \in db.TreeHead}
  OBVIOUS
<1> QED BY <1>1, <1>2 DEF Abstract!alogVars

\* The log implements the append-only log: every step of every client, failing or
\* not, appends one whole batch of accepted leaves, accepts leaves that are new,
\* creates the log, or changes nothing (IntegrateBatch, QueueLeaves, InitLog).
THEOREM Refinement == Spec => ImplementsAppendOnlyLog
<1>1. Init => Abstract!AInit
  <2>1. SUFFICES ASSUME Init PROVE Abstract!AInit
    OBVIOUS
  <2>2. db.TreeHead = {} /\ db.Unsequenced = {}
    BY <2>1 DEF Init, StorageInit, EmptyTables
  <2>3. NewestRoot.hash = << >> /\ QueuedLeaves = {}
    BY <2>2 DEF NewestRoot, Newest, NoRoot, QueuedLeaves
  <2> QED BY <2>2, <2>3 DEF Abstract!AInit
<1>2. RInv /\ LeafInv /\ [Next]_vars => [Abstract!ANext]_(Abstract!alogVars)
  <2>1. SUFFICES ASSUME RInv, LeafInv, [Next]_vars
                 PROVE  Abstract!ANext \/ UNCHANGED Abstract!alogVars
    OBVIOUS
  <2>2. CASE db' = db
    BY <2>2, TablesStutter
  <2>3. ASSUME NEW s \in Signer, pc[s] = "commit", Commit(s) PROVE Abstract!ANext
    BY <2>1, <2>3, CommitIntegrates DEF Abstract!ANext
  <2>4. ASSUME NEW s \in Signer, pc[s] = "fetch", Commit(s) PROVE UNCHANGED Abstract!alogVars
    <3>1. s \in Client /\ StorageType /\ SignerWrites(s) /\ tx[s].heads = {}
      BY <2>1, <2>4, SequencerAssumption, RInvParts DEF LeafInv, RInv, StepInv
    <3> QED BY <2>4, <3>1, CommitTables, TablesStutter DEF SignerWrites
  <2>5. ASSUME NEW f \in Frontend, pc[f] = "ack", Commit(f) PROVE Abstract!ANext
    BY <2>1, <2>5, CommitQueues DEF Abstract!ANext
  <2>6. ASSUME NEW f \in Frontend, pc[f] = "initcommit", Commit(f)
        PROVE  Abstract!ANext \/ UNCHANGED Abstract!alogVars
    <3>1. CASE tx[f].heads # {}
      BY <2>1, <2>6, <3>1, CommitCreates DEF Abstract!ANext
    <3>2. CASE tx[f].heads = {}
      <4>1. /\ f \in Client /\ StorageType /\ FrontendWrites(f) /\ PendingLeaves(f)
            /\ tx[f].deleted = {} /\ tx[f].queued = {}
        BY <2>1, <2>6, FrontendParts DEF LeafInv, PendingInv, FrontendWrites, PendingLeaves
      <4> QED BY <2>6, <3>2, <4>1, CommitTables, TablesStutter
    <3> QED BY <3>1, <3>2
  <2> QED BY <2>1, <2>2, <2>3, <2>4, <2>5, <2>6, StepKinds
<1> QED BY <1>1, <1>2, LeafInvariance, PTL DEF Spec, ImplementsAppendOnlyLog, Abstract!ASpec
-------------------------------------------------------------------------------
\* The row locks.

\* A step moves one client.
LEMMA SignerMoves ==
    ASSUME RInv, NEW s \in Signer, SignerAction(s)
    PROVE  /\ \A d \in Client \ {s} : tx'[d] = tx[d] /\ pc'[d] = pc[d]
           /\ request' = request /\ next' = next
<1>0. /\ tx \in [Client -> Transaction] /\ pc \in [Client -> Labels]
      /\ request \in [Frontend -> Seq(Leaf)] /\ next \in [Frontend -> Nat \ {0}]
  BY DEF RInv, TypeOK
<1>1. \A d \in Client \ {s} : tx'[d] = tx[d]
  BY <1>0 DEF SignerAction, SignerStep, BeginPass, NeedsInit, Fetch, NothingToDo, Update,
       StoreRoot, Conflict, CommitPass, Replenish, SignerFails, Return, Fail, BeginTx,
       Rollback, Commit, DeleteQueued, InsertSequenced, StoreSignedLogRoot, storageVars
<1>2. \A d \in Client \ {s} : pc'[d] = pc[d]
  BY <1>0 DEF SignerAction, SignerStep, BeginPass, NeedsInit, Fetch, NothingToDo, Update,
       StoreRoot, Conflict, CommitPass, Replenish, SignerFails, Return, Fail, Goto
<1> QED BY <1>1, <1>2 DEF SignerAction, frontendVars

LEMMA FrontendMoves ==
    ASSUME RInv, NEW f \in Frontend, FrontendAction(f)
    PROVE  /\ \A d \in Client \ {f} : tx'[d] = tx[d] /\ pc'[d] = pc[d]
           /\ \A d \in Frontend \ {f} : request'[d] = request[d] /\ next'[d] = next[d]
<1>0. /\ tx \in [Client -> Transaction] /\ pc \in [Client -> Labels]
      /\ request \in [Frontend -> Seq(Leaf)] /\ next \in [Frontend -> Nat \ {0}]
  BY DEF RInv, TypeOK
<1>1. \A d \in Client \ {f} : tx'[d] = tx[d]
  BY <1>0 DEF FrontendAction, FrontendStep, BeginInit, InitStore, InitRefused, InitCommit,
       BeginQueue, InsertNext, RetrieveExisting, CommitQueue, ContextDone, FrontendFails,
       Fail, BeginTx, Rollback, Commit, StoreSignedLogRoot, InsertLeaf, storageVars
<1>2. \A d \in Client \ {f} : pc'[d] = pc[d]
  BY <1>0 DEF FrontendAction, FrontendStep, BeginInit, InitStore, InitRefused, InitCommit,
       BeginQueue, InsertNext, RetrieveExisting, CommitQueue, ContextDone, FrontendFails,
       Fail, Goto, runtimeVars
<1>3. \A d \in Frontend \ {f} : request'[d] = request[d] /\ next'[d] = next[d]
  BY <1>0 DEF FrontendAction, FrontendStep, BeginInit, InitStore, InitRefused, InitCommit,
       BeginQueue, InsertNext, RetrieveExisting, CommitQueue, ContextDone, FrontendFails,
       DropRequest, frontendVars
<1> QED BY <1>1, <1>2, <1>3

\* The server that moves goes on inserting in the order of the hashes.
LEMMA OrderKept ==
    ASSUME RInv, LeafInv, NEW f \in Frontend, InsertsInOrder(f), FrontendAction(f)
    PROVE  InsertsInOrder(f)'
<1>1. f \in Client /\ StorageType /\ RestType /\ pc \in [Client -> Labels]
  BY FrontendParts DEF TypeOK
<1>2. CASE BeginQueue(f)
  <2>1. PICK leaves \in Requests : \E o \in Sorted(leaves) :
            request' = [request EXCEPT ![f] = o]
    BY <1>2 DEF BeginQueue
  <2>0. PICK o \in Sorted(leaves) : request' = [request EXCEPT ![f] = o]
    BY <2>1
  <2>2. PICK n \in 1 .. MaxRequest : leaves \in [1 .. n -> Leaf]
    BY DEF Requests
  <2>3. n \in Nat /\ Len(leaves) = n
    BY <2>2, LogRPCServerAssumption
  <2>4. /\ o \in [1 .. n -> Leaf] /\ Len(o) = n
        /\ \A i, j \in 1 .. n : i < j => o[i] <= o[j]
    BY <2>3 DEF Sorted
  <2>5. request'[f] = o
    BY <1>1, <2>0 DEF RestType
  <2>6. tx'[f].leaves = {}
    BY <1>1, <1>2 DEF BeginQueue, BeginTx, StorageType, NoTransaction
  <2> QED BY <2>4, <2>5, <2>6 DEF InsertsInOrder
<1>3. CASE InsertNext(f)
  <2>1. /\ pc[f] = "insert" /\ pc' = pc /\ request' = request /\ next[f] \in Nat
        /\ next[f] \in 1 .. Len(request[f]) /\ next'[f] = next[f] + 1
        /\ Len(request[f]) \in Nat
    BY <1>1, <1>3 DEF InsertNext, runtimeVars, RestType
  <2>2. tx'[f].leaves \subseteq tx[f].leaves \cup {request[f][next[f]]}
    <3>1. InsertLeaf(f, request[f][next[f]], queueTs[f]) \/ tx' = tx
      BY <1>3 DEF InsertNext, storageVars
    <3>2. tx[f] \in Transaction /\ f \in DOMAIN tx
      BY <1>1 DEF StorageType
    <3> QED BY <3>1, <3>2 DEF InsertLeaf, Transaction
  <2>3. ASSUME NEW leaf \in tx'[f].leaves
        PROVE  \E i \in 1 .. Len(request[f]) : i < next'[f] /\ request[f][i] = leaf
    <3>1. CASE leaf \in tx[f].leaves
      <4>1. PICK i \in 1 .. Len(request[f]) : i < next[f] /\ request[f][i] = leaf
        BY <2>1, <3>1 DEF InsertsInOrder
      <4> QED BY <2>1, <4>1
    <3>2. CASE leaf = request[f][next[f]]
      BY <2>1, <3>2
    <3> QED BY <2>2, <3>1, <3>2
  <2> QED BY <2>1, <2>3 DEF InsertsInOrder
<1>4. CASE ~BeginQueue(f) /\ ~InsertNext(f)
  <2>1. pc'[f] # "insert"
    BY <1>1, <1>4 DEF FrontendAction, FrontendStep, BeginInit, InitStore, InitRefused,
         InitCommit, RetrieveExisting, CommitQueue, ContextDone, FrontendFails, Fail, Goto
  <2> QED BY <2>1 DEF InsertsInOrder
<1> QED BY <1>2, <1>3, <1>4

\* A step of one client opens or closes at most its own transaction.
LEMMA OpenFinite ==
    ASSUME IsFiniteSet(Open), NEW c, \A d \in Client \ {c} : tx'[d] = tx[d]
    PROVE  IsFiniteSet(Open')
<1>1. Open' \subseteq Open \cup {c}
  BY DEF Open
<1>2. IsFiniteSet(Open \cup {c})
  BY FS_AddElement
<1> QED BY <1>1, <1>2, FS_Subset

LEMMA LockNextInv == RInv /\ LeafInv /\ LockInv /\ [Next]_vars => LockInv'
<1> SUFFICES ASSUME RInv, LeafInv, LockInv, [Next]_vars PROVE LockInv'
  OBVIOUS
<1>1. ASSUME NEW s \in Signer, SignerAction(s) PROVE LockInv'
  <2>1. IsFiniteSet(Open')
    BY <1>1, SignerMoves, OpenFinite DEF LockInv
  <2>2. ASSUME NEW f \in Frontend PROVE InsertsInOrder(f)'
    <3>1. f \in Client \ {s} /\ InsertsInOrder(f)
      BY ActorsAssumption DEF LockInv
    <3>2. tx'[f] = tx[f] /\ pc'[f] = pc[f] /\ request' = request /\ next' = next
      BY <1>1, <3>1, SignerMoves
    <3> QED BY <3>1, <3>2 DEF InsertsInOrder
  <2> QED BY <2>1, <2>2 DEF LockInv
<1>2. ASSUME NEW f \in Frontend, FrontendAction(f) PROVE LockInv'
  <2>1. IsFiniteSet(Open')
    BY <1>2, FrontendMoves, OpenFinite DEF LockInv
  <2>2. ASSUME NEW d \in Frontend \ {f} PROVE InsertsInOrder(d)'
    <3>1. d \in Client \ {f} /\ InsertsInOrder(d)
      BY LogRPCServerAssumption DEF LockInv
    <3>2. /\ tx'[d] = tx[d] /\ pc'[d] = pc[d]
          /\ request'[d] = request[d] /\ next'[d] = next[d]
      BY <1>2, <3>1, FrontendMoves
    <3> QED BY <3>1, <3>2 DEF InsertsInOrder
  <2>3. InsertsInOrder(f)'
    BY <1>2, OrderKept DEF LockInv
  <2> QED BY <2>1, <2>2, <2>3 DEF LockInv
<1>3. CASE UNCHANGED <<tx, pc, request, next>>
  BY <1>3 DEF LockInv, Open, InsertsInOrder
<1> QED
  BY <1>1, <1>2, <1>3 DEF Next, Tick, vars, storageVars, runtimeVars, frontendVars

LEMMA LockInitInv == Init => LockInv
<1> SUFFICES ASSUME Init PROVE LockInv
  OBVIOUS
<1>1. \A c \in Client : tx[c] = NoTransaction /\ pc[c] = "idle"
  BY DEF Init, StorageInit, RuntimeInit
<1>2. Open = {}
  BY <1>1 DEF Open, NoTransaction
<1> QED BY <1>1, <1>2, FS_EmptySet, LogRPCServerAssumption DEF LockInv, InsertsInOrder

\* The whole inductive invariant holds in every behaviour of the log: the roots, the
\* account of every leaf, node and token, and the order in which rows are locked.
THEOREM Invariance == Spec => []IInv
<1>1. RInv /\ LeafInv /\ LockInv /\ [Next]_vars => LockInv'
  BY LockNextInv
<1> QED BY <1>1, LockInitInv, LeafInvariance, PTL DEF Spec, IInv
\* A finite set of clients has one whose value is the greatest: a smallest subset
\* without one would have to be empty.
LEMMA FiniteMax ==
    ASSUME NEW S, IsFiniteSet(S), S # {}, NEW g \in [S -> Int]
    PROVE  \E c \in S : \A d \in S : g[d] <= g[c]
<1> DEFINE HasMax(U) == \E c \in U : \A d \in U : g[d] <= g[c]
           Bad == {U \in SUBSET S : U # {} /\ ~HasMax(U)}
           R == StrictSubsetOrdering(S)
<1>1. SUFFICES ASSUME Bad # {} PROVE FALSE
  <2>1. S \notin Bad
    BY <1>1
  <2> QED BY <2>1
<1>2. IsWellFoundedOn(R, SUBSET S)
  BY FS_StrictSubsetOrderingWellFounded, FS_FiniteSubsetsOfFinite
<1>3. PICK U \in Bad : \A V \in Bad : ~(<<V, U>> \in R)
  <2>1. Bad \subseteq SUBSET S
    OBVIOUS
  <2> HIDE DEF Bad, R
  <2> QED BY <1>1, <1>2, <2>1, WFMin
<1>4. PICK x \in U : TRUE
  OBVIOUS
<1> DEFINE V == U \ {x}
<1>5. U \in SUBSET S /\ x \in S /\ V \in SUBSET S /\ V # U
  OBVIOUS
<1>6. <<V, U>> \in R
  BY <1>5 DEF StrictSubsetOrdering
<1>7. V \notin Bad
  BY <1>3, <1>6
<1>8. CASE V = {}
  <2>1. U = {x} /\ g[x] \in Int
    BY <1>4, <1>5, <1>8
  <2>2. HasMax(U)
    BY <2>1
  <2> QED BY <1>3, <2>2
<1>9. CASE V # {}
  <2>1. PICK m \in V : \A d \in V : g[d] <= g[m]
    BY <1>5, <1>7, <1>9
  <2>2. m \in U /\ g[m] \in Int /\ g[x] \in Int /\ \A d \in U : d \in V \/ d = x
    BY <1>5
  <2>3. \A d \in U : g[d] \in Int
    BY <1>5
  <2> HIDE DEF V
  <2>4. CASE g[x] <= g[m]
    <3>1. \A d \in U : g[d] <= g[m]
      BY <2>1, <2>2, <2>4
    <3> QED BY <1>3, <2>2, <3>1
  <2>5. CASE g[m] <= g[x]
    <3>1. \A d \in U : g[d] <= g[x]
      BY <2>1, <2>2, <2>3, <2>5
    <3> QED BY <1>3, <1>4, <3>1
  <2> QED BY <2>2, <2>4, <2>5
<1> QED BY <1>8, <1>9

\* Whatever leaves the requests of any number of handlers share, no circle of handlers
\* waits for rows that the others of the circle have inserted: each waits for a leaf that
\* is greater than all it has inserted (storage/mysql/log_storage.go, QueueLeaves).
THEOREM InsertsNeverCircle == Spec => []NoInsertCycle
<1>1. ASSUME IInv, NEW S \in (SUBSET Frontend) \ {{}}
      PROVE  \E f \in S : InsertWaitsFor(f) \cap S = {}
  <2>1. RInv /\ LeafInv /\ LockInv
    BY <1>1 DEF IInv
  <2>2. SUFFICES ASSUME \A c \in S : \E d \in S : d \in InsertWaitsFor(c) PROVE FALSE
    OBVIOUS
  <2> DEFINE leaf(c) == request[c][next[c]]
             g == [c \in S |-> leaf(c)]
  <2>3. ASSUME NEW c \in S
        PROVE  /\ pc[c] = "insert" /\ next[c] <= Len(request[c])
               /\ \E d \in S : d # c /\ leaf(c) \in tx[d].leaves
    <3>1. PICK d \in S : d \in InsertWaitsFor(c)
      BY <2>2
    <3>2. /\ pc[c] = "insert" /\ next[c] <= Len(request[c])
          /\ d \in LeafWaitsFor(c, request[c][next[c]])
      BY <3>1 DEF InsertWaitsFor
    <3> QED BY <3>2 DEF LeafWaitsFor, Others
  <2>4. ASSUME NEW c \in S
        PROVE  /\ leaf(c) \in Int /\ c \in Open
               /\ next[c] \in 1 .. Len(request[c])
    <3>1. /\ request[c] \in Seq(Leaf) /\ next[c] \in Nat \ {0} /\ c \in Client
          /\ tx[c].open <=> pc[c] \notin {"idle", "replenish"}
      BY <2>1, LogRPCServerAssumption DEF RInv, TypeOK
    <3>2. next[c] \in 1 .. Len(request[c]) /\ pc[c] = "insert"
      BY <2>3, <3>1
    <3>3. leaf(c) \in Leaf
      BY <3>1, <3>2, ElementOfSeq
    <3> QED BY <3>1, <3>2, <3>3, LeafAssumption DEF Open
  <2>5. S # {} /\ IsFiniteSet(S)
    <3>1. S \subseteq Open
      BY <2>4
    <3> QED BY <2>1, <3>1, FS_Subset DEF LockInv
  <2>6. g \in [S -> Int]
    BY <2>4
  <2>7. PICK c \in S : \A d \in S : g[d] <= g[c]
    <3> HIDE DEF g
    <3> QED BY <2>5, <2>6, FiniteMax
  <2>8. PICK d \in S : d # c /\ leaf(c) \in tx[d].leaves
    BY <2>3
  <2>9. leaf(d) <= leaf(c) /\ leaf(d) \in Int /\ leaf(c) \in Int
    BY <2>4, <2>7, <2>8
  <2>10. leaf(c) <= leaf(d)
    <3>1. InsertsInOrder(d) /\ pc[d] = "insert" /\ next[d] \in 1 .. Len(request[d])
      BY <2>1, <2>3, <2>4, <2>8 DEF LockInv
    <3>2. PICK i \in 1 .. Len(request[d]) : i < next[d] /\ request[d][i] = leaf(c)
      BY <2>8, <3>1 DEF InsertsInOrder
    <3> QED BY <3>1, <3>2 DEF InsertsInOrder
  <2>11. leaf(c) = leaf(d)
    BY <2>9, <2>10
  <2>12. PICK e \in S : e # d /\ leaf(d) \in tx[e].leaves
    BY <2>3, <2>8
  <2>13. PendingLeaves(d) /\ e \in Client \ {d} /\ leaf(d) \in tx[d].leaves
    BY <2>1, <2>8, <2>11, <2>12, LogRPCServerAssumption DEF LeafInv, PendingInv
  <2> QED BY <2>12, <2>13 DEF PendingLeaves
<1>2. IInv => NoInsertCycle
  BY <1>1 DEF NoInsertCycle
<1> QED BY <1>2, Invariance, PTL

===============================================================================
