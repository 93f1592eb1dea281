--------------------------- MODULE TrillianLogProofs --------------------------
(***************************************************************************)
(* Proofs about TrillianLog, for any sets of leaves, signers and servers,  *)
(* any clocks and any bounds.                                              *)
(***************************************************************************)
EXTENDS TrillianLog, SequenceTheorems, TLAPS

StorageType == db \in Tables /\ tx \in [Client -> Transaction]

\* What an operation of the storage does to the transactions: only the client's
\* own changes, and it is open afterwards or not.
Touches(c, open) ==
    /\ tx' \in [Client -> Transaction]
    /\ tx'[c].open = open
    /\ \A d \in Client \ {c} : tx'[d] = tx[d]

\* The latest root of typed tables is a tree head or no root at all.
LEMMA LatestRootType ==
    ASSUME NEW T \in Tables
    PROVE  LatestRoot(T) \in HeadRow \cup {NoRoot}
BY DEF LatestRoot, Latest, Tables

\* Types of the constant tables and transactions.
LEMMA EmptyTypes == EmptyTables \in Tables /\ NoTransaction \in Transaction
BY DEF EmptyTables, Tables, NoTransaction, Transaction

LEMMA BeginTxType ==
    ASSUME StorageType, NEW c \in Client, BeginTx(c)
    PROVE  StorageType' /\ Touches(c, TRUE)
<1> DEFINE root == LatestRoot(db)
           t == [NoTransaction EXCEPT
                        !.open = TRUE,
                        !.snap = db,
                        !.root = root,
                        !.writeRevision = IF root = NoRoot THEN -1 ELSE root.rev + 1]
<1>1. root \in HeadRow \cup {NoRoot}
  BY LatestRootType DEF StorageType
<1>2. (IF root = NoRoot THEN -1 ELSE root.rev + 1) \in Int
  BY <1>1 DEF HeadRow
<1>3. t \in Transaction /\ t.open = TRUE
  BY <1>1, <1>2, EmptyTypes DEF StorageType, NoTransaction, Transaction
<1>4. tx' = [tx EXCEPT ![c] = t] /\ db' = db
  BY DEF BeginTx
<1> HIDE DEF t, root
<1> QED
  BY <1>3, <1>4 DEF StorageType, Touches

LEMMA RollbackType ==
    ASSUME StorageType, NEW c \in Client, Rollback(c)
    PROVE  StorageType' /\ Touches(c, FALSE)
<1>1. NoTransaction.open = FALSE
  BY DEF NoTransaction
<1> QED
  BY EmptyTypes, <1>1 DEF StorageType, Touches, Rollback

LEMMA CommitType ==
    ASSUME StorageType, NEW c \in Client, Commit(c)
    PROVE  StorageType' /\ Touches(c, FALSE)
<1>1. NoTransaction.open = FALSE
  BY DEF NoTransaction
<1>2. tx[c] \in Transaction
  BY DEF StorageType
<1>3. db' \in Tables
  BY <1>2 DEF Transaction, StorageType, Commit, Tables
<1> QED
  BY EmptyTypes, <1>1, <1>3 DEF StorageType, Touches, Commit

LEMMA DeleteQueuedType ==
    ASSUME StorageType, NEW c \in Client, NEW rows \in SUBSET QueuedRow,
           DeleteQueued(c, rows)
    PROVE  StorageType' /\ Touches(c, tx[c].open)
BY DEF StorageType, Touches, DeleteQueued, Transaction

LEMMA InsertSequencedType ==
    ASSUME StorageType, NEW c \in Client, NEW rows \in SUBSET SequencedRow,
           NEW nodes \in SUBSET NodeRow, InsertSequenced(c, rows, nodes)
    PROVE  StorageType' /\ Touches(c, tx[c].open)
<1> DEFINE t == [tx[c] EXCEPT !.sequenced = @ \cup rows, !.nodes = @ \cup nodes]
<1>1. tx[c] \in Transaction
  BY DEF StorageType
<1>2. t \in Transaction /\ t.open = tx[c].open
  BY <1>1 DEF Transaction
<1>3. tx' = [tx EXCEPT ![c] = t] /\ db' = db
  BY DEF InsertSequenced
<1> HIDE DEF t
<1> QED
  BY <1>2, <1>3 DEF StorageType, Touches

LEMMA StoreSignedLogRootType ==
    ASSUME StorageType, NEW c \in Client, NEW head \in HeadRow,
           StoreSignedLogRoot(c, head)
    PROVE  StorageType' /\ Touches(c, tx[c].open)
<1> DEFINE t == [tx[c] EXCEPT !.heads = @ \cup {head}]
<1>1. tx[c] \in Transaction
  BY DEF StorageType
<1>2. t \in Transaction /\ t.open = tx[c].open
  BY <1>1 DEF Transaction
<1>3. tx' = [tx EXCEPT ![c] = t] /\ db' = db
  BY DEF StoreSignedLogRoot
<1> HIDE DEF t
<1> QED
  BY <1>2, <1>3 DEF StorageType, Touches

LEMMA InsertLeafType ==
    ASSUME StorageType, NEW c \in Client, NEW leaf \in Leaf, NEW ts \in Int,
           InsertLeaf(c, leaf, ts)
    PROVE  StorageType' /\ Touches(c, tx[c].open)
<1> DEFINE t == [tx[c] EXCEPT !.leaves = @ \cup {leaf},
                              !.queued = @ \cup {[leaf |-> leaf, ts |-> ts]}]
<1>1. tx[c] \in Transaction /\ [leaf |-> leaf, ts |-> ts] \in QueuedRow
  BY DEF StorageType, QueuedRow
<1>2. t \in Transaction /\ t.open = tx[c].open
  BY <1>1 DEF Transaction
<1>3. tx' = [tx EXCEPT ![c] = t] /\ db' = db
  BY DEF InsertLeaf
<1> HIDE DEF t
<1> QED
  BY <1>2, <1>3 DEF StorageType, Touches

-------------------------------------------------------------------------------
\* A step that moves the client's pc and leaves its transaction open, or not, as
\* the new label says, keeps the transactions and the program counters in line.
LEMMA PcType ==
    ASSUME TypeOK, NEW c \in Client, NEW label \in Labels, Goto(c, label),
           NEW open \in BOOLEAN, Touches(c, open),
           open <=> label \notin {"idle", "replenish"}
    PROVE  /\ pc' \in [Client -> Labels]
           /\ \A d \in Client : tx'[d].open <=> pc'[d] \notin {"idle", "replenish"}
<1>1. pc' = [pc EXCEPT ![c] = label] /\ pc \in [Client -> Labels]
  BY DEF Goto, TypeOK
<1>2. pc' \in [Client -> Labels]
  BY <1>1
<1>3. ASSUME NEW d \in Client
      PROVE  tx'[d].open <=> pc'[d] \notin {"idle", "replenish"}
  <2>1. CASE d = c
    BY <2>1, <1>1 DEF Touches
  <2>2. CASE d # c
    <3>1. tx'[d] = tx[d] /\ pc'[d] = pc[d]
      BY <2>2, <1>1 DEF Touches
    <3> QED
      BY <3>1 DEF TypeOK
  <2> QED BY <2>1, <2>2
<1> QED BY <1>2, <1>3

\* A batch of rows is a sequence of rows.
LEMMA FirstRowsType ==
    ASSUME NEW rows \in SUBSET QueuedRow, NEW limit \in Nat,
           NEW b \in FirstRows(rows, limit)
    PROVE  b \in Seq(QueuedRow) /\ Rows(b) \subseteq rows
<1>1. PICK n \in 0 .. limit : b \in [1 .. n -> rows]
  BY DEF FirstRows
<1>2. b \in Seq(QueuedRow) /\ Len(b) = n
  BY <1>1
<1> QED
  BY <1>1, <1>2 DEF Rows

LEMMA SelectedType ==
    ASSUME TypeOK, NEW s \in Signer, NEW b \in Selected(s)
    PROVE  b \in Seq(QueuedRow) /\ Rows(b) \in SUBSET QueuedRow
<1> DEFINE rows == {r \in tx[s].snap.Unsequenced : r.ts <= start[s] - GuardWindow}
<1>1. rows \in SUBSET QueuedRow
  BY SequencerAssumption DEF TypeOK, Transaction, Tables
<1>2. b \in FirstRows(rows, BatchSize) /\ BatchSize \in Nat
  BY SequencerAssumption DEF Selected
<1> HIDE DEF rows
<1> QED
  BY <1>1, <1>2, FirstRowsType

-------------------------------------------------------------------------------
\* How the operations of the storage preserve RootsInv.

\* No transaction at all: nothing read, nothing pending.
LEMMA NoTransactionRoots == NoTransaction.root = NoRoot /\ NoTransaction.heads = {}
BY DEF NoTransaction

\* A latest root that exists is in the table.
LEMMA LatestRootStored ==
    ASSUME NEW T \in Tables
    PROVE  LatestRoot(T) \in T.TreeHead \cup {NoRoot}
BY DEF LatestRoot, Latest

\* A write that neither reads nor stores a root.
LEMMA OtherWriteRoots ==
    ASSUME StorageType, RootsInv, NEW c \in Client, db' = db,
           tx' \in [Client -> Transaction],
           tx'[c].root = tx[c].root, tx'[c].heads = tx[c].heads,
           \A d \in Client \ {c} : tx'[d] = tx[d]
    PROVE  RootsInv'
<1>1. \A d \in Client : tx'[d].root = tx[d].root /\ tx'[d].heads = tx[d].heads
  OBVIOUS
<1>2. ReadRootsKept' /\ PendingRoots'
  BY <1>1 DEF RootsInv, ReadRootsKept, PendingRoots
<1> QED
  BY <1>2 DEF RootsInv, RevisionsDense, SizesRight, RootsConsistent

LEMMA BeginTxRoots ==
    ASSUME StorageType, RootsInv, NEW c \in Client, BeginTx(c)
    PROVE  RootsInv' /\ tx'[c].heads = {} /\ tx'[c].root \in db.TreeHead \cup {NoRoot}
<1>1. /\ tx'[c].root = LatestRoot(db)
      /\ tx'[c].heads = {}
      /\ \A d \in Client \ {c} : tx'[d] = tx[d]
      /\ db' = db
  BY DEF BeginTx, NoTransaction, StorageType
<1>2. tx'[c].root \in db.TreeHead \cup {NoRoot}
  BY <1>1, LatestRootStored DEF StorageType
<1>3. ReadRootsKept' /\ PendingRoots'
  BY <1>1, <1>2 DEF RootsInv, ReadRootsKept, PendingRoots
<1> QED
  BY <1>1, <1>2, <1>3 DEF RootsInv, RevisionsDense, SizesRight, RootsConsistent

LEMMA RollbackRoots ==
    ASSUME StorageType, RootsInv, NEW c \in Client, Rollback(c)
    PROVE  RootsInv' /\ tx'[c].heads = {}
<1>1. /\ tx'[c].root = NoRoot
      /\ tx'[c].heads = {}
      /\ \A d \in Client \ {c} : tx'[d] = tx[d]
      /\ db' = db
  BY NoTransactionRoots DEF Rollback, StorageType
<1>2. ReadRootsKept' /\ PendingRoots'
  BY <1>1 DEF RootsInv, ReadRootsKept, PendingRoots
<1> QED
  BY <1>1, <1>2 DEF RootsInv, RevisionsDense, SizesRight, RootsConsistent

\* Storing a root that follows the one read: the unique index keeps it apart from
\* the committed roots and the row locks from the pending ones.
LEMMA StoreRoots ==
    ASSUME StorageType, RootsInv, NEW c \in Client, NEW head \in HeadRow,
           StoreSignedLogRoot(c, head), tx[c].heads = {},
           Follows(head, tx[c].root), HeadOK(head), HeadWaitsFor(c, head) = {},
           \A d \in Client : tx[d].heads # {} => tx[d].open
    PROVE  RootsInv'
<1>1. /\ tx'[c].root = tx[c].root
      /\ tx'[c].heads = {head}
      /\ \A d \in Client \ {c} : tx'[d] = tx[d]
      /\ db' = db
  BY DEF StoreSignedLogRoot, StorageType, Transaction
<1>2. \A g \in db.TreeHead : g.rev # head.rev
  BY DEF HeadOK, HeadClash
<1>3. \A d \in Client \ {c} : \A g \in tx[d].heads : g.rev # head.rev
  BY DEF HeadWaitsFor, HeadClash, Others
<1>4. ReadRootsKept'
  BY <1>1 DEF RootsInv, ReadRootsKept
<1>5. PendingRoots'
  BY <1>1, <1>2, <1>3 DEF RootsInv, PendingRoots
<1> QED
  BY <1>1, <1>4, <1>5 DEF RootsInv, RevisionsDense, SizesRight, RootsConsistent

\* A pending root comes after all the stored ones: otherwise its revision would be
\* among theirs, as none is skipped.
LEMMA PendingExtends ==
    ASSUME StorageType, RootsInv, NEW c \in Client, NEW h \in tx[c].heads,
           NEW g \in db.TreeHead
    PROVE  /\ g.rev < h.rev
           /\ tx[c].root \in db.TreeHead
           /\ g.size <= tx[c].root.size
           /\ g.size <= h.size
           /\ \A i \in 1 .. g.size : g.hash[i] = h.hash[i]
<1> DEFINE root == tx[c].root
<1>1. db.TreeHead \subseteq HeadRow /\ tx[c].heads \subseteq HeadRow
  BY DEF StorageType, Transaction, Tables
<1>2. root \in db.TreeHead \cup {NoRoot}
  BY DEF RootsInv, ReadRootsKept
<1>3. Follows(h, root) /\ \A e \in db.TreeHead : e.rev # h.rev
  BY DEF RootsInv, PendingRoots
<1>4. ~(g.rev > h.rev)
  <2>1. SUFFICES ASSUME g.rev > h.rev PROVE FALSE
    OBVIOUS
  <2>2. h.rev \in 0 .. g.rev
    BY <2>1, <1>1 DEF HeadRow
  <2>3. PICK e \in db.TreeHead : e.rev = h.rev
    BY <2>2 DEF RootsInv, RevisionsDense
  <2> QED BY <2>3, <1>3
<1>5. h.rev = root.rev + 1 /\ root.rev \in Int /\ g.rev \in Nat /\ h.rev \in Nat
  BY <1>1, <1>2, <1>3 DEF Follows, HeadRow, NoRoot
<1>6. g.rev < h.rev /\ g.rev <= root.rev
  BY <1>3, <1>4, <1>5
<1>7. root \in db.TreeHead
  BY <1>2, <1>5, <1>6 DEF NoRoot
<1>8. g.size <= root.size /\ \A i \in 1 .. g.size : g.hash[i] = root.hash[i]
  BY <1>6, <1>7 DEF RootsInv, RootsConsistent
<1>9. root.size <= h.size /\ \A i \in 1 .. root.size : h.hash[i] = root.hash[i]
  BY <1>3 DEF Follows
<1>10. g.size \in Nat /\ root.size \in Nat /\ h.size \in Nat
  BY <1>1, <1>7 DEF HeadRow
<1> HIDE DEF root
<1>11. g.size <= h.size /\ \A i \in 1 .. g.size : g.hash[i] = h.hash[i]
  BY <1>8, <1>9, <1>10
<1> QED BY <1>6, <1>7, <1>8, <1>11 DEF root

\* Committing a pending root extends the chain of roots at its end.
LEMMA CommitRoots ==
    ASSUME StorageType, RootsInv, NEW c \in Client, Commit(c)
    PROVE  RootsInv' /\ tx'[c].heads = {}
<1>1. /\ tx'[c].root = NoRoot
      /\ tx'[c].heads = {}
      /\ \A d \in Client \ {c} : tx'[d] = tx[d]
      /\ db'.TreeHead = db.TreeHead \cup tx[c].heads
  BY NoTransactionRoots DEF Commit, StorageType
<1>2. db.TreeHead \subseteq HeadRow /\ tx[c].heads \subseteq HeadRow
  BY DEF StorageType, Transaction, Tables
<1>3. tx[c].root \in db.TreeHead \cup {NoRoot}
  BY DEF RootsInv, ReadRootsKept
<1>4. ASSUME NEW h \in tx[c].heads
      PROVE  /\ Follows(h, tx[c].root)
             /\ \A g \in tx[c].heads : g = h
             /\ \A g \in db.TreeHead : g.rev # h.rev
             /\ \A d \in Client \ {c} : \A g \in tx[d].heads : g.rev # h.rev
  BY DEF RootsInv, PendingRoots
<1>5. ReadRootsKept'
  BY <1>1 DEF RootsInv, ReadRootsKept
<1>6. PendingRoots'
  BY <1>1, <1>4 DEF RootsInv, PendingRoots
<1>7. ASSUME NEW h \in tx[c].heads, NEW g \in db.TreeHead
      PROVE  /\ g.rev < h.rev /\ g.size <= h.size
             /\ \A i \in 1 .. g.size : g.hash[i] = h.hash[i]
  BY PendingExtends
<1>8. RevisionsDense'
  <2>1. ASSUME NEW h \in db'.TreeHead, NEW k \in 0 .. h.rev
        PROVE  \E g \in db'.TreeHead : g.rev = k
    <3>1. CASE h \in db.TreeHead
      BY <3>1, <1>1 DEF RootsInv, RevisionsDense
    <3>2. CASE h \in tx[c].heads
      <4>1. CASE k = h.rev
        BY <4>1
      <4>2. CASE k # h.rev
        <5>1. h.rev = tx[c].root.rev + 1
          BY <3>2, <1>4 DEF Follows
        <5>2. tx[c].root # NoRoot
          BY <5>1, <4>2 DEF NoRoot
        <5>3. tx[c].root \in db.TreeHead /\ k \in 0 .. tx[c].root.rev
          BY <5>1, <5>2, <4>2, <1>2, <1>3 DEF HeadRow
        <5> QED BY <5>3, <1>1 DEF RootsInv, RevisionsDense
      <4> QED BY <4>1, <4>2
    <3> QED BY <3>1, <3>2, <1>1
  <2> QED BY <2>1 DEF RevisionsDense
<1>9. SizesRight'
  BY <1>1, <1>4 DEF RootsInv, SizesRight, Follows
<1>10. RootsConsistent'
  <2>1. ASSUME NEW g \in db'.TreeHead, NEW h \in db'.TreeHead, g.rev <= h.rev
        PROVE  /\ g.rev = h.rev => g = h
               /\ g.size <= h.size
               /\ \A i \in 1 .. g.size : g.hash[i] = h.hash[i]
    <3>1. CASE g \in db.TreeHead /\ h \in db.TreeHead
      BY <2>1, <3>1 DEF RootsInv, RootsConsistent
    <3>2. CASE g \in db.TreeHead /\ h \in tx[c].heads
      BY <3>2, <1>7, <1>4
    <3>3. CASE g \in tx[c].heads /\ h \in db.TreeHead
      BY <2>1, <3>3, <1>7, <1>2 DEF HeadRow
    <3>4. CASE g \in tx[c].heads /\ h \in tx[c].heads
      BY <3>4, <1>4, <1>2 DEF HeadRow
    <3> QED BY <3>1, <3>2, <3>3, <3>4, <1>1
  <2> QED BY <2>1 DEF RootsConsistent
<1> QED
  BY <1>1, <1>5, <1>6, <1>8, <1>9, <1>10 DEF RootsInv

-------------------------------------------------------------------------------
\* The types of the variables that are not the storage's.
RestType ==
    /\ now \in Nat
    /\ failures \in 0 .. MaxFailures
    /\ start \in [Signer -> Int]
    /\ batch \in [Signer -> Seq(QueuedRow)]
    /\ replenished \in Nat
    /\ request \in [Frontend -> Seq(Leaf)]
    /\ next \in [Frontend -> Nat \ {0}]
    /\ queueTs \in [Frontend -> Int]
    /\ existing \in [Frontend -> SUBSET Nat]
    /\ acked \in SUBSET Leaf

\* What a step of one client has to establish for RInv.
LEMMA ClientStep ==
    ASSUME RInv, NEW c \in Client, NEW label \in Labels, Goto(c, label),
           NEW open \in BOOLEAN, Touches(c, open),
           open <=> label \notin {"idle", "replenish"},
           StorageType', RootsInv', RestType',
           tx'[c].heads # {} => label \in {"commit", "initcommit"},
           c \in Signer =>
               /\ label \in {"update", "store", "commit"} => tx'[c].root # NoRoot
               /\ label \in {"store", "commit"} =>
                       tx'[c].writeRevision = tx'[c].root.rev + 1
    PROVE  RInv'
<1>1. TypeOK'
  BY PcType DEF RInv, TypeOK, StorageType, RestType
<1>2. StepInv'
  <2>1. pc' = [pc EXCEPT ![c] = label] /\ pc \in [Client -> Labels]
    BY DEF Goto, RInv, TypeOK
  <2>2. \A d \in Client \ {c} : tx'[d] = tx[d] /\ pc'[d] = pc[d]
    BY <2>1 DEF Touches
  <2>3. pc'[c] = label
    BY <2>1
  <2>4. Signer \subseteq Client
    BY SequencerAssumption
  <2>5. ASSUME NEW s \in Signer
        PROVE  /\ pc'[s] \in {"update", "store", "commit"} => tx'[s].root # NoRoot
               /\ pc'[s] \in {"store", "commit"} =>
                       tx'[s].writeRevision = tx'[s].root.rev + 1
    BY <2>2, <2>3, <2>4 DEF RInv, StepInv
  <2>6. \A d \in Client : tx'[d].heads # {} => pc'[d] \in {"commit", "initcommit"}
    BY <2>2, <2>3 DEF RInv, StepInv
  <2> QED BY <2>5, <2>6 DEF StepInv
<1> QED BY <1>1, <1>2 DEF RInv

\* RInv gives the pieces the lemmas above ask for.
LEMMA RInvParts ==
    ASSUME RInv
    PROVE  /\ TypeOK /\ StorageType /\ RestType /\ RootsInv
           /\ \A d \in Client : tx[d].heads # {} => tx[d].open
<1>1. TypeOK /\ StorageType /\ RestType /\ RootsInv
  BY DEF RInv, TypeOK, StorageType, RestType
<1>2. ASSUME NEW d \in Client, tx[d].heads # {} PROVE tx[d].open
  BY <1>2 DEF RInv, StepInv, TypeOK
<1> QED BY <1>1, <1>2

-------------------------------------------------------------------------------
\* The steps of a signer.

LEMMA DropLocalsType ==
    ASSUME RestType, NEW s \in Signer, DropLocals(s)
    PROVE  /\ start' \in [Signer -> Int]
           /\ batch' \in [Signer -> Seq(QueuedRow)]
BY DEF RestType, DropLocals

LEMMA BeginPassInv ==
    ASSUME RInv, NEW s \in Signer, BeginPass(s), UNCHANGED frontendVars
    PROVE  RInv'
<1>1. s \in Client /\ StorageType /\ RootsInv /\ RestType
  BY SequencerAssumption, RInvParts
<1>2. StorageType' /\ Touches(s, TRUE)
  BY <1>1, BeginTxType DEF BeginPass
<1>3. RootsInv' /\ tx'[s].heads = {}
  BY <1>1, BeginTxRoots DEF BeginPass
<1>4. Now(s) \in Int
  BY <1>1, RuntimeAssumption DEF Now, RestType
<1>5. RestType'
  BY <1>1, <1>4 DEF BeginPass, RestType, frontendVars
<1>6. Goto(s, "fetch") /\ "fetch" \in Labels
  BY DEF BeginPass, Labels
<1> QED
  BY <1>1, <1>2, <1>3, <1>5, <1>6, ClientStep

\* Every way of returning from a pass.
LEMMA ReturnInv ==
    ASSUME RInv, NEW s \in Signer, Return(s), UNCHANGED frontendVars,
           UNCHANGED <<now, failures, replenished>>
    PROVE  RInv'
<1>1. s \in Client /\ StorageType /\ RootsInv /\ RestType
  BY SequencerAssumption, RInvParts
<1>2. StorageType' /\ Touches(s, FALSE)
  BY <1>1, RollbackType DEF Return
<1>3. RootsInv' /\ tx'[s].heads = {}
  BY <1>1, RollbackRoots DEF Return
<1>4. RestType'
  BY <1>1, DropLocalsType DEF Return, RestType, frontendVars
<1>5. Goto(s, "idle") /\ "idle" \in Labels
  BY DEF Return, Labels
<1> QED
  BY <1>1, <1>2, <1>3, <1>4, <1>5, ClientStep

LEMMA FetchInv ==
    ASSUME RInv, NEW s \in Signer, Fetch(s), UNCHANGED frontendVars
    PROVE  RInv'
<1>1. s \in Client /\ StorageType /\ RootsInv /\ RestType /\ TypeOK
  BY SequencerAssumption, RInvParts
<1>2. PICK b \in Selected(s) : DeleteQueued(s, Rows(b)) /\ batch' = [batch EXCEPT ![s] = b]
  BY DEF Fetch
<1>3. b \in Seq(QueuedRow) /\ Rows(b) \in SUBSET QueuedRow
  BY <1>1, SelectedType
<1>4. tx[s].open = TRUE /\ pc[s] = "fetch" /\ tx[s].root # NoRoot /\ tx[s] \in Transaction
  BY <1>1 DEF Fetch, TypeOK, Transaction
<1>5. StorageType' /\ Touches(s, TRUE)
  BY <1>1, <1>2, <1>3, <1>4, DeleteQueuedType
<1>6. /\ tx'[s].root = tx[s].root
      /\ tx'[s].heads = tx[s].heads
      /\ db' = db
  BY <1>1, <1>2, <1>4 DEF DeleteQueued, Transaction, StorageType
<1>7. RootsInv'
  BY <1>1, <1>5, <1>6, OtherWriteRoots DEF Touches
<1>8. tx[s].heads = {}
  BY <1>1, <1>4 DEF RInv, StepInv
<1>9. RestType'
  BY <1>1, <1>2, <1>3 DEF Fetch, RestType, frontendVars
<1>10. Goto(s, "update") /\ "update" \in Labels
  BY DEF Fetch, Labels
<1> QED
  BY <1>1, <1>4, <1>5, <1>6, <1>7, <1>8, <1>9, <1>10, ClientStep

LEMMA NothingToDoInv ==
    ASSUME RInv, NEW s \in Signer, NothingToDo(s), UNCHANGED frontendVars
    PROVE  RInv'
<1>1. s \in Client /\ StorageType /\ RootsInv /\ RestType
  BY SequencerAssumption, RInvParts
<1>2. StorageType' /\ Touches(s, FALSE)
  BY <1>1, CommitType DEF NothingToDo
<1>3. RootsInv' /\ tx'[s].heads = {}
  BY <1>1, CommitRoots DEF NothingToDo
<1>4. RestType'
  BY <1>1, DropLocalsType DEF NothingToDo, RestType, frontendVars
<1>5. Goto(s, "idle") /\ "idle" \in Labels
  BY DEF NothingToDo, Labels
<1> QED
  BY <1>1, <1>2, <1>3, <1>4, <1>5, ClientStep

\* The rows and nodes of a batch have their types.
LEMMA NewRowsType ==
    ASSUME RInv, NEW s \in Signer, tx[s].root # NoRoot
    PROVE  /\ NewSequenced(s) \in SUBSET SequencedRow
           /\ NewNodes(s) \in SUBSET NodeRow
<1>1. /\ tx[s].root.size \in Nat
      /\ tx[s].writeRevision \in Int
      /\ batch[s] \in Seq(QueuedRow)
  BY SequencerAssumption DEF RInv, TypeOK, Transaction, HeadRow
<1>2. ASSUME NEW i \in 1 .. Len(batch[s])
      PROVE  LeafIndex(s, i) \in Nat /\ batch[s][i].leaf \in Leaf
  <2>1. batch[s][i] \in QueuedRow
    BY <1>1
  <2> QED BY <1>1, <2>1 DEF LeafIndex, QueuedRow
<1>3. NewSequenced(s) \in SUBSET SequencedRow
  BY <1>2 DEF NewSequenced, SequencedRow
<1>4. NewNodes(s) \in SUBSET NodeRow
  BY <1>1, <1>2 DEF NewNodes, NodeRow
<1> QED BY <1>3, <1>4

LEMMA UpdateInv ==
    ASSUME RInv, NEW s \in Signer, Update(s), UNCHANGED frontendVars
    PROVE  RInv'
<1>1. s \in Client /\ StorageType /\ RootsInv /\ RestType /\ TypeOK
  BY SequencerAssumption, RInvParts
<1>2. /\ tx[s].open = TRUE /\ pc[s] = "update" /\ tx[s] \in Transaction
      /\ tx[s].root # NoRoot /\ tx[s].heads = {}
      /\ tx[s].writeRevision = tx[s].root.rev + 1
  BY <1>1 DEF Update, TypeOK, Transaction, RInv, StepInv
<1>3. StorageType' /\ Touches(s, TRUE)
  BY <1>1, <1>2, NewRowsType, InsertSequencedType DEF Update
<1>4. /\ tx'[s].root = tx[s].root
      /\ tx'[s].heads = tx[s].heads
      /\ tx'[s].writeRevision = tx[s].writeRevision
      /\ db' = db
  BY <1>1, <1>2 DEF Update, InsertSequenced, Transaction, StorageType
<1>5. RootsInv'
  BY <1>1, <1>3, <1>4, OtherWriteRoots DEF Touches
<1>6. RestType'
  BY <1>1 DEF Update, RestType, frontendVars, signerVars
<1>7. Goto(s, "store") /\ "store" \in Labels
  BY DEF Update, Labels
<1> QED
  BY <1>1, <1>2, <1>3, <1>4, <1>5, <1>6, <1>7, ClientStep

\* The root a signer stores follows the root it has read.
LEMMA NewRootFollows ==
    ASSUME RInv, NEW s \in Signer, pc[s] = "store"
    PROVE  /\ NewRoot(s) \in HeadRow /\ Follows(NewRoot(s), tx[s].root)
           /\ \A i \in 1 .. Len(batch[s]) :
                  NewRoot(s).hash[tx[s].root.size + i] = batch[s][i].leaf
<1> DEFINE root == tx[s].root
           leaves == [i \in 1 .. Len(batch[s]) |-> batch[s][i].leaf]
<1>1. s \in Client /\ RootsInv /\ StorageType /\ RestType
  BY SequencerAssumption, RInvParts
<1>2. root \in db.TreeHead /\ tx[s].writeRevision = root.rev + 1
  BY <1>1 DEF RInv, StepInv, RootsInv, ReadRootsKept
<1>3. root \in HeadRow /\ root.size = Len(root.hash)
  BY <1>1, <1>2 DEF StorageType, Tables, RootsInv, SizesRight
<1>4. batch[s] \in Seq(QueuedRow)
  BY <1>1 DEF RestType
<1>5. leaves \in Seq(Leaf) /\ Len(leaves) = Len(batch[s])
  <2>1. Len(batch[s]) \in Nat
    BY <1>4
  <2>2. ASSUME NEW i \in 1 .. Len(batch[s]) PROVE batch[s][i].leaf \in Leaf
    <3>1. batch[s][i] \in QueuedRow
      BY <1>4, ElementOfSeq
    <3> QED BY <3>1 DEF QueuedRow
  <2>3. leaves \in [1 .. Len(batch[s]) -> Leaf]
    BY <2>2
  <2> QED BY <2>1, <2>3
<1>6. Now(s) + 1 \in Int
  BY <1>1, RuntimeAssumption DEF Now, RestType
<1>7. root.hash \in Seq(Leaf) /\ root.rev \in Nat /\ root.size \in Nat
  BY <1>3 DEF HeadRow
<1> HIDE DEF root, leaves
<1>8. /\ root.hash \o leaves \in Seq(Leaf)
      /\ Len(root.hash \o leaves) = root.size + Len(batch[s])
      /\ \A i \in 1 .. root.size : (root.hash \o leaves)[i] = root.hash[i]
      /\ \A i \in 1 .. Len(batch[s]) : (root.hash \o leaves)[root.size + i] = leaves[i]
  <2>1. /\ root.hash \o leaves \in Seq(Leaf)
        /\ Len(root.hash \o leaves) = Len(root.hash) + Len(leaves)
        /\ \A i \in 1 .. Len(root.hash) + Len(leaves) :
              (root.hash \o leaves)[i] =
                  IF i <= Len(root.hash) THEN root.hash[i] ELSE leaves[i - Len(root.hash)]
    BY <1>5, <1>7, ConcatProperties
  <2>2. Len(batch[s]) \in Nat /\ Len(leaves) = Len(batch[s]) /\ Len(root.hash) = root.size
    BY <1>3, <1>4, <1>5
  <2>3. PICK both : both = root.hash \o leaves
    OBVIOUS
  <2>4. /\ both \in Seq(Leaf) /\ Len(both) = root.size + Len(batch[s])
        /\ \A i \in 1 .. root.size + Len(batch[s]) :
              both[i] = IF i <= root.size THEN root.hash[i] ELSE leaves[i - root.size]
    BY <2>1, <2>2, <2>3
  <2>5. ASSUME NEW i \in 1 .. root.size PROVE both[i] = root.hash[i]
    <3>1. i \in 1 .. root.size + Len(batch[s]) /\ i <= root.size
      BY <1>7, <2>2
    <3> QED BY <2>4, <3>1
  <2>6. ASSUME NEW i \in 1 .. Len(batch[s]) PROVE both[root.size + i] = leaves[i]
    <3>1. /\ root.size + i \in 1 .. root.size + Len(batch[s]) /\ ~(root.size + i <= root.size)
          /\ (root.size + i) - root.size = i
      BY <1>7, <2>2
    <3> QED BY <2>4, <3>1
  <2> QED BY <2>3, <2>4, <2>5, <2>6
<1>9. NewRoot(s) = [rev |-> root.rev + 1, ts |-> Now(s) + 1,
                    size |-> root.size + Len(batch[s]), hash |-> root.hash \o leaves]
  BY <1>2 DEF NewRoot, root, leaves
<1>10. Len(batch[s]) \in Nat
  BY <1>4
<1>11. NewRoot(s) \in HeadRow
  BY <1>6, <1>7, <1>8, <1>9, <1>10 DEF HeadRow
<1>12. Follows(NewRoot(s), root)
  BY <1>7, <1>8, <1>9, <1>10 DEF Follows
<1>13. \A i \in 1 .. Len(batch[s]) : NewRoot(s).hash[root.size + i] = batch[s][i].leaf
  <2>1. NewRoot(s).hash = root.hash \o leaves
    BY <1>9
  <2>2. \A i \in 1 .. Len(batch[s]) : leaves[i] = batch[s][i].leaf
    BY DEF leaves
  <2> QED BY <1>8, <2>1, <2>2
<1> QED BY <1>11, <1>12, <1>13 DEF root

LEMMA StoreRootInv ==
    ASSUME RInv, NEW s \in Signer, StoreRoot(s), UNCHANGED frontendVars
    PROVE  RInv'
<1>1. s \in Client /\ StorageType /\ RootsInv /\ RestType /\ TypeOK
  BY SequencerAssumption, RInvParts
<1>2. /\ tx[s].open = TRUE /\ pc[s] = "store" /\ tx[s] \in Transaction
      /\ tx[s].root # NoRoot /\ tx[s].heads = {}
      /\ tx[s].writeRevision = tx[s].root.rev + 1
  BY <1>1 DEF StoreRoot, TypeOK, Transaction, RInv, StepInv
<1>3. NewRoot(s) \in HeadRow /\ Follows(NewRoot(s), tx[s].root)
  BY <1>2, NewRootFollows
<1>4. StorageType' /\ Touches(s, TRUE)
  BY <1>1, <1>2, <1>3, StoreSignedLogRootType DEF StoreRoot
<1>5. RootsInv'
  BY <1>1, <1>2, <1>3, RInvParts, StoreRoots DEF StoreRoot
<1>6. tx'[s].root = tx[s].root /\ tx'[s].writeRevision = tx[s].writeRevision
  BY <1>1, <1>2 DEF StoreRoot, StoreSignedLogRoot, Transaction, StorageType
<1>7. RestType'
  BY <1>1 DEF StoreRoot, RestType, frontendVars, signerVars
<1>8. Goto(s, "commit") /\ "commit" \in Labels
  BY DEF StoreRoot, Labels
<1> QED
  BY <1>1, <1>2, <1>4, <1>5, <1>6, <1>7, <1>8, ClientStep

LEMMA CommitPassInv ==
    ASSUME RInv, NEW s \in Signer, CommitPass(s), UNCHANGED frontendVars
    PROVE  RInv'
<1>1. s \in Client /\ StorageType /\ RootsInv /\ RestType
  BY SequencerAssumption, RInvParts
<1>2. StorageType' /\ Touches(s, FALSE)
  BY <1>1, CommitType DEF CommitPass
<1>3. RootsInv' /\ tx'[s].heads = {}
  BY <1>1, CommitRoots DEF CommitPass
<1>4. failures' \in 0 .. MaxFailures
  BY <1>1, RuntimeAssumption DEF CommitPass, RestType
<1>5. start' \in [Signer -> Int] /\ batch' \in [Signer -> Seq(QueuedRow)]
  BY <1>1, DropLocalsType DEF CommitPass, RestType
<1>6. RestType'
  BY <1>1, <1>4, <1>5 DEF CommitPass, RestType, frontendVars
<1>7. PICK label \in {"idle", "replenish"} : Goto(s, label)
  BY DEF CommitPass
<1>8. label \in Labels
  BY DEF Labels
<1> QED
  BY <1>1, <1>2, <1>3, <1>6, <1>7, <1>8, ClientStep

\* The increase factor and the tokens for a batch are natural numbers.
LEMMA TokensType ==
    /\ quotaIncreaseFactor \in Nat
    /\ \A n \in Nat : Tokens(n) \in Nat
<1>1. quotaIncreaseFactor \in Nat
  BY SequencerAssumption DEF quotaIncreaseFactor
<1>2. ASSUME NEW n \in Nat PROVE Tokens(n) \in Nat
  <2>1. PICK k \in Nat : k = n * quotaIncreaseFactor
    BY <1>1
  <2>2. k \div 100 \in Nat
    OBVIOUS
  <2> QED BY <2>1, <2>2 DEF Tokens
<1> QED BY <1>1, <1>2

\* Steps that leave the storage alone while the client has no transaction open.
LEMMA ReplenishInv ==
    ASSUME RInv, NEW s \in Signer, Replenish(s), UNCHANGED frontendVars
    PROVE  RInv'
<1>1. s \in Client /\ StorageType /\ RootsInv /\ RestType /\ TypeOK
  BY SequencerAssumption, RInvParts
<1>2. db' = db /\ tx' = tx /\ pc[s] = "replenish"
  BY DEF Replenish, storageVars
<1>3. tx[s].open = FALSE /\ tx[s].heads = {}
  BY <1>1, <1>2 DEF TypeOK, Transaction, RInv, StepInv
<1>4. StorageType' /\ Touches(s, FALSE)
  BY <1>1, <1>2, <1>3 DEF StorageType, Touches
<1>5. RootsInv'
  BY <1>1, <1>2, <1>4, OtherWriteRoots DEF Touches
<1>6. replenished' \in Nat /\ failures' \in 0 .. MaxFailures
  <2>1. Len(batch[s]) \in Nat
    BY <1>1 DEF RestType
  <2>2. Tokens(Len(batch[s])) \in Nat
    BY <2>1, TokensType
  <2> QED BY <1>1, <2>2, RuntimeAssumption DEF Replenish, RestType
<1>7. RestType'
  BY <1>1, <1>6, DropLocalsType DEF Replenish, RestType, frontendVars
<1>8. Goto(s, "idle") /\ "idle" \in Labels
  BY DEF Replenish, Labels
<1> QED
  BY <1>1, <1>2, <1>3, <1>4, <1>5, <1>7, <1>8, ClientStep

LEMMA SignerFailsInv ==
    ASSUME RInv, NEW s \in Signer, SignerFails(s), UNCHANGED frontendVars
    PROVE  RInv'
<1>1. s \in Client /\ StorageType /\ RootsInv /\ RestType
  BY SequencerAssumption, RInvParts
<1>2. StorageType' /\ Touches(s, FALSE)
  BY <1>1, RollbackType DEF SignerFails, Fail
<1>3. RootsInv' /\ tx'[s].heads = {}
  BY <1>1, RollbackRoots DEF SignerFails, Fail
<1>4. failures' \in 0 .. MaxFailures
  BY <1>1, RuntimeAssumption DEF SignerFails, Fail, RestType
<1>5. RestType'
  BY <1>1, <1>4, DropLocalsType DEF SignerFails, Fail, RestType, frontendVars
<1>6. Goto(s, "idle") /\ "idle" \in Labels
  BY DEF SignerFails, Fail, Labels
<1> QED
  BY <1>1, <1>2, <1>3, <1>5, <1>6, ClientStep

LEMMA SignerActionInv ==
    ASSUME RInv, NEW s \in Signer, SignerAction(s)
    PROVE  RInv'
<1> UNCHANGED frontendVars
  BY DEF SignerAction
<1>1. CASE BeginPass(s)   BY <1>1, BeginPassInv
<1>2. CASE NeedsInit(s)   BY <1>2, ReturnInv DEF NeedsInit
<1>3. CASE Fetch(s)       BY <1>3, FetchInv
<1>4. CASE NothingToDo(s) BY <1>4, NothingToDoInv
<1>5. CASE Update(s)      BY <1>5, UpdateInv
<1>6. CASE StoreRoot(s)   BY <1>6, StoreRootInv
<1>7. CASE Conflict(s)    BY <1>7, ReturnInv DEF Conflict
<1>8. CASE CommitPass(s)  BY <1>8, CommitPassInv
<1>9. CASE Replenish(s)   BY <1>9, ReplenishInv
<1>10. CASE SignerFails(s) BY <1>10, SignerFailsInv
<1> QED
  BY <1>1, <1>2, <1>3, <1>4, <1>5, <1>6, <1>7, <1>8, <1>9, <1>10
  DEF SignerAction, SignerStep

-------------------------------------------------------------------------------
\* The steps of a server.

LEMMA FrontendParts ==
    ASSUME RInv, NEW f \in Frontend
    PROVE  /\ f \in Client /\ f \notin Signer
           /\ StorageType /\ RootsInv /\ RestType /\ TypeOK
           /\ tx[f] \in Transaction
BY LogRPCServerAssumption, ActorsAssumption, RInvParts DEF StorageType

LEMMA DropRequestType ==
    ASSUME RestType, NEW f \in Frontend, DropRequest(f)
    PROVE  /\ request' \in [Frontend -> Seq(Leaf)]
           /\ next' \in [Frontend -> Nat \ {0}]
           /\ queueTs' \in [Frontend -> Int]
           /\ existing' \in [Frontend -> SUBSET Nat]
BY DEF RestType, DropRequest

LEMMA BeginInitInv ==
    ASSUME RInv, NEW f \in Frontend, BeginInit(f), UNCHANGED signerVars
    PROVE  RInv'
<1>1. StorageType' /\ Touches(f, TRUE)
  BY FrontendParts, BeginTxType DEF BeginInit
<1>2. RootsInv' /\ tx'[f].heads = {}
  BY FrontendParts, BeginTxRoots DEF BeginInit
<1>3. RestType'
  BY FrontendParts DEF BeginInit, RestType, frontendVars, signerVars
<1>4. Goto(f, "init") /\ "init" \in Labels
  BY DEF BeginInit, Labels
<1> QED
  BY <1>1, <1>2, <1>3, <1>4, FrontendParts, ClientStep

LEMMA InitStoreInv ==
    ASSUME RInv, NEW f \in Frontend, InitStore(f), UNCHANGED signerVars
    PROVE  RInv'
<1>1. tx[f].open = TRUE /\ tx[f].heads = {} /\ tx[f].root = NoRoot
  BY FrontendParts DEF InitStore, TypeOK, Transaction, RInv, StepInv
<1>2. FirstRoot(f) \in HeadRow
  BY FrontendParts, RuntimeAssumption, EmptySeq DEF FirstRoot, HeadRow, Now, RestType
<1>3. Follows(FirstRoot(f), NoRoot)
  BY EmptySeq DEF FirstRoot, Follows, NoRoot
<1>4. StorageType' /\ Touches(f, TRUE)
  BY <1>1, <1>2, FrontendParts, StoreSignedLogRootType DEF InitStore
<1>5. RootsInv'
  BY <1>1, <1>2, <1>3, FrontendParts, RInvParts, StoreRoots DEF InitStore
<1>6. RestType'
  BY FrontendParts DEF InitStore, RestType, frontendVars, signerVars
<1>7. Goto(f, "initcommit") /\ "initcommit" \in Labels
  BY DEF InitStore, Labels
<1> QED
  BY <1>4, <1>5, <1>6, <1>7, FrontendParts, ClientStep

\* Every way of ending a handler with a rollback.
LEMMA AbandonInv ==
    ASSUME RInv, NEW f \in Frontend, Rollback(f), Goto(f, "idle"), RestType'
    PROVE  RInv'
<1>1. StorageType' /\ Touches(f, FALSE)
  BY FrontendParts, RollbackType
<1>2. RootsInv' /\ tx'[f].heads = {}
  BY FrontendParts, RollbackRoots
<1>3. "idle" \in Labels
  BY DEF Labels
<1> QED
  BY <1>1, <1>2, <1>3, FrontendParts, ClientStep

\* Every way of ending a handler with a commit.
LEMMA FinishInv ==
    ASSUME RInv, NEW f \in Frontend, Commit(f), Goto(f, "idle"), RestType'
    PROVE  RInv'
<1>1. StorageType' /\ Touches(f, FALSE)
  BY FrontendParts, CommitType
<1>2. RootsInv' /\ tx'[f].heads = {}
  BY FrontendParts, CommitRoots
<1>3. "idle" \in Labels
  BY DEF Labels
<1> QED
  BY <1>1, <1>2, <1>3, FrontendParts, ClientStep

LEMMA BeginQueueInv ==
    ASSUME RInv, NEW f \in Frontend, BeginQueue(f), UNCHANGED signerVars
    PROVE  RInv'
<1>1. StorageType' /\ Touches(f, TRUE)
  BY FrontendParts, BeginTxType DEF BeginQueue
<1>2. RootsInv' /\ tx'[f].heads = {}
  BY FrontendParts, BeginTxRoots DEF BeginQueue
<1>3. request' \in [Frontend -> Seq(Leaf)]
  <2>1. PICK leaves \in Requests : \E o \in Sorted(leaves) :
            request' = [request EXCEPT ![f] = o]
    BY DEF BeginQueue
  <2>2. PICK o \in Sorted(leaves) : request' = [request EXCEPT ![f] = o]
    BY <2>1
  <2>3. PICK n \in 1 .. MaxRequest : leaves \in [1 .. n -> Leaf]
    BY DEF Requests
  <2>4. n \in Nat /\ Len(leaves) = n
    BY <2>3, LogRPCServerAssumption
  <2>5. o \in [1 .. n -> Leaf]
    BY <2>4 DEF Sorted
  <2>6. o \in Seq(Leaf)
    BY <2>4, <2>5
  <2> QED BY <2>2, <2>6, FrontendParts DEF RestType
<1>4. Now(f) \in Int
  BY FrontendParts, RuntimeAssumption DEF Now, RestType
<1>5. RestType'
  BY <1>3, <1>4, FrontendParts DEF BeginQueue, RestType, signerVars
<1>6. PICK label \in {"leaked", "insert"} : Goto(f, label)
  BY DEF BeginQueue
<1>7. label \in Labels
  BY DEF Labels
<1> QED
  BY <1>1, <1>2, <1>5, <1>6, <1>7, FrontendParts, ClientStep

\* Inserting a leaf does not move the program counter, which ClientStep takes as a
\* move to the label it is at.
LEMMA InsertNextInv ==
    ASSUME RInv, NEW f \in Frontend, InsertNext(f), UNCHANGED signerVars
    PROVE  RInv'
<1>1. /\ pc[f] = "insert" /\ pc' = pc /\ "insert" \in Labels
      /\ next[f] \in 1 .. Len(request[f])
      /\ request[f] \in Seq(Leaf) /\ queueTs[f] \in Int /\ next[f] \in Nat
  BY FrontendParts DEF InsertNext, runtimeVars, RestType, Labels
<1>2. request[f][next[f]] \in Leaf
  BY <1>1, ElementOfSeq
<1>3. tx[f].open = TRUE /\ tx[f].heads = {}
  BY <1>1, FrontendParts DEF TypeOK, Transaction, RInv, StepInv
<1>4. Goto(f, "insert")
  BY <1>1, FrontendParts DEF Goto, TypeOK
<1>5. RestType'
  <2>1. existing' \in [Frontend -> SUBSET Nat]
    BY <1>1, FrontendParts DEF InsertNext, RestType
  <2>2. next' \in [Frontend -> Nat \ {0}]
    BY <1>1, FrontendParts DEF InsertNext, RestType
  <2> QED
    BY <2>1, <2>2, FrontendParts DEF InsertNext, RestType, runtimeVars, signerVars
<1>6. CASE UNCHANGED storageVars
  <2>1. StorageType' /\ Touches(f, TRUE)
    BY <1>3, <1>6, FrontendParts DEF StorageType, Touches, storageVars
  <2>2. RootsInv'
    BY <1>6, <2>1, FrontendParts, OtherWriteRoots DEF Touches, storageVars
  <2>3. tx'[f].heads = {}
    BY <1>3, <1>6 DEF storageVars
  <2> QED
    BY <1>1, <1>4, <1>5, <2>1, <2>2, <2>3, FrontendParts, ClientStep
<1>7. CASE InsertLeaf(f, request[f][next[f]], queueTs[f])
  <2>1. StorageType' /\ Touches(f, TRUE)
    BY <1>1, <1>2, <1>3, <1>7, FrontendParts, InsertLeafType
  <2>2. db' = db /\ tx'[f].root = tx[f].root /\ tx'[f].heads = tx[f].heads
    BY <1>7, FrontendParts DEF InsertLeaf, Transaction, StorageType
  <2>3. RootsInv'
    BY <2>1, <2>2, FrontendParts, OtherWriteRoots DEF Touches
  <2> QED
    BY <1>1, <1>3, <1>4, <1>5, <2>1, <2>2, <2>3, FrontendParts, ClientStep
<1> QED
  BY <1>6, <1>7 DEF InsertNext

LEMMA RetrieveExistingInv ==
    ASSUME RInv, NEW f \in Frontend, RetrieveExisting(f), UNCHANGED signerVars
    PROVE  RInv'
<1>1. pc[f] = "insert" /\ db' = db /\ tx' = tx
  BY DEF RetrieveExisting, storageVars
<1>2. tx[f].open = TRUE /\ tx[f].heads = {}
  BY <1>1, FrontendParts DEF TypeOK, Transaction, RInv, StepInv
<1>3. StorageType' /\ Touches(f, TRUE)
  BY <1>1, <1>2, FrontendParts DEF StorageType, Touches
<1>4. RootsInv'
  BY <1>1, <1>3, FrontendParts, OtherWriteRoots DEF Touches
<1>5. RestType'
  BY FrontendParts DEF RetrieveExisting, RestType, frontendVars, signerVars
<1>6. PICK label \in {"ack", "leaked"} : Goto(f, label)
  BY DEF RetrieveExisting
<1>7. label \in Labels
  BY DEF Labels
<1> QED
  BY <1>1, <1>2, <1>3, <1>4, <1>5, <1>6, <1>7, FrontendParts, ClientStep

LEMMA FrontendActionInv ==
    ASSUME RInv, NEW f \in Frontend, FrontendAction(f)
    PROVE  RInv'
<1> UNCHANGED signerVars
  BY DEF FrontendAction
<1>1. CASE BeginInit(f)        BY <1>1, BeginInitInv
<1>2. CASE InitStore(f)        BY <1>2, InitStoreInv
<1>3. CASE InitRefused(f)
  <2>1. RestType'
    BY <1>3, FrontendParts DEF InitRefused, RestType, frontendVars, signerVars
  <2> QED BY <1>3, <2>1, AbandonInv DEF InitRefused
<1>4. CASE InitCommit(f)
  <2>1. RestType'
    BY <1>4, FrontendParts DEF InitCommit, RestType, frontendVars, signerVars
  <2> QED BY <1>4, <2>1, FinishInv DEF InitCommit
<1>5. CASE BeginQueue(f)       BY <1>5, BeginQueueInv
<1>6. CASE InsertNext(f)       BY <1>6, InsertNextInv
<1>7. CASE RetrieveExisting(f) BY <1>7, RetrieveExistingInv
<1>8. CASE CommitQueue(f)
  <2>1. request[f] \in Seq(Leaf)
    BY FrontendParts DEF RestType
  <2>2. \A i \in 1 .. Len(request[f]) : request[f][i] \in Leaf
    BY <2>1, ElementOfSeq
  <2>3. {request[f][i] : i \in 1 .. Len(request[f])} \subseteq Leaf
    BY <2>2
  <2>3a. acked' \in SUBSET Leaf
    BY <1>8, <2>3, FrontendParts DEF CommitQueue, RestType
  <2>3b. failures' \in 0 .. MaxFailures
    BY <1>8, FrontendParts, RuntimeAssumption DEF CommitQueue, RestType
  <2>4. RestType'
    BY <1>8, <2>3a, <2>3b, FrontendParts, DropRequestType DEF CommitQueue, RestType, signerVars
  <2> QED BY <1>8, <2>4, FinishInv DEF CommitQueue
<1>9. CASE ContextDone(f)
  <2>1. RestType'
    BY <1>9, FrontendParts, DropRequestType DEF ContextDone, RestType, signerVars
  <2> QED BY <1>9, <2>1, AbandonInv DEF ContextDone
<1>10. CASE FrontendFails(f)
  <2>1. failures' \in 0 .. MaxFailures
    BY <1>10, FrontendParts, RuntimeAssumption DEF FrontendFails, Fail, RestType
  <2>2. RestType'
    BY <1>10, <2>1, FrontendParts, DropRequestType
    DEF FrontendFails, Fail, RestType, signerVars
  <2> QED BY <1>10, <2>2, AbandonInv DEF FrontendFails, Fail
<1> QED
  BY <1>1, <1>2, <1>3, <1>4, <1>5, <1>6, <1>7, <1>8, <1>9, <1>10
  DEF FrontendAction, FrontendStep

-------------------------------------------------------------------------------
\* Initially there is nothing.
LEMMA InitInv == Init => RInv
<1> SUFFICES ASSUME Init PROVE RInv
  OBVIOUS
<1> USE DEF Init, StorageInit, RuntimeInit, SequencerInit, LogRPCServerInit
<1>1. \A c \in Client : tx[c] = NoTransaction
  OBVIOUS
<1>2. db.TreeHead = {}
  BY DEF EmptyTables
<1>3. TypeOK
  BY EmptyTypes, EmptySeq, RuntimeAssumption, <1>1 DEF TypeOK, Labels, NoTransaction
<1>4. StepInv
  BY <1>1, SequencerAssumption, NoTransactionRoots DEF StepInv
<1>5. RootsInv
  BY <1>1, <1>2, NoTransactionRoots
  DEF RootsInv, ReadRootsKept, PendingRoots, RevisionsDense, SizesRight, RootsConsistent
<1> QED BY <1>3, <1>4, <1>5 DEF RInv

LEMMA UnchangedInv ==
    ASSUME RInv, UNCHANGED <<storageVars, pc>>, RestType'
    PROVE  RInv'
<1>1. db' = db /\ tx' = tx /\ pc' = pc
  BY DEF storageVars
<1> QED
  BY <1>1 DEF RInv, TypeOK, RestType, StepInv, RootsInv, ReadRootsKept, PendingRoots,
              RevisionsDense, SizesRight, RootsConsistent

LEMMA NextInv == RInv /\ [Next]_vars => RInv'
<1> SUFFICES ASSUME RInv, [Next]_vars PROVE RInv'
  OBVIOUS
<1>1. CASE \E s \in Signer : SignerAction(s)
  BY <1>1, SignerActionInv
<1>2. CASE \E f \in Frontend : FrontendAction(f)
  BY <1>2, FrontendActionInv
<1>3. CASE Tick /\ UNCHANGED <<signerVars, frontendVars>>
  <2>1. RestType'
    BY <1>3, RInvParts DEF Tick, RestType, signerVars, frontendVars
  <2> QED BY <1>3, <2>1, UnchangedInv DEF Tick
<1>4. CASE UNCHANGED vars
  <2>1. RestType'
    BY <1>4, RInvParts DEF vars, RestType, runtimeVars, signerVars, frontendVars
  <2> QED BY <1>4, <2>1, UnchangedInv DEF vars, runtimeVars
<1> QED BY <1>1, <1>2, <1>3, <1>4 DEF Next

\* The invariant holds in every behaviour of the log.
THEOREM RootsInvariance == Spec => []RInv
BY InitInv, NextInv, PTL DEF Spec

\* Every variable keeps its type, whatever the servers, the signers and their
\* failures do (LogStorage, Sequencer, LogRPCServer).
THEOREM TypeCorrect == Spec => []TypeOK
<1>1. RInv => TypeOK
  BY DEF RInv
<1> QED BY <1>1, RootsInvariance, PTL

\* Any number of signers, with any clocks, crashing anywhere, never sign two roots
\* that are inconsistent or have the same revision (log/sequencer.go, IntegrateBatch).
THEOREM RootsAlwaysConsistent == Spec => []RootsConsistent
<1>1. RInv => RootsConsistent
  BY DEF RInv, RootsInv
<1> QED BY <1>1, RootsInvariance, PTL

===============================================================================
