------------------------------ MODULE LogStorage ------------------------------
(***************************************************************************)
(* The MySQL storage of one log tree (storage/mysql): its five tables and  *)
(* the transactions a logTreeTX runs on them.                              *)
(*                                                                         *)
(* A table is a set of rows and is only changed by a commit.  The server's *)
(* isolation level is InnoDB's default, REPEATABLE READ: a transaction     *)
(* reads the tables as they were when it began (tx[c].snap), but writes to *)
(* the current rows: an insert is checked against the committed keys, a    *)
(* delete counts the committed rows it removes, and a row that another     *)
(* open transaction has written is locked until that transaction ends.     *)
(*                                                                         *)
(* A leaf stands for its identity hash; the integers are ordered as the    *)
(* hashes are.  The hash of a tree is the sequence of its leaves, which is *)
(* what a collision-free hash can tell apart.  Of the Merkle nodes only    *)
(* the leaf level is kept: the other levels are functions of it.           *)
(***************************************************************************)
EXTENDS Integers, Sequences

CONSTANTS Leaf,      \* the leaves clients may submit
          Client     \* the goroutines that open transactions

ASSUME LeafAssumption == Leaf \subseteq Int

VARIABLES db,        \* the committed rows of each table
          tx         \* the transaction each client has open, if any

storageVars == <<db, tx>>

\* The rows of Unsequenced, SequencedLeafData, Subtree and TreeHead.  (A row of
\* LeafData is the leaf itself.)
QueuedRow    == [leaf : Leaf, ts : Int]
SequencedRow == [seq : Nat, leaf : Leaf]
NodeRow      == [index : Nat, rev : Int, leaf : Leaf]
HeadRow      == [rev : Nat, ts : Int, size : Nat, hash : Seq(Leaf)]

Tables == [LeafData          : SUBSET Leaf,
           Unsequenced       : SUBSET QueuedRow,
           SequencedLeafData : SUBSET SequencedRow,
           Subtree           : SUBSET NodeRow,
           TreeHead          : SUBSET HeadRow]

EmptyTables == [LeafData |-> {}, Unsequenced |-> {}, SequencedLeafData |-> {},
                Subtree |-> {}, TreeHead |-> {}]

\* The zero SignedLogRoot of a log without tree heads; the code recognises it by
\* its nil RootHash, the model by its revision.
NoRoot == [rev |-> -1, ts |-> 0, size |-> 0, hash |-> << >>]

\* A transaction: its snapshot, the root read when it began, its write revision,
\* the rows it deleted from Unsequenced, the rows it inserted into LeafData,
\* Unsequenced, SequencedLeafData and TreeHead, and the nodes that wait in its
\* subtree cache.
Transaction == [open : BOOLEAN, snap : Tables, root : HeadRow \cup {NoRoot},
                writeRevision : Int, deleted : SUBSET QueuedRow,
                leaves : SUBSET Leaf, queued : SUBSET QueuedRow,
                sequenced : SUBSET SequencedRow, heads : SUBSET HeadRow,
                nodes : SUBSET NodeRow]

NoTransaction == [open |-> FALSE, snap |-> EmptyTables, root |-> NoRoot,
                  writeRevision |-> -1, deleted |-> {}, leaves |-> {}, queued |-> {},
                  sequenced |-> {}, heads |-> {}, nodes |-> {}]

StorageInit == db = EmptyTables /\ tx = [c \in Client |-> NoTransaction]

-------------------------------------------------------------------------------
\* What a transaction reads.

\* selectLatestSignedLogRootSQL: the head with the highest timestamp, which need
\* not be the one with the highest revision.
Latest(heads) == {h \in heads : \A g \in heads : g.ts <= h.ts}

LatestRoot(tables) ==
    IF Latest(tables.TreeHead) = {} THEN NoRoot
    ELSE CHOOSE h \in Latest(tables.TreeHead) : TRUE

\* The leaf-level node at an index as GetMerkleNodes returns it at a revision: the
\* newest row that is not newer than the revision.
NodeAt(tables, index, rev) ==
    {n \in tables.Subtree :
        /\ n.index = index
        /\ n.rev <= rev
        /\ \A m \in tables.Subtree : m.index = index /\ m.rev <= rev => m.rev <= n.rev}

\* The nodes of a tree of the given size, read at a revision, are those of `hash'.
NodesMatch(tables, size, rev, hash) ==
    \A i \in 1 .. size :
        \E n \in NodeAt(tables, i - 1, rev) : n.leaf = hash[i]

\* selectQueuedLeavesSQL: ORDER BY QueueTimestampNanos, LeafIdentityHash.
QueuedBefore(r, q) == r.ts < q.ts \/ (r.ts = q.ts /\ r.leaf < q.leaf)

\* The batches ORDER BY ... LIMIT can return from a set of rows: the first rows,
\* in order, as many as there are up to the limit.
FirstRows(rows, limit) ==
    {b \in UNION {[1 .. n -> rows] : n \in 0 .. limit} :
        LET taken == {b[i] : i \in 1 .. Len(b)}
        IN  /\ \A i, j \in 1 .. Len(b) : i < j => QueuedBefore(b[i], b[j])
            /\ \A r \in rows \ taken : \A q \in taken : QueuedBefore(q, r)
            /\ Len(b) = limit \/ rows \subseteq taken}

-------------------------------------------------------------------------------
\* Beginning and ending transactions.

\* beginInternal: the snapshot, the latest root, and the revision to write at.
BeginTx(c) ==
    LET root == LatestRoot(db)
    IN  /\ ~tx[c].open
        /\ tx' = [tx EXCEPT ![c] =
                    [NoTransaction EXCEPT
                        !.open = TRUE,
                        !.snap = db,
                        !.root = root,
                        !.writeRevision = IF root = NoRoot THEN -1 ELSE root.rev + 1]]
        /\ db' = db

\* Close (or Rollback) of an open transaction: its writes and locks are gone.
Rollback(c) ==
    /\ tx' = [tx EXCEPT ![c] = NoTransaction]
    /\ db' = db

\* Commit flushes the subtree cache (storeSubtrees, unless the write revision is
\* -1); the primary key of Subtree makes the flush fail if one of the rows is there.
FlushOK(c) ==
    \A n \in tx[c].nodes, m \in db.Subtree : ~(n.index = m.index /\ n.rev = m.rev)

Commit(c) ==
    LET t == tx[c]
    IN  /\ FlushOK(c)
        /\ db' = [LeafData          |-> db.LeafData \cup t.leaves,
                  Unsequenced       |-> (db.Unsequenced \ t.deleted) \cup t.queued,
                  SequencedLeafData |-> db.SequencedLeafData \cup t.sequenced,
                  Subtree           |-> db.Subtree \cup t.nodes,
                  TreeHead          |-> db.TreeHead \cup t.heads]
        /\ tx' = [tx EXCEPT ![c] = NoTransaction]

-------------------------------------------------------------------------------
\* The statements that write.  For each: the clients whose locks it waits for,
\* whether it succeeds, and what it adds to the transaction.

Others(c) == {d \in Client \ {c} : tx[d].open}

\* DequeueLeaves deletes each row it returns (removeSequencedLeaves), and every
\* delete has to remove exactly one row.
DeleteWaitsFor(c, rows) == {d \in Others(c) : tx[d].deleted \cap rows # {}}
DeleteOK(rows)          == rows \subseteq db.Unsequenced

\* Mutant: the dequeued rows stay in the queue.
DeleteNothing(c, rows) == UNCHANGED storageVars

DeleteQueued(c, rows)   ==
    /\ tx' = [tx EXCEPT ![c].deleted = @ \cup rows]
    /\ db' = db

\* UpdateSequencedLeaves; the primary key is the sequence number.  A leaf's other
\* writes wait in the subtree cache (SetMerkleNodes) and are made in the same step.
SameSeq(rows, others)     == \E r \in rows, q \in others : r.seq = q.seq
SequencedWaitsFor(c, rows) ==
    {d \in Others(c) : SameSeq(rows, tx[d].sequenced)}
SequencedOK(rows)          == ~SameSeq(rows, db.SequencedLeafData)
InsertSequenced(c, rows, nodes) ==
    LET t == [tx[c] EXCEPT !.sequenced = @ \cup rows, !.nodes = @ \cup nodes]
    IN  /\ tx' = [tx EXCEPT ![c] = t]
        /\ db' = db

\* StoreSignedLogRoot; the timestamp is the primary key of TreeHead and the
\* revision has a unique index.

\* Mutant: no unique index on the revision.
TimestampClash(head, others) == \E g \in others : g.ts = head.ts

HeadClash(head, others) == \E g \in others : g.rev = head.rev \/ g.ts = head.ts
HeadWaitsFor(c, head)   == {d \in Others(c) : HeadClash(head, tx[d].heads)}
HeadOK(head)            == ~HeadClash(head, db.TreeHead)
StoreSignedLogRoot(c, head) ==
    /\ tx' = [tx EXCEPT ![c].heads = @ \cup {head}]
    /\ db' = db

\* The two inserts QueueLeaves makes for a new leaf; the identity hash is the
\* primary key of LeafData.
LeafWaitsFor(c, leaf)  == {d \in Others(c) : leaf \in tx[d].leaves}
LeafExists(c, leaf)    == leaf \in db.LeafData \cup tx[c].leaves
InsertLeaf(c, leaf, ts) ==
    LET t == [tx[c] EXCEPT !.leaves = @ \cup {leaf},
                           !.queued = @ \cup {[leaf |-> leaf, ts |-> ts]}]
    IN  /\ tx' = [tx EXCEPT ![c] = t]
        /\ db' = db

-----------------------------------------------------------------------------
(* What the servers that work on the storage of a log share: where each goroutine is
   in its handler, the clock each of them reads, and the failures that may end a
   handler early. *)

CONSTANTS Skew,          \* how far the clock of a client's host is off
          MaxTime,       \* bound: the clock stops ticking by itself here
          MaxFailures    \* bound: how many crashes and lost answers may happen

ASSUME RuntimeAssumption ==
    /\ Skew \in [Client -> Int]
    /\ MaxTime \in Nat
    /\ MaxFailures \in Nat

VARIABLES pc,            \* pc[c] is the next step of the client's handler
          now,           \* true time
          failures       \* the failures so far

runtimeVars == <<pc, now, failures>>

RuntimeInit ==
    /\ pc = [c \in Client |-> "idle"]
    /\ now = 0
    /\ failures = 0

\* timeSource.Now() of the client's host.
Now(c) == now + Skew[c]

Goto(c, label) == pc' = [pc EXCEPT ![c] = label]

\* Time passes.  Reading the clock for the timestamp of a tree head advances it
\* too, see StoreRoot in the modules of the two servers.
Tick ==
    /\ now < MaxTime
    /\ now' = now + 1
    /\ UNCHANGED <<storageVars, pc, failures>>

\* A handler that has a transaction open dies: the process crashes, the database
\* or the signing key answers with an error, a lock wait times out, or the context
\* is cancelled.  Its transaction is rolled back, by the deferred Close or by the
\* database when the connection is lost.
Fail(c) ==
    /\ failures < MaxFailures
    /\ tx[c].open
    /\ Rollback(c)
    /\ failures' = failures + 1
    /\ Goto(c, "idle")
    /\ now' = now

===============================================================================
