----------------------------- MODULE MemoryStorage -----------------------------
(***************************************************************************)
(* The storage in memory that the in-process integration tests and         *)
(* dump_tree use (package storage/memory).  A tree is a B-tree of items, a *)
(* lock and the timestamp of its latest root.  A transaction holds the     *)
(* tree's lock, works on a clone of the B-tree and puts the clone in its   *)
(* place when it commits.                                                  *)
(*                                                                         *)
(* The clone is shallow: the list of unsequenced leaves and the map from   *)
(* hashes to indices are the same objects in the clone and in the tree, so *)
(* `unseq', `h2s' and `currentSTH' are state of the tree and not of the    *)
(* transaction.  One tree is followed; the others share only the lock of   *)
(* the map of trees with it.                                               *)
(*                                                                         *)
(* A root's hash is the sequence of leaves it commits to, and the stored   *)
(* subtrees of a revision are the leaves whose hashes they hold.           *)
(***************************************************************************)
EXTENDS Integers, Sequences, FiniteSets, FiniteSetsExt, Functions

CONSTANTS Frontend,     \* threads that serve calls of the log and admin API
          Sequencer,    \* the workers of the signers' operation managers
          Leaf,         \* the leaves clients queue
          BadLeaf,      \* one of them, whose identity hash has a wrong length
          BatchSize,    \* the limit of a sequencer's pass
          MaxRootDuration, \* the interval after which a pass signs without leaves
          MaxCalls,     \* bound: calls of a process
          MaxTrees,     \* bound: trees
          MaxTime,      \* bound: the clock
          MaxFaults,    \* bound: signatures that fail
          DumpSizes,    \* the sizes dump_tree is run with
          DumpBatches   \* and its batch sizes

Driver == "dump"
Proc == Frontend \cup Sequencer \cup {Driver}

ASSUME SizesAssumption ==
    /\ BatchSize \in Nat \ {0} /\ DumpSizes \subseteq Nat /\ DumpBatches \subseteq Nat \ {0}
    /\ MaxTime \in Nat \ {0} /\ MaxFaults \in Nat /\ MaxRootDuration \in Nat
    /\ Driver \notin Frontend \cup Sequencer

VARIABLES trees,      \* memoryTreeStorage.trees: how many trees there are
          state,      \* tree.meta.TreeState
          store,      \* tree.store: sequenced leaves, roots by timestamp, subtrees
          unseq,      \* the unsequenced leaves, in the tree and in every clone of it
          h2s,        \* the indices of each leaf hash, in the tree and its clones
          currentSTH, \* tree.currentSTH
          mu,         \* memoryTreeStorage.mu
          lock,       \* tree.mu
          pc, tx,     \* what each process does, and its transaction
          calls, now, faults,
          acked,      \* ghost: acknowledged leaves, in order, and whether they were in
                      \* the batch of a pass that failed
          misuse,     \* ghost: a leaf or a snapshot was asked of a tree without a
                      \* root, or a malformed leaf was queued
          dump        \* the arguments and the progress of dump_tree

vars == <<trees, state, store, unseq, h2s, currentSTH, mu, lock, pc, tx, calls,
          now, faults, acked, misuse, dump>>

content == <<state, store, unseq, h2s, currentSTH, acked>>

Free == [writer |-> {}, readers |-> {}, waiting |-> {}]

NoRoot == [size |-> -1, rev |-> -1, time |-> -1, hash |-> << >>]

EmptyStore == [seq |-> << >>, sth |-> << >>, subtrees |-> << >>]

NoTX == [store |-> EmptyStore, root |-> NoRoot, writeRevision |-> -1, batch |-> << >>]

NoDump == [size |-> 0, batch |-> 0, next |-> 0, step |-> "off", want |-> 0]

-------------------------------------------------------------------------------
\* sync.RWMutex: a writer that waits keeps new readers out.
CanRLock(l) == l.writer = {} /\ l.waiting = {}

\* Mutant of CanLock: a writer does not wait for the readers.
CanLockOverReaders(l) == l.writer = {}

CanLock(l) == l.writer = {} /\ l.readers = {}

RLock(l, p) == [l EXCEPT !.readers = @ \cup {p}]

Wait(l, p) == [l EXCEPT !.waiting = @ \cup {p}]

Lock(l, p) == [l EXCEPT !.waiting = @ \ {p}, !.writer = {p}]

Unlock(l, p) == [l EXCEPT !.writer = @ \ {p}, !.readers = @ \ {p}]

\* Functions stand for the ranges of keys of the B-tree.
ReplaceOrInsert(f, k, v) == [x \in DOMAIN f \cup {k} |-> IF x = k THEN v ELSE f[x]]

\* What a function has at the given places, in their order.
Rank(places, k) == Cardinality({j \in places : j <= k})

Picked(f, places) ==
    [i \in 1 .. Cardinality(places) |-> f[CHOOSE k \in places : Rank(places, k) = i]]

\* GetLeavesByRange skips the indices that are not there.
GetLeavesByRange(s, start, count) ==
    Picked(s.seq, DOMAIN s.seq \cap start .. start + count - 1)

\* getSubtrees: the newest subtrees at or below a revision.
getSubtrees(s, rev) ==
    LET revs == {r \in DOMAIN s.subtrees : r \in 0 .. rev}
    IN  IF revs = {} THEN << >> ELSE s.subtrees[Max(revs)]

fetchLatestRoot(s) ==
    IF currentSTH \in DOMAIN s.sth THEN s.sth[currentSTH] ELSE NoRoot

StoreSignedLogRoot(s, root) ==
    [s EXCEPT !.sth = ReplaceOrInsert(@, root.time, root)]

\* The leaves of a batch get consecutive indices from the tree's size.
Sequenced(s, size, batch) ==
    [s EXCEPT !.seq = [i \in DOMAIN @ \cup size .. size + Len(batch) - 1 |->
                          IF i < size THEN @[i] ELSE batch[i - size + 1]]]

\* Mutant of Remaining: every element with a hash of the batch is removed.
RemainingOthers(q, batch) == Picked(q, {i \in 1 .. Len(q) : q[i] \notin Range(batch)})

\* Queue elements are removed by their hash, the oldest first, as often as the
\* hash occurs in the batch.
Places(q, n, x) == {i \in 1 .. n : q[i] = x}

Remaining(q, batch) ==
    Picked(q, {i \in 1 .. Len(q) : Cardinality(Places(q, i, q[i]))
                                      > Cardinality(Places(batch, Len(batch), q[i]))})

-------------------------------------------------------------------------------
\* The end of a transaction.  The driver looks at its last one afterwards.
Done(p) ==
    /\ pc' = [pc EXCEPT ![p] = "idle"]
    /\ tx' = IF p = Driver THEN tx ELSE [tx EXCEPT ![p] = NoTX]

\* Commit puts the clone in the place of the tree, Rollback forgets it; both unlock.
Commit(p, s) ==
    /\ store' = s
    /\ lock' = Unlock(lock, p)
    /\ Done(p)

\* Mutant of Rollback: the tree stays locked.
RollbackLocked(p) == lock' = lock /\ Done(p)

Rollback(p) ==
    /\ lock' = Unlock(lock, p)
    /\ Done(p)

\* The error returns of QueueLeaves and SnapshotForTree neither commit nor roll
\* back: the lock stays taken.
ReturnLocked(p) ==
    /\ misuse' = TRUE
    /\ Done(p)

Ops(p) == CASE p \in Frontend -> {"create", "update", "count", "init", "queue", "read"}
            [] p \in Sequencer -> {"pass"}
            [] p = Driver -> {}

Writes == {"init", "zero", "queue", "pass"}

\* trees.GetTree reads the meta under a read lock and refuses writes to a frozen tree.
GetTree(op) ==
    /\ CanRLock(mu) /\ CanRLock(lock)
    /\ op \notin Writes \/ state # "FROZEN"

\* A call that uses a transaction starts with GetTree.
CallTX(p, op) ==
    /\ pc[p] = "idle" /\ trees > 0
    /\ GetTree(op)
    /\ pc' = [pc EXCEPT ![p] = op]
    /\ UNCHANGED <<content, trees, mu, lock, tx, now, faults, misuse>>

Counted(p) ==
    /\ calls[p] < MaxCalls
    /\ calls' = [calls EXCEPT ![p] = @ + 1]

Call(p) ==
    /\ dump.step = "off"
    /\ Counted(p)
    /\ \E op \in Ops(p) \ {"create", "update", "count"} : CallTX(p, op)
    /\ UNCHANGED dump

\* beginTreeTX asks for the tree's lock.
beginTreeTX(p) ==
    /\ pc[p] \in Writes /\ p \notin lock.waiting \cup lock.writer
    /\ CanRLock(mu)
    /\ lock' = Wait(lock, p)
    /\ UNCHANGED <<content, trees, mu, pc, tx, calls, now, faults, misuse, dump>>

\* beginInternal once the lock is there: the clone, and the latest root in it.
Begun(p) ==
    LET root == fetchLatestRoot(store)
    IN  tx' = [tx EXCEPT ![p] =
            [store |-> store, root |-> root, batch |-> << >>,
             writeRevision |-> IF root = NoRoot THEN -1 ELSE root.rev + 1]]

BeginWrite(p) ==
    /\ pc[p] \in Writes /\ p \in lock.waiting
    /\ CanLock(lock)
    /\ lock' = Lock(lock, p)
    /\ IF pc[p] = "queue" /\ fetchLatestRoot(store) = NoRoot
       THEN ReturnLocked(p)
       ELSE Begun(p) /\ UNCHANGED <<pc, misuse>>
    /\ UNCHANGED <<content, trees, mu, calls, now, faults, dump>>

BeginRead(p) ==
    /\ pc[p] = "read"
    /\ CanRLock(mu) /\ CanRLock(lock)
    /\ lock' = RLock(lock, p)
    /\ IF fetchLatestRoot(store) = NoRoot
       THEN ReturnLocked(p)
       ELSE Begun(p) /\ pc' = [pc EXCEPT ![p] = "in_read"] /\ UNCHANGED misuse
    /\ UNCHANGED <<content, trees, mu, calls, now, faults, dump>>

\* A reader's Commit also puts its clone in the place of the tree.
Read(p) ==
    /\ pc[p] = "in_read"
    /\ Commit(p, tx[p].store)
    /\ UNCHANGED <<trees, state, unseq, h2s, currentSTH, mu, calls, now, faults, acked,
                   misuse, dump>>

-------------------------------------------------------------------------------
\* A new root is stored and becomes the latest unless the latest has a later time.
Signed(p, s, root) ==
    /\ currentSTH' = Max({currentSTH, root.time})
    /\ Commit(p, StoreSignedLogRoot(s, root))

\* InitLog, and dump_tree's createTree, which stores the first root with time 0.
InitRoot(time) == [size |-> 0, rev |-> 0, time |-> time, hash |-> << >>]

InitLog(p) ==
    /\ pc[p] = "init" /\ p \in lock.writer
    /\ \/ /\ tx[p].root = NoRoot
          /\ Signed(p, tx[p].store, InitRoot(now))
          /\ UNCHANGED faults
       \/ /\ tx[p].root # NoRoot
          /\ Rollback(p)
          /\ UNCHANGED <<store, currentSTH, faults>>
       \/ /\ tx[p].root = NoRoot /\ faults < MaxFaults
          /\ faults' = faults + 1
          /\ Rollback(p)
          /\ UNCHANGED <<store, currentSTH>>
    /\ UNCHANGED <<trees, state, unseq, h2s, mu, calls, now, acked, misuse, dump>>

createTree(p) ==
    /\ pc[p] = "zero" /\ p \in lock.writer
    /\ Signed(p, tx[p].store, InitRoot(0))
    /\ UNCHANGED <<trees, state, unseq, h2s, mu, calls, now, faults, acked, misuse, dump>>

\* QueueLeaves appends to the shared list; nothing is deduplicated.
QueueLeaves(p) ==
    /\ pc[p] = "queue" /\ p \in lock.writer
    /\ \E leaf \in IF p = Driver THEN {dump.next} ELSE Leaf :
          IF leaf = BadLeaf
          THEN ReturnLocked(p) /\ UNCHANGED <<store, lock, unseq, acked>>
          ELSE /\ unseq' = Append(unseq, leaf)
               /\ acked' = Append(acked, [leaf |-> leaf, dropped |-> FALSE])
               /\ Commit(p, tx[p].store)
               /\ UNCHANGED misuse
    /\ UNCHANGED <<trees, state, h2s, currentSTH, mu, calls, now, faults, dump>>

Limit(p) == IF p = Driver THEN dump.batch ELSE BatchSize

\* A pass without leaves signs a new root only when the latest is old enough.
\* dump_tree's first root has time 0, longer ago than its interval of a day; the others
\* are not.
Due(p) == \/ p = Driver /\ tx[p].root.time = 0
          \/ p # Driver /\ MaxRootDuration # 0 /\ now - tx[p].root.time >= MaxRootDuration

\* initMerkleTreeFromStorage: the nodes of the root's revision give its hash.
TreeLoads(p) ==
    LET root == tx[p].root IN root.size > 0 => getSubtrees(tx[p].store, root.rev) = root.hash

\* The first half of IntegrateBatch: the root, DequeueLeaves (which does not look
\* at the cutoff time) and the compact tree.
DequeueLeaves(p) ==
    /\ pc[p] = "pass" /\ p \in lock.writer
    /\ LET batch == SubSeq(unseq, 1, Min({Limit(p), Len(unseq)}))
           nothing == batch = << >> /\ ~Due(p)
       IN  \/ /\ ~(tx[p].root # NoRoot /\ (nothing \/ TreeLoads(p)))
              /\ Rollback(p)
              /\ UNCHANGED store
           \/ /\ tx[p].root # NoRoot /\ nothing
              /\ Commit(p, tx[p].store)
           \/ /\ tx[p].root # NoRoot /\ ~nothing /\ TreeLoads(p)
              /\ tx' = [tx EXCEPT ![p].batch = batch]
              /\ pc' = [pc EXCEPT ![p] = "update_leaves"]
              /\ UNCHANGED <<store, lock>>
    /\ UNCHANGED <<trees, state, unseq, h2s, currentSTH, mu, calls, now, faults, acked,
                   misuse, dump>>

\* The map of hashes with the indices of a batch.
Indexed(size, batch) ==
    [l \in DOMAIN h2s \cup Range(batch) |->
        (IF l \in DOMAIN h2s THEN h2s[l] ELSE {})
        \cup {size + i - 1 : i \in {j \in 1 .. Len(batch) : batch[j] = l}}]

\* UpdateSequencedLeaves: the leaves go to the clone, but their hashes and their
\* removal from the queue go to the shared objects.
UpdateSequencedLeaves(p) ==
    /\ pc[p] = "update_leaves"
    /\ LET size == tx[p].root.size
           batch == tx[p].batch
       IN  /\ tx' = [tx EXCEPT ![p].store = Sequenced(@, size, batch)]
           /\ h2s' = Indexed(size, batch)
           /\ unseq' = Remaining(unseq, batch)
    /\ pc' = [pc EXCEPT ![p] = "sign"]
    /\ UNCHANGED <<trees, state, store, currentSTH, mu, lock, calls, now, faults, acked,
                   misuse, dump>>

\* The second half of IntegrateBatch: the nodes, which Commit's flush stores at the
\* write revision, and the signed root.
StoreRoot(p) ==
    LET old  == tx[p].root
        hash == old.hash \o tx[p].batch
        root == [size |-> Len(hash), rev |-> tx[p].writeRevision, time |-> now, hash |-> hash]
        flushed == IF tx[p].batch = << >> THEN tx[p].store
                   ELSE [tx[p].store EXCEPT !.subtrees = ReplaceOrInsert(@, root.rev, hash)]
    IN  Signed(p, flushed, root)

\* The batch of a pass that fails here has been taken from the queue.
Dropped(batch) ==
    LET taken == Len(acked) - Len(unseq)
    IN  [i \in 1 .. Len(acked) |->
            [acked[i] EXCEPT !.dropped = @ \/ i \in taken - Len(batch) + 1 .. taken]]

SignAndStore(p) ==
    /\ pc[p] = "sign"
    /\ \/ StoreRoot(p) /\ UNCHANGED <<faults, acked>>
       \/ /\ p # Driver /\ faults < MaxFaults   \* dump_tree signs with a key of its own
          /\ faults' = faults + 1
          /\ Rollback(p)
          /\ acked' = Dropped(tx[p].batch)
          /\ UNCHANGED <<store, currentSTH>>
    /\ UNCHANGED <<trees, state, unseq, h2s, mu, calls, now, misuse, dump>>

-------------------------------------------------------------------------------
\* The admin calls and the counts.  CreateTree writes the map of trees; UpdateTree
\* changes the stored meta in place and validates it afterwards, so that an update
\* that is refused stays; GetUnsequencedCounts keeps the map's lock while it waits
\* for the tree's.
CallAdmin(p) ==
    /\ dump.step = "off"
    /\ pc[p] = "idle"
    /\ \/ /\ "create" \in Ops(p) /\ trees + Cardinality(mu.waiting) < MaxTrees
          /\ UNCHANGED calls
          /\ mu' = Wait(mu, p)
          /\ pc' = [pc EXCEPT ![p] = "create"]
          /\ UNCHANGED lock
       \/ /\ "update" \in Ops(p) /\ trees > 0 /\ CanRLock(mu) /\ Counted(p)
          /\ lock' = Wait(lock, p)
          /\ pc' = [pc EXCEPT ![p] = "update"]
          /\ UNCHANGED mu
       \/ /\ "count" \in Ops(p) /\ trees > 0 /\ CanRLock(mu) /\ Counted(p)
          /\ mu' = RLock(mu, p)
          /\ pc' = [pc EXCEPT ![p] = "count"]
          /\ UNCHANGED lock
    /\ UNCHANGED <<content, trees, tx, now, faults, misuse, dump>>

CreateTree(p) ==
    /\ pc[p] = "create" /\ CanLock(mu)
    /\ trees' = trees + 1
    /\ mu' = [mu EXCEPT !.waiting = @ \ {p}]
    /\ pc' = [pc EXCEPT ![p] = "idle"]
    /\ UNCHANGED <<content, lock, tx, calls, now, faults, misuse, dump>>

UpdateTree(p) ==
    /\ pc[p] = "update" /\ CanLock(lock)
    /\ state' \in {"ACTIVE", "FROZEN", "UNKNOWN_TREE_STATE"}
    /\ lock' = [lock EXCEPT !.waiting = @ \ {p}]
    /\ pc' = [pc EXCEPT ![p] = "idle"]
    /\ UNCHANGED <<trees, store, unseq, h2s, currentSTH, mu, tx, calls, now, faults, acked,
                   misuse, dump>>

GetUnsequencedCounts(p) ==
    /\ pc[p] = "count" /\ CanRLock(lock)
    /\ mu' = Unlock(mu, p)
    /\ pc' = [pc EXCEPT ![p] = "idle"]
    /\ UNCHANGED <<content, trees, lock, tx, calls, now, faults, misuse, dump>>

-------------------------------------------------------------------------------
\* dump_tree: Main creates a tree with an empty root, runs a pass, queues its leaves
\* one by one with a pass after each batch, runs a last pass and prints the tree.
\* `want' is the number of leaves that sequence expects of the pass under way.  The
\* transaction that fetches the root before printing is that of the printing.
Run(step, want, next) ==
    /\ dump' = [dump EXCEPT !.step = step, !.want = want, !.next = next]
    /\ CallTX(Driver, IF step = "queue" THEN "queue" ELSE IF step = "print" THEN "read" ELSE "pass")
    /\ UNCHANGED calls

\* Mutant of Left: the last batch of a multiple of the batch size is not expected.
LeftOver == dump.size % dump.batch

Left == IF dump.size % dump.batch = 0 THEN dump.batch ELSE dump.size % dump.batch

\* The loop over the leaves: the next one, or the last pass.
Loop(next) == IF next < dump.size THEN Run("queue", 0, next) ELSE Run("last", Left, next)

\* The end of the loop's body for a leaf that has been queued.
AfterLeaf(l) ==
    IF l > 0 /\ l % dump.batch = 0 THEN Run("sequence", dump.batch, l + 1) ELSE Loop(l + 1)

\* sequence compares what the pass integrated with what it was to integrate.
AsWanted == Len(tx[Driver].batch) = dump.want

DumpStart ==
    /\ dump.step = "start"
    /\ dump' = [dump EXCEPT !.step = "create"]
    /\ trees' = 1
    /\ pc' = [pc EXCEPT ![Driver] = "zero"]
    /\ UNCHANGED <<content, mu, lock, tx, calls, now, faults, misuse>>

Main ==
    /\ pc[Driver] = "idle"
    /\ \/ dump.step = "create" /\ Run("sequence", 0, 0)
       \/ dump.step = "sequence" /\ AsWanted /\ Loop(dump.next)
       \/ dump.step = "queue" /\ AfterLeaf(dump.next)
       \/ dump.step = "last" /\ AsWanted /\ Run("print", 0, dump.next)

\* glog.Fatalf ends the program.
Fatal ==
    /\ pc[Driver] = "idle" /\ dump.step \in {"sequence", "last"} /\ ~AsWanted
    /\ dump' = [dump EXCEPT !.step = "fatal"]
    /\ UNCHANGED <<content, trees, mu, lock, pc, tx, calls, now, faults, misuse>>

\* dumpLeaves prints the leaves by index, latestRevisions the subtree of the largest
\* revision above 0, traverseTreeStorage the nodes at the root's revision.
dumpLeaves == GetLeavesByRange(tx[Driver].store, 0, dump.size)

latestRevisions ==
    LET revs == {r \in DOMAIN tx[Driver].store.subtrees : r > 0}
    IN  IF revs = {} THEN << >> ELSE tx[Driver].store.subtrees[Max(revs)]

traverseTreeStorage == getSubtrees(tx[Driver].store, tx[Driver].root.rev)

-------------------------------------------------------------------------------
Tick ==
    /\ now < MaxTime
    /\ now' = now + 1
    /\ UNCHANGED <<content, trees, mu, lock, pc, tx, calls, faults, misuse, dump>>

Init ==
    /\ trees = 0 /\ state = "ACTIVE"
    /\ store = EmptyStore /\ unseq = << >> /\ h2s = << >> /\ currentSTH = 0
    /\ mu = Free /\ lock = Free
    /\ pc = [p \in Proc |-> "idle"] /\ tx = [p \in Proc |-> NoTX]
    /\ calls = [p \in Proc |-> 0] /\ now = 1 /\ faults = 0
    /\ acked = << >> /\ misuse = FALSE
    /\ \/ dump = NoDump
       \/ \E size \in DumpSizes, batch \in DumpBatches :
             dump = [NoDump EXCEPT !.size = size, !.batch = batch, !.step = "start"]

\* What a process does once it has been called.
Step(p) ==
    \/ beginTreeTX(p) \/ BeginRead(p) \/ Read(p)
    \/ InitLog(p) \/ createTree(p) \/ QueueLeaves(p)
    \/ DequeueLeaves(p) \/ UpdateSequencedLeaves(p) \/ SignAndStore(p)
    \/ CreateTree(p) \/ UpdateTree(p) \/ GetUnsequencedCounts(p)

Dump == DumpStart \/ Main \/ Fatal

Next ==
    \/ \E p \in Proc : Call(p) \/ CallAdmin(p) \/ BeginWrite(p) \/ Step(p)
    \/ Dump
    \/ Tick

\* A goroutine that can run on does.  sync.RWMutex serves those that wait in order;
\* with a bounded number of calls weak fairness is enough for that.
Fairness ==
    /\ \A p \in Proc : WF_vars(BeginWrite(p) \/ Step(p))
    /\ WF_vars(Dump)

Spec == Init /\ [][Next]_vars /\ Fairness

-------------------------------------------------------------------------------
\* The leaves that may be in the queue: dump_tree's are numbers below its size.
Item == (Leaf \ {BadLeaf}) \cup UNION {0 .. n - 1 : n \in DumpSizes}

\* Only well-formed leaves are queued, and a tree has at most one writer.
TypeOK ==
    /\ trees \in Nat /\ currentSTH \in 0 .. MaxTime
    /\ unseq \in Seq(Item)
    /\ mu.waiting \cup mu.readers \cup lock.waiting \cup lock.readers \subseteq Proc
    /\ Cardinality(lock.writer) <= 1
    /\ faults \in 0 .. MaxFaults

\* A root, the sequenced leaves and the subtrees of one B-tree belong together.
Agrees(s, root) ==
    /\ GetLeavesByRange(s, 0, root.size) = root.hash
    /\ getSubtrees(s, root.rev) = root.hash

\* Every integrated leaf is in the map of hashes with its index, although that map is not
\* part of the transaction.
IndexedByHash ==
    \A i \in DOMAIN store.seq :
        store.seq[i] \in DOMAIN h2s /\ i \in h2s[store.seq[i]]

\* dump_tree's passes integrate what it expects of them for every batch size and every
\* size but 0, and all three ways of printing show the leaves in order.
DumpPrints ==
    /\ dump.step = "fatal" => dump.size = 0
    /\ dump.step = "print" /\ pc[Driver] = "idle" =>
          LET leaves == [i \in 1 .. dump.size |-> i - 1]
          IN  dumpLeaves = leaves /\ latestRevisions = leaves /\ traverseTreeStorage = leaves

\* Whatever commits, fails and reads concurrently, the tree and every open
\* transaction hold, for each stored root, the leaves and the nodes it was signed
\* for: a reader's commit, which writes its clone back, undoes no writer's.
\* Every integrated leaf is in the map of hashes.
StoreAgrees ==
    /\ TypeOK /\ IndexedByHash
    /\ \A t \in DOMAIN store.sth : Agrees(store, store.sth[t])
    /\ \A p \in Proc : pc[p] = "in_read" => Agrees(tx[p].store, tx[p].root)
    /\ store.sth # << >> => currentSTH \in DOMAIN store.sth

\* The acknowledged leaves that were in the batch of a pass that failed.
DroppedPlaces == {i \in 1 .. Len(acked) : acked[i].dropped}

\* The acknowledged leaves without those at the given places.
AckedWithout(places) ==
    LET kept == Picked(acked, (1 .. Len(acked)) \ places)
    IN  [i \in 1 .. Len(kept) |-> kept[i].leaf]

\* Leaves enter the log once each and in the order in which they were acknowledged,
\* although the queue is shared by all clones: none is missing from the log and the
\* queue unless it was in the batch of a pass whose signature failed.  Those are missing:
\* the "transaction-like semantics" of doc.go do not reach the queue.
InOrder ==
    lock.writer = {} =>
        \E lost \in SUBSET DroppedPlaces : AckedWithout(lost) = fetchLatestRoot(store).hash \o unseq

\* Unless a call came before the tree's first root or brought a malformed leaf, which
\* keeps the tree locked for ever, every call ends: no goroutine waits for a lock
\* that nobody gives back.
CallsEnd == \A p \in Proc : pc[p] # "idle" ~> (pc[p] = "idle" \/ misuse)
===============================================================================
