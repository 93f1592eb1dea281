----------------------------- MODULE SpannerSystem -----------------------------
(***************************************************************************)
(* Frontends, signers and administrators on one Cloud Spanner database.    *)
(*                                                                         *)
(* A read-write transaction runs in two steps: an attempt reads and        *)
(* buffers its mutations, the commit applies them if what was read is      *)
(* still there and otherwise has the client run the function again.        *)
(* QueueLeaves uses no transaction: one goroutine per leaf applies its     *)
(* rows, and they all share the variable err and the map writeDupes.       *)
(*                                                                         *)
(* Behaviours are of three modes.  In mode "queue" the goroutines of the   *)
(* frontends run step by step.  In mode "log" a request has one leaf, for  *)
(* which QueueLeaves is one step: its goroutine shares with no other, and  *)
(* only Apply touches the database.  The signers work at the same time.    *)
(* In mode "admin" administrators create and change trees.                 *)
(***************************************************************************)
EXTENDS SpannerLog

CONSTANTS Frontend, Signer, Admin,   \* processes
          Leaves,        \* the leaves that clients submit: [id, merkle]
          QTimes,        \* queue timestamps that frontends read
          Seconds,       \* the clock shows a second modulo this number
          Limit,         \* leaves per pass of a signer
          Settings,      \* storage_settings of logs
          Options,       \* values of DequeueAcrossMerkleBucketsRangeFraction
          Distances,     \* a signer's clock less the timestamp of the root it read
          MaxBatch,      \* bound: leaves of a request
          MaxRevision,   \* bound: roots that are signed for no new leaf
          MaxFailures,   \* bound: failed calls of the database
          TreeIDs,       \* what NewTreeID returns
          NewTrees,      \* trees that are created
          Updates,       \* what updates change
          Modes          \* the modes to check

ASSUME SpannerAssumption ==
    /\ LogID \in TreeIDs
    /\ NumByteValues \in Nat \ {0} /\ HashesPerByte \in Nat \ {0} /\ ChunkSize \in Nat \ {0}
    /\ Limit \in Nat \ {0} /\ Seconds \in Nat \ {0} /\ Distances \subseteq Int

VARIABLES mode,      \* "log", "queue" or "admin"
          db,        \* the database
          opts,      \* the option of the log storage
          second,    \* the clock, on the ring
          synced,    \* whether the signers' clocks agree, so that none is behind a root
          rpc,       \* what each frontend is doing
          pass,      \* the transaction of each signer
          admin,     \* the transaction of each administrator
          acked,     \* history: the identities of leaves answered as queued
          failures   \* how often the database has failed

vars == <<mode, db, opts, second, synced, rpc, pass, admin, acked, failures>>

Idle == [op |-> "idle", at |-> << >>]

\* The tree of a log with the given settings.
LogTree(settings) ==
    [display_name |-> "log", tree_state |-> "ACTIVE", tree_type |-> "LOG",
     hash_strategy |-> "RFC6962_SHA256", hash_algorithm |-> "SHA256",
     signature_algorithm |-> Signature, storage_settings |-> settings]

Init ==
    /\ mode \in Modes
    /\ opts \in (IF mode = "log" THEN Options ELSE {NoFraction})
    /\ IF mode = "admin" THEN db = EmptyDB
       ELSE \E s \in (IF mode = "log" THEN Settings ELSE {NoSettings}) :
              LET b == CreateTree(EmptyDB, LogTree(s), LogID)
              IN b.err = "OK" /\ db = Applied(EmptyDB, b.mutations).db
    /\ second = 0
    \* Clocks that disagree are combined with the default option only.
    /\ synced \in BOOLEAN /\ (~synced => mode = "log" /\ opts = NoFraction)
    /\ rpc = [f \in Frontend |-> Idle]
    /\ pass = [s \in Signer |-> Idle]
    /\ admin = [a \in Admin |-> Idle]
    /\ acked = {} /\ failures = 0

\* The clock goes round.
Tick ==
    /\ mode = "log"
    /\ second' = (second + 1) % Seconds
    /\ UNCHANGED <<mode, db, opts, synced, rpc, pass, admin, acked, failures>>

FailOnce == failures < MaxFailures /\ failures' = failures + 1

-------------------------------------------------------------------------------
\* QueueLeaves.  The goroutine of a leaf goes through the states
\*   apply -> assign -> test -> dupe -> store -> done
\*                           -> test2 -> status -> done
\* and each access to the shared variables is a step.

\* A request of one leaf.  Its rows may arrive after the second in which it was received.
QueueLeaf(f) ==
    /\ mode = "log"
    /\ \E leaf \in Leaves, q \in QTimes, sec \in 0..(Seconds - 1) :
          LET a == Applied(db, QueueMutations(Config(db), sec, q, leaf))
          IN /\ db' = a.db
             /\ acked' = IF a.err = "OK" THEN acked \cup {leaf.id} ELSE acked
    /\ UNCHANGED <<mode, opts, second, synced, rpc, pass, admin, failures>>

\* A larger request arrives; the ring place of all its leaves is fixed.
BeginQueue(f) ==
    /\ mode = "queue" /\ rpc[f] = Idle
    /\ \E n \in 1..MaxBatch, q \in QTimes : \E leaves \in [1..n -> Leaves] :
          rpc' = [rpc EXCEPT ![f] =
              [op |-> "queue", leaves |-> leaves, second |-> second, ts |-> q,
               at |-> [i \in 1..n |-> "apply"], ret |-> [i \in 1..n |-> "OK"], err |-> "OK",
               seen |-> [i \in 1..n |-> {}], dupes |-> {},
               results |-> [i \in 1..n |-> "nil"]]]
    /\ UNCHANGED <<mode, db, opts, second, synced, pass, admin, acked, failures>>

Goroutine(f, i, state) ==
    rpc[f].at[i] = state

LeafMutations(f, i) ==
    QueueMutations(Config(db), rpc[f].second, rpc[f].ts, rpc[f].leaves[i])

\* Apply inserts both rows or neither.
ApplyLeaf(f, i) ==
    /\ Goroutine(f, i, "apply")
    /\ LET a == Applied(db, LeafMutations(f, i))
       IN /\ db' = a.db
          /\ rpc' = [rpc EXCEPT ![f].at[i] = "assign", ![f].ret[i] = a.err]
    /\ UNCHANGED <<mode, opts, second, synced, pass, admin, acked, failures>>

\* Apply fails, or its answer is lost.
ApplyFails(f, i) ==
    /\ Goroutine(f, i, "apply") /\ FailOnce
    /\ db' \in {db, Applied(db, LeafMutations(f, i)).db}
    /\ rpc' = [rpc EXCEPT ![f].at[i] = "assign", ![f].ret[i] = "Unavailable"]
    /\ UNCHANGED <<mode, opts, second, synced, pass, admin, acked>>

\* The local steps of a goroutine: those that read or write what is shared.
AssignErr(r, i) == [r EXCEPT !.at[i] = "test", !.err = r.ret[i]]
TestErr(r, i)   == [r EXCEPT !.at[i] = IF r.err = "AlreadyExists" THEN "dupe" ELSE "test2"]
TestErr2(r, i)  == [r EXCEPT !.at[i] = IF r.err # "OK" THEN "status" ELSE "done"]
SetStatus(r, i) == [r EXCEPT !.at[i] = "done",
                             !.results[i] = IF r.err = "OK" THEN "empty" ELSE "error"]
SameKey(r, i)   == {j \in DOMAIN r.leaves : r.leaves[j].id = r.leaves[i].id}
ReadDupes(r, i) == [r EXCEPT !.at[i] = "store", !.seen[i] = r.dupes \cap SameKey(r, i)]
StoreDupe(r, i) == [r EXCEPT !.at[i] = "done", !.seen[i] = {},
                             !.dupes = (@ \ SameKey(r, i)) \cup r.seen[i] \cup {i}]

GoroutineStep(f, i) ==
    /\ rpc' = [rpc EXCEPT ![f] =
         CASE rpc[f].at[i] = "assign" -> AssignErr(@, i)
           [] rpc[f].at[i] = "test"   -> TestErr(@, i)
           [] rpc[f].at[i] = "test2"  -> TestErr2(@, i)
           [] rpc[f].at[i] = "status" -> SetStatus(@, i)
           [] rpc[f].at[i] = "dupe"   -> ReadDupes(@, i)
           [] rpc[f].at[i] = "store"  -> StoreDupe(@, i)]
    /\ UNCHANGED <<mode, db, opts, second, synced, pass, admin, acked, failures>>

GoroutineRuns(f, i) ==
    /\ rpc[f].at[i] \notin {"apply", "done"}
    /\ GoroutineStep(f, i)

\* Two assignments to the map at the same time: the runtime ends the process.
ConcurrentMapWrites(f) ==
    /\ \E i, j \in DOMAIN rpc[f].at :
          i # j /\ Goroutine(f, i, "store") /\ Goroutine(f, j, "store")
    /\ rpc' = [rpc EXCEPT ![f] = Idle]
    /\ UNCHANGED <<mode, db, opts, second, synced, pass, admin, acked, failures>>

\* readDupeLeaves finds a row for every identity in the map.
DupesFound(r) ==
    {r.leaves[i].id : i \in r.dupes} \subseteq {l.LeafIdentityHash : l \in db.LeafData}

\* After wg.Wait the duplicates are read back, and the request is answered.  A nil result
\* says that the leaf is new and queued.
AnswerQueue(f) ==
    /\ rpc[f].op = "queue" /\ \A i \in DOMAIN rpc[f].at : rpc[f].at[i] = "done"
    /\ LET r == rpc[f]
           ok(i) == i \notin r.dupes /\ r.results[i] \in {"nil", "empty"}
       IN acked' = IF DupesFound(r) THEN acked \cup {r.leaves[i].id : i \in {j \in DOMAIN r.at : ok(j)}}
                   ELSE acked
    /\ rpc' = [rpc EXCEPT ![f] = Idle]
    /\ UNCHANGED <<mode, db, opts, second, synced, pass, admin, failures>>

-------------------------------------------------------------------------------
\* Transactions of the signers.

\* InitLog stores the empty root of a log that has none.
InitLog(s) ==
    /\ mode = "log" /\ pass[s] = Idle /\ latestSTH(db) = NoHead
    /\ pass' = [pass EXCEPT ![s] = [op |-> "init", rev |-> NoHead.TreeRevision, rows |-> << >>, ts |-> 1]]
    /\ UNCHANGED <<mode, db, opts, second, synced, rpc, admin, acked, failures>>

\* Sequencer.IntegrateBatch as a client of this storage reads the latest root, the nodes at its
\* revision and a batch: first is the random Merkle bucket, distance how far the signer's clock
\* is from that root.  An empty batch still makes a root when the last one has become too old.
IntegrateBatch(s, first, distance) ==
    LET head == latestSTH(db)
        rows == DequeueLeaves(db, KeySets(Config(db), opts, second, first), Limit)
    IN /\ mode = "log" /\ pass[s] = Idle /\ LogID \in GetActiveLogIDs(db) /\ head # NoHead
       /\ rows # << >> \/ (head.TreeRevision < MaxRevision /\ distance > 0)
       /\ NodesAt(db, head.TreeSize, head.TreeRevision) = head.RootHash
       /\ pass' = [pass EXCEPT ![s] =
             [op |-> "integrate", rev |-> head.TreeRevision, rows |-> rows,
              ts |-> head.TimestampNanos + distance]]
       /\ UNCHANGED <<mode, db, opts, second, synced, rpc, admin, acked, failures>>

\* The mutations that the transaction has buffered, a function of what it read.
Buffered(t) ==
    LET head   == latestSTH(db)
        hashes == head.RootHash \o [i \in 1..Len(t.rows) |-> t.rows[i].MerkleLeafHash]
    IN IF t.op = "init" THEN StoreSignedLogRoot(db, t.ts, << >>)
       ELSE UpdateSequencedLeaves(db, t.rows, t.ts)
            \o (IF t.rows = << >> THEN << >> ELSE storeSubtrees(db, hashes, head.TreeSize))
            \o StoreSignedLogRoot(db, t.ts, hashes)

\* Mutant: what the transaction read is not protected.
FreshAlways(t) == latestSTH(db).TreeRevision >= t.rev

\* What the transaction read is still in the database.
Fresh(t) == latestSTH(db).TreeRevision = t.rev /\ Range(t.rows) \subseteq db.Unsequenced

Committed(t) == IF Fresh(t) THEN Applied(db, Buffered(t)).db ELSE db

\* The commit.  When the reads are stale, or a row exists already (a root with the same
\* timestamp or the same revision), nothing is written; the client library or the next pass runs the function
\* again.  A commit that fails for another reason, or whose answer is lost, ends the pass with
\* one of the same two outcomes.
CommitPass(s) ==
    /\ pass[s] # Idle
    /\ db' = Committed(pass[s])
    /\ pass' = [pass EXCEPT ![s] = Idle]
    /\ UNCHANGED <<mode, opts, second, synced, rpc, admin, acked, failures>>

-------------------------------------------------------------------------------
\* Transactions of the administrators.
AdminBodies(id) ==
    {CreateTree(db, tree, id) : tree \in NewTrees}
    \cup {UpdateTree(db, id, u) : u \in Updates}
    \cup {SetDeleted(db, id, d) : d \in BOOLEAN}
    \cup {HardDeleteTree(db, id)}

RowsOf(id) == {r \in db.TreeRoots : r.TreeID = id}

\* An operation that is refused buffers nothing and leaves no trace.
AdminAttempt(a) ==
    /\ mode = "admin" /\ admin[a] = Idle
    /\ \E id \in TreeIDs : \E b \in AdminBodies(id) :
          /\ b.err = "OK"
          /\ admin' = [admin EXCEPT ![a] =
                [op |-> "tx", id |-> id, seen |-> RowsOf(id), body |-> b]]
    /\ UNCHANGED <<mode, db, opts, second, synced, rpc, pass, acked, failures>>

\* The commit of what the transaction has buffered, if what it read is still there.
AdminCommit(a) ==
    /\ admin[a] # Idle
    /\ db' = IF RowsOf(admin[a].id) = admin[a].seen THEN Applied(db, admin[a].body.mutations).db
             ELSE db
    /\ admin' = [admin EXCEPT ![a] = Idle]
    /\ UNCHANGED <<mode, opts, second, synced, rpc, pass, acked, failures>>

\* Rollback makes the function return errRollback, and the transaction is given up.
AdminRollback(a) ==
    /\ admin[a] # Idle
    /\ admin' = [admin EXCEPT ![a] = Idle]
    /\ UNCHANGED <<mode, db, opts, second, synced, rpc, pass, acked, failures>>

-------------------------------------------------------------------------------
Bytes == 0..(NumByteValues - 1)
IdsIn(rows) == {r.LeafIdentityHash : r \in rows}

Next ==
    \/ Tick
    \/ \E f \in Frontend :
          \/ QueueLeaf(f) \/ BeginQueue(f) \/ ConcurrentMapWrites(f) \/ AnswerQueue(f)
          \/ \E i \in DOMAIN rpc[f].at : ApplyLeaf(f, i) \/ ApplyFails(f, i) \/ GoroutineRuns(f, i)
    \/ \E s \in Signer :
          \/ InitLog(s) \/ CommitPass(s)
          \/ \E first \in Bytes, d \in {d \in Distances : synced => d > 0} : IntegrateBatch(s, first, d)
    \/ \E a \in Admin : AdminAttempt(a) \/ AdminCommit(a) \/ AdminRollback(a)

\* A pass begun now could dequeue the leaf; a pass begins that does, its clock being past the
\* last root.
Dequeuable(id) ==
    /\ mode = "log" /\ latestSTH(db) # NoHead /\ id \in IdsIn(db.Unsequenced)
    /\ \E first \in Bytes :
          id \in IdsIn(Range(DequeueLeaves(db, KeySets(Config(db), opts, second, first), Limit)))
PassTakes(id) ==
    \E s \in Signer :
        /\ pass[s] = Idle /\ pass'[s].op = "integrate"
        /\ pass'[s].ts > latestSTH(db).TimestampNanos /\ id \in IdsIn(Range(pass'[s].rows))

\* The clock goes on, the log is initialised and transactions end.  The first Merkle bucket is
\* random and passes drift against the clock: if a pass can find the leaf at some second again
\* and again, then passes do begin at such a second with such a bucket.
Fairness ==
    /\ WF_vars(Tick)
    /\ WF_vars(\E s \in Signer : InitLog(s))
    /\ \A s \in Signer : []<>(pass[s] = Idle)
    /\ \A id \in {l.id : l \in Leaves} : []<>Dequeuable(id) => []<><<PassTakes(id)>>_vars

Spec == Init /\ [][Next]_vars /\ Fairness

-------------------------------------------------------------------------------
\* Every process is idle or busy with a call of its own mode, and rows have the columns that
\* spanner.sdl declares.
TypeOK ==
    /\ mode \in Modes /\ opts \in Options \cup {NoFraction}
    /\ second \in 0..(Seconds - 1) /\ failures \in 0..MaxFailures
    /\ \A t \in Tables : \A r \in db[t] : DOMAIN r \subseteq Columns(t)
    /\ \A f \in Frontend : rpc[f].op = "queue" =>
          \A i \in DOMAIN rpc[f].at : rpc[f].at[i] \in
              {"apply", "assign", "test", "test2", "status", "dupe", "store", "done"}
    /\ \A s \in Signer : pass[s].op \in {"idle", "init", "integrate"}
    /\ acked \subseteq {l.id : l \in Leaves}

\* QueueLeaves of storage/log_storage.go: an entry of the answer is nil for a leaf that has been
\* enqueued.  The goroutines of a request take each other's outcome for theirs, and of two
\* leaves with one Merkle hash only one is inserted; but as long as no insertion fails, what
\* was answered as queued is stored, itself or a leaf with its Merkle hash.
AckedIfNoneFailed ==
    failures = 0 =>
        \A l \in Leaves : l.id \in acked =>
            \E k \in Leaves : k.merkle = l.merkle /\ k.id \in IdsIn(db.LeafData)

\* QueueLeaves inserts the data of a leaf and its place in the queue together, and a pass moves
\* it from the queue to the sequence: at all times a stored leaf is in exactly one of the two,
\* once, whatever becomes of the goroutines, the passes and their commits.  And what was
\* acknowledged is among them unless an insertion failed.
QueuedOrSequenced ==
    /\ TypeOK /\ AckedIfNoneFailed
    /\ IdsIn(db.LeafData) = IdsIn(db.Unsequenced) \cup IdsIn(db.SequencedLeafData)
    /\ Cardinality(db.LeafData) = Cardinality(db.Unsequenced) + Cardinality(db.SequencedLeafData)

\* The root of the highest revision.  It need not be the one that latestSTH takes, which looks
\* for the greatest timestamp: nothing keeps a signer whose clock is behind from storing the
\* next revision under an older one.
NewestRoot == CHOOSE h \in Heads(db) : \A g \in Heads(db) : g.TreeRevision <= h.TreeRevision

\* The roots are a history whatever the signers' clocks show: revisions without a gap, sizes
\* that grow with them, and for each of them the nodes visible at its revision give its hash,
\* which is the hash of the leaves with the sequence numbers below its size.  A root can be
\* older by its timestamp than an earlier one only if the clocks disagree, and then it is the
\* last root: every later pass works from the root before it and meets its revision.
RootsAreHistory ==
    LET heads == Heads(db)
        seq   == {r \in db.SequencedLeafData : r.TreeID = LogID}
    IN heads # {} =>
        /\ {h.TreeRevision : h \in heads} = 0..NewestRoot.TreeRevision
        /\ \A g, h \in heads : g.TreeRevision < h.TreeRevision =>
              /\ g.TreeSize <= h.TreeSize
              /\ synced \/ h # NewestRoot => g.TimestampNanos < h.TimestampNanos
        /\ {r.SequenceNumber : r \in seq} = 0..(NewestRoot.TreeSize - 1)
        /\ \A h \in heads :
              /\ h.RootHash = NodesAt(db, h.TreeSize, h.TreeRevision)
              /\ h.RootHash = [i \in 1..h.TreeSize |->
                    (CHOOSE r \in seq : r.SequenceNumber = i - 1).MerkleLeafHash]
              /\ storageToAPISig(h.RootSignature) = [hash |-> "SHA256", alg |-> Signature]

\* The three ways of reading leaves agree in every snapshot: none reports an inconsistency for
\* indices that are not repeated, a range is the same as its indices one by one, and a hash
\* finds the leaves that have it, complete but for the time of integration, which only the
\* reads by index return.  A leaf that the latest root does not cover is found by its hash only,
\* and there is one only if the signers' clocks disagree.
ReadsAgree ==
    Heads(db) # {} =>
        LET size == GetSequencedLeafCount(db)
        IN /\ \A start \in -1..(size + 1), count \in 0..(size + 1) :
                LET range == GetLeavesByRange(db, start, count)
                    ixs   == SelectSeq([k \in 1..count |-> start + k - 1], LAMBDA i : i < size)
                    index == GetLeavesByIndex(db, ixs)
                IN IF count = 0 THEN range.err = "InvalidArgument"
                   ELSE IF start >= size THEN range.err = "OutOfRange"
                   ELSE range.err = index.err /\ range.answer = index.answer
           /\ \A l \in GetLeavesByHash(db, {m.merkle : m \in Leaves}) :
                LET index == GetLeavesByIndex(db, <<l.index>>)
                IN IF l.index >= size THEN index.err = "OutOfRange" /\ ~synced
                   ELSE /\ \E k \in Leaves : k.id = l.id /\ k.merkle = l.merkle
                        /\ \E h \in Heads(db) :
                              index.answer = <<[l EXCEPT !.integrated = h.TimestampNanos]>>

\* Liveness of the buckets: the frontends write to one side of the time ring and the signers
\* read the other, a random run of Merkle buckets at a time.  Whatever settings the creation of
\* the tree accepted, every leaf that is stored gets sequenced, if the signers' clocks agree:
\* again and again there comes a time at which all leaves stored by then are sequenced.
StoredIsSequenced ==
    mode = "log" /\ synced => []<>(IdsIn(db.LeafData) \subseteq IdsIn(db.SequencedLeafData))

================================================================================
