# Trillian in TLA+

This directory is a verification project for Trillian: TLA+ modules that model the
parts of the system whose correctness depends on concurrency, failure and order;
TLC configurations that check them on small instances; and theorems that TLAPS
proves for every instance.

Paths below are relative to the root of the repository.

## 1. The system

Trillian stores append-only Merkle trees (*logs*) and sparse Merkle trees (*maps*).
Frontends accept leaves over gRPC and put them into a queue in the storage. Signers
elect a master per log; the master's sequencer takes batches from the queue, gives
them sequence numbers, extends the tree, and signs and stores a new root. Clients
fetch roots and proofs from the frontends and verify them.

| Component | State | Operations | Interacts with |
|---|---|---|---|
| Log storage (`storage/mysql`) | tables `LeafData`, `Unsequenced`, `SequencedLeafData`, `Subtree`, `TreeHead`; open transactions | `QueueLeaves`, `DequeueLeaves`, `UpdateSequencedLeaves`, `SetMerkleNodes`, `StoreSignedLogRoot`, reads, `Commit`, `Rollback` | frontends, sequencer; InnoDB locks and unique keys |
| Sequencer (`log/sequencer.go`) | locals of one pass | `IntegrateBatch`, `SignRoot` | log storage, quota |
| Log RPC server (`server/log_rpc_server.go`) | locals of one RPC | `InitLog`, `QueueLeaves`, read RPCs | log storage, clients |
| Log operation manager (`server/log_operation_manager.go`) | loop, workers, one election runner per log, the channel of pending resignations, the mastership tracker | `OperationLoop`, `electionRunner.Run`, `resignation.execute` | election, sequencer |
| Master election (`util/etcd/election.go`) | keys and leases in etcd | `WaitForMastership`, `IsMaster`, `ResignAndRestart`, `Close` | etcd |
| Commit-log signer (`docs/storage/commit_log`) | the topics of leaves and STHs, each signer's database | `Signer.Run` | a Kafka-like log, an election |
| Quota (`quota/*`) | token buckets in etcd, cached tokens | `GetTokens`, `PutTokens`, `ResetQuota`, `UpdateConfigs` | interceptor, sequencer |
| RPC interceptor (`server/interceptor`) | tokens charged to one RPC | `Before`, `After` | quota, admin storage |
| Tree administration (`server/admin`, `storage/mysql/admin_storage.go`) | tree rows with state, deletion mark and time | create, update, soft delete, undelete, hard delete, garbage collection | every server |
| Map server (`server/map_rpc_server.go`, `storage/mysql/map_storage.go`) | map leaves, subtrees and map heads by revision | `SetLeaves`, `GetLeaves`, `InitMap` | map storage, sparse Merkle tree |
| Subtree cache (`storage/cache`) | cached subtrees and dirty prefixes | `preload`, `GetNodes`, `SetNodeHash`, `Flush` | tree storage |
| Merkle algorithms (`merkle`) | none (pure) | compact tree, proofs, verification, HStar2 | everything above |
| Log storage in memory (`storage/memory`) | B-trees per tree, a lock per tree, a queue and a map of hashes beside them | the same, on clones of a tree | the same; `dump_tree` |
| Log storage on Cloud Spanner (`storage/cloudspanner`) | the same tables, the queue sharded by time and Merkle bucket | the same, with buffered mutations and a goroutine per queued leaf | the same |
| Map clients (`testonly/hammer`, `examples/ct/ctmapper`, `integration/maptest`, `client`) | copies of contents and roots, the last entry that was mapped | reads and writes with checks of their own, initialisation with retries | map server |
| Log client (`client`) | the trusted root | `AddLeaf`, `WaitForInclusion`, `UpdateRoot` | log server |

### What is hard

* Several signers integrate at once (mastership is advisory) and only the keys of the
  tables keep them apart.
* A pass or an RPC can end between any two statements; the answer to a commit can be lost.
* A transaction reads a snapshot and writes to current rows.
* The latest root is chosen by timestamp, and hosts have their own clocks.
* Row locks are taken in an order that must not be circular.
* Mastership is resigned, lost or misjudged while passes run; the loop, its runners and
  their channel can wait for each other.
* A request to a map starts a goroutine and a transaction for each subtree; they wait for
  each other's roots and commit before the request does.
* A client's proofs are asked for at a size that the log may have left behind, or, after a
  restored backup, not reached again.
* On Spanner frontends and signers agree on buckets only through the configuration of the
  tree and their clocks, and the goroutines of a request share variables.
* In memory, a part of a tree's state is not covered by its transactions.
* Nodes are stored in compressed subtrees and built again on reading; proofs for sizes
  between two signed ones need nodes that were never stored.

`PROJECT.json` lists each hazard at its line with the properties that would catch it.

## 2. The modules

Each component has a module for its state and actions, some together with the pure functions
that they use. `MC*` modules give values to constants and define nothing else;
`LogOperationManager`, `CommitLogSigner` and `MemoryStorage` are run as they are.

```
LogStorage                               tables, transactions, time and failures
  └── Sequencer, LogRPCServer            one pass of a signer / one RPC
        └── TrillianLog                  all of them on one database; properties, invariant
              ├── AppendOnlyLog          what a log promises (refinement target)
              └── TrillianLogProofs ── LogLeafProofs
                                         roots / leaves, nodes, quota, refinement, inserts

SubtreeCache                             node IDs, the subtrees of one transaction
  └── LogTree                            hasher, verifier, compact tree, roots and nodes
        ├── LogReads                     nodes of a proof, the read RPCs
        ├── LogClient                    the trusted root
        ├── LogDriver                    the lazy tree in memory, the integration test
        └── LogService                   a growing log with one of its users

SpannerAdmin ── SpannerLog               schema, mutations, trees / queue, sequence, reads
  └── SpannerSystem                      frontends, signers and administrators

SubtreeCache ── SparseMerkleTree         hashers, HStar2, verification, tables of a map, writers
  ├── MapServer                          the RPCs
  ├── MapClients                         hammer, mapper, initialisation, integration tests
  └── MapSystem ── MapProofs             a map with one of its users, or several writers

MemoryStorage                            storage in memory, sequencer and servers, dump_tree
  └── MemoryStorageProofs

LogOperationManager                      the election, the loop and its runners
  └── LogOperationManagerProofs
CommitLogSigner                          the sample design of docs/storage/commit_log
  └── CommitLogProofs
QuotaStorage ── QuotaSystem              buckets in etcd / caches, interceptor, sequencing
  └── QuotaProofs
TreeAdmin ── TreeSystem                  rows and admin calls / collectors and signers
  └── TreeProofs
```

### Log: `LogStorage`, `Sequencer`, `LogRPCServer`, `TrillianLog`

* `db` holds the committed rows of the five tables, `tx[c]` what the open transaction of
  client `c` has read and will write. A transaction reads the snapshot of its begin, as
  InnoDB's REPEATABLE READ does, and writes current rows: inserts are checked against
  committed keys, deletes count the rows they really remove, and rows of other open
  transactions are locked.
* A leaf stands for its identity hash, and integers are ordered like the hashes. The hash
  of a tree is the sequence of its leaves. Of the Merkle nodes these modules keep the leaf
  level; the others are the subject of `LogTree`.
* `Sequencer` follows `IntegrateBatch`: `BeginPass`, `Fetch` (dequeue), `NothingToDo`
  (every early return), `Update` (sequence numbers, nodes), `StoreRoot`, `CommitPass`,
  `Replenish`. Between any two of them another client may act, and any of them may fail.
* `LogRPCServer` has `InitLog` and `QueueLeaves`, with the sorting of the leaves, the
  insertion of one after the other, the duplicates that are read back from the snapshot,
  and the transactions that error returns leave open until the RPC's context ends.
* Every client has its own clock, `now + Skew[c]`.

### Reading a log: `LogTree`, `LogReads`, `LogClient`, `LogDriver`, `LogService`

A pass is one step here (that it is atomic is `TrillianLog`'s subject) and writes real
nodes: `AddLeafHash` of the compact tree, the map from coordinates to node IDs
(`SubtreeCache`), the subtrees of the cache, which drop their inner nodes when they are full
and written, and build them again when they are read. The hash function is ideal: a hash is
the term it was computed from, with the domain separation of RFC 6962. `LogReads` selects
the nodes of inclusion and consistency proofs, snapshots between signed sizes included,
fetches and rehashes them, and has the validation and the error paths of each RPC. The
verifier in `LogTree` and `LogClient` are the other side: the trusted root, the waits with
back-off. `LogDriver` is the integration test of `integration/log.go`, whose yardstick is
the lazily evaluated tree in memory. In `LogService` one user at a time (`user`) works with
a log that grows between its calls; for the client an RPC may fail or lose its answer, and
the log may be set back to an earlier root, as after a restored backup, and go on with other
leaves.

### Spanner: `SpannerAdmin`, `SpannerLog`, `SpannerSystem`

`SpannerAdmin` has the schema of `spanner.sdl`, mutations with the errors that the
database reports for them, and the tree administration with its conversions between
protos, columns and `TreeInfo`; `ListTrees` changes nothing and fails on every row, and is
left out. `SpannerLog` has the queue with its keys made of a time
bucket and a Merkle bucket, the range the signer reads, `UpdateSequencedLeaves`, roots,
nodes and the ways of reading leaves. `SpannerSystem` runs the goroutines of
`QueueLeaves`, whose shared `err` and map are read and written in any order, two signers
that may overlap, and two administrators. A signer's clock is given by its distance from
the timestamp of the root that it read (`Distances`): behind it, at it or past it. The
constant `synced` of a behaviour says that the clocks agree, and then it is past it.

### Map: `SparseMerkleTree`, `MapServer`, `MapClients`, `MapSystem`

A request (`req[w]`) inserts its leaves, sends them to the goroutines of their subtrees
(`trees[w]`), which take them from bounded queues, wait for the roots of the subtrees
below, calculate nodes with HStar2 and commit them in transactions of their own; then the
request stores the root and commits. Each is an action. `SparseMerkleTree` also has both
hashers and the client's check of an answer. Roots are stamped with the clock of the host
that serves the request: any value of `Clock`, or, in behaviours that are `synced`, the time
after the latest root. A behaviour has one of the modes `hammer`,
`mapper`, `test`, `init`, `race` and `early` (leaves are set before the map is
initialised), which says who uses the map; in the last three there are two writers.

### Memory: `MemoryStorage`

Transactions work on clones of a tree's B-trees and put them in place on commit, writers
and readers alike, under a `sync.RWMutex` per tree. The unsequenced queue, the map from
hashes to indices and the time of the latest root are shared by all clones, and
`StoreSignedLogRoot` writes to the tree itself. The model has the locks (waiting writers
block new readers), the calls of servers and sequencer, the admin calls, and
`dump_tree`, which drives the whole with a sequencer of its own.

### Signer processes: `LogOperationManager`

The loop of `OperationLoop` (start workers, wait for them, run resignations, sleep), the
goroutine of each election runner, the channel of pending resignations, the tracker, and
etcd's keys and leases with calls that may fail. A pass is in `toProcess` or `running`;
what it does is `Sequencer`.

### Commit-log design: `CommitLogSigner`

The sample signer of `docs/storage/commit_log/signer`: topics that grow, an STH per
offset, databases that accept an STH exactly if it names its own offset, any number of
masters at a time.

### Quota: `QuotaStorage`, `QuotaSystem`

`QuotaStorage` has the buckets and configurations in etcd (each STM transaction is one
step) and the operations of the quota API. `QuotaSystem` adds the caches of the frontends
(refill, the goroutine that evicts and puts back), the interceptor's `Before` and `After`,
and the tokens that sequencing puts back.

### Trees: `TreeAdmin`, `TreeSystem`

A call of the admin API is a transaction that reads a row without locking it and writes
it in a second step. `TreeSystem` adds the garbage collectors, which list, check and
delete in steps of their own, and the signers, which look the tree up once per pass and
cache its key.

## 3. What is checked

| Run | Instance | Shows |
|---|---|---|
| `log_safety` | 2 signers that never exclude each other and whose clocks are 2 apart, 1 server, 2 leaves, 1 failure | the inductive invariant (`IInv`), roots are consistent (`RootsConsistent`) and backed by leaves and nodes (`RootsBacked`), no leaf is lost or sequenced twice and quota is given back for sequenced leaves only, once each, times the increase factor (`NoLeafLostOrRepeated`), the published root only advances, and the system implements `AppendOnlyLog` |
| `log_live` | 1 signer, 2 servers with batches of up to 2 leaves, one clock, 1 failure | servers never wait in a circle for rows that they have inserted (`NoInsertCycle`); every acknowledged leaf gets into the published root (`AckedIsIntegrated`) |
| `manager` | 2 signers, 1 log, 1 failure, one signer stopped at any time | no resignation is lost or answered twice (`ResignationsMatch`); until something fails at most one signer works on a log (`OneSignerPerLog`); everyone gets a turn as master; mastership is released, and a signer that is told to exit stops its passes and exits, unless its loop and a runner wait for each other (`MastershipIsReleased`) |
| `manager_exit` | the same | violation of `ExitsWhenTold`, see section 6 |
| `commitlog` | 2 signers, 3 leaves, 4 STHs, masters change at any time | databases go through the same STHs (`DatabasesAgree`), none of the `!!` errors (`NoSurprise`), with one master every leaf is integrated |
| `quota` | 2 servers with caches, 2 requests of up to 2 leaves, 4 quotas, 1 failure, 1 administrative call, clocks 1 apart | ceilings, conservation of tokens and the size of caches, rate limits |
| `trees` | 2 trees, one of which cannot be hard-deleted, 2 overlapping callers, 4 calls, 1 collector, 1 signer | keys of signers match trees, nothing is collected early unless it was undeleted or deleted anew after it was listed (`NeverCollectedEarly`), everything else is collected although one tree fails every time, passes on frozen trees end |
| `reads` | 17 leaves, one of them twice, strata of 2 bits and "bytes" of 2 bits; a root signed again without leaves; 2 calls of the client, 1 fault; the lazy tree up to 9 leaves | for every split of the leaves into at most two passes, roots and all inclusion and consistency proofs of all sizes are those of RFC 6962, the lazy tree agrees with them whatever it was asked before, and the integration test passes (`ProofsAreExact`); a client accepts a leaf only if its trusted root covers it (`AcceptedIsIncluded`), its root only advances, and its waits end with a proof unless an RPC failed or the leaf was integrated between two RPCs (`WaitEnds`) |
| `spanner` | 2 time buckets, 2 Merkle buckets (and settings with other numbers), 1 frontend with 3 leaves, 2 of which have one Merkle hash, 2 signers whose clocks agree, or are past, at or behind the root they read, 2 administrators, 1 failure | a stored leaf is queued or sequenced, once, and what was acknowledged is stored unless an insertion failed (`QueuedOrSequenced`); roots are a history, and only the last can be older than its predecessor, and only if clocks disagree (`RootsAreHistory`); the ways of reading agree, but for the time of integration, which reads by hash do not return (`ReadsAgree`); with clocks that agree every bucket is drained (`StoredIsSequenced`) |
| `map` | indices of 4 bits in strata of 1, 1 and 2, queues of 1, 2 writers, 2 requests of up to 2 leaves, 1 fault, clocks of 1 to 3 or clocks that agree, all modes, both hashers | with one writer, no faults and clocks that agree, roots commit to what was set and proofs verify (`RootsCommit`); with any writers, faults and clocks, leaves and revisions are those of the published requests, and the latest root is the newest if clocks agree (`LeavesAreHistory`); hammer, mapper, tests and initialising clients get what they expect (`ClientsPass`); every request is answered (`SetAnswered`) |
| `map_race` | mode `race` of the same, no faults | violation of `IndexesAreProved`, see section 6 |
| `memory` | 2 servers, 1 sequencer, 3 leaves, one of them malformed, batches of 2, 2 calls each, 1 signature that fails; `dump_tree` with sizes 0 to 5 and batches 1 to 3 | roots, leaves, nodes and hashes of the tree and of each snapshot belong together (`StoreAgrees`); `dump_tree` gets from its passes what it expects and prints it, except for size 0 (`DumpPrints`); leaves are integrated once each in the order of acknowledgement, and none is missing but leaves of a failed pass (`InOrder`); calls end unless a lock was leaked (`CallsEnd`) |

Some invariants are conjunctions of named parts (`ProofsAreExact`, `RootsCommit`,
`LeavesAreHistory`, `ClientsPass`, `QueuedOrSequenced`, `RootsAreHistory`, `StoreAgrees`,
`ResignationsMatch`, `NoSurprise`); the type invariant of the module is one of the parts,
in `log_safety` it is part of `IInv`, and that of `TreeSystem` is proved (`TreeTypes`).

**Bounds.** Two signers, servers, writers or callers are enough for each race above: all
of them are between two transactions on the same rows. Two leaves with batches of one
make the sizes 0, 1 and 2 happen, with a pass between queueing and integrating, and leaves
that are young for the guard window. One failure, anywhere, includes a lost answer to a
commit; two independent failures do not meet in the same transaction. `MaxTime` lets every
timer (guard window, root duration, replenishment, threshold) be not yet due, just due
and overdue. For the Merkle trees, 17 leaves in strata of 4 leaves reach a third stratum:
subtrees that are empty, partly filled, full, and reached again after a revision that did
not touch them, and every shape of the right edge up to five levels. Four bits in three
strata give a map subtrees with one child, with two, and a chain of them. Each bound has a
name and stands in a guard: `MaxTime`, `QueueUntil`, `MaxFailures`, `MaxFaults`,
`MaxRequest`, `MaxRequests`, `MaxLeaves`, `MaxSTHs`, `MaxRpcs`, `MaxAdmin`, `MaxTokens`,
`MaxCalls`, `MaxResigned`, `MaxTree`, `MaxBatch`, `MaxBatches`, `MaxRevision`, `MaxTries`,
`MaxEmptyRuns`, `MaxTrees`, `Seconds`, `Distances`, `Clock`, `PendingCap`.

Some cases are beyond the instances. With one log the channel of resignations never fills,
and in `quota` a single administrative call falls between the other steps (two of them make
more states than TLC visits in minutes): the theorems `ResignationsAlwaysMatch` and
`CeilingIsKept` cover these. `log_live` has one signer; what signers that collide do to each
other is the subject of `log_safety`. The commit-log design is live with a single master only.

**Fairness.** Of a signer: its loop runs one pass after another, so its next step is
weakly fair; nothing is assumed of clients. Of a runner: each goroutine's next step is
weakly fair; the throw of the dice that leads to resignation and the send on the
resignation channel are strongly fair, because the dice are thrown anew each time and Go
serves blocked senders in order; a lease that nobody renews lapses. Of the commit-log
signers: weak fairness of their loop. Of collectors: weak fairness of the sweep; a listing
or a deletion that can succeed does not fail every time (strong fairness), except for the
trees declared `Stuck`. In `LogService`: roots appear, the signer integrates what is
submitted, and a client goes on. In `MapSystem`: the goroutines of a request run. In
`SpannerSystem`: time passes, passes end, the log is initialised, and a leaf that a pass
could take again and again is taken some time, because the bucket a pass begins with is
drawn at random. These three spell weak and strong fairness out with `[]<>` and the
enabling condition, which is cheaper to evaluate. In `MemoryStorage`: every goroutine that
can run does; the mutex serves in order, which with bounded calls asks for no more than
weak fairness.

`manager` and `manager_exit` may stop for good, because signers are told to exit; `reads`,
`map`, `map_race` and `memory` stop when the bounded calls have been made, or, in `memory`,
when a lock was leaked. They do not check for deadlock; `MastershipIsReleased`, `WaitEnds`,
`SetAnswered` and `CallsEnd` say what must not get stuck. All others do.

## 4. What is proved

TLAPS proves the following for any number of clients, leaves, quotas, trees and calls, any
bounds and, unless a paragraph below says otherwise, any clocks of the hosts. The
assumptions are the `ASSUME`s of the modules: what kind of values the constants are, that
there are finitely many frontends, requests and quotas, where a maximum over clocks is taken
or tokens are counted, and that the mapper knows finitely many domains, whose leaves it
sends in one sequence.

### The log: `TrillianLogProofs`, `LogLeafProofs`

`IInv`, which the run `log_safety` checks as well, is `RInv /\ LeafInv /\ LockInv`; each
part is inductive given the ones before it.

* `RInv` gives `TypeCorrect` (`TypeOK`) and `RootsAlwaysConsistent` (`RootsConsistent`).
  Consistency alone is not inductive: a root is computed from the root that its transaction
  read, and committed when others may have been committed since. The invariant therefore
  adds that the root that was read is still there (`ReadRootsKept`), that a pending root
  follows it and has a revision that nobody else has, stored or pending (`PendingRoots`,
  from the unique key and its lock), that revisions have no gaps (`RevisionsDense`) and
  sizes are lengths (`SizesRight`). Then a root of revision *n*+1 that follows one of
  revision *n* follows the newest one. No clock occurs in the argument.
* `LeafInv` gives `RootsAlwaysBacked` (`RootsBacked`) and `LeavesNeverLostOrRepeated`
  (`NoLeafLostOrRepeated`). It follows a batch through a pass: what has been dequeued is
  still in the table and deleted by nobody else (`PendingDeletes`, the count of deleted
  rows), what a transaction with a root will write is exactly what that root adds
  (`BatchWhole`), and a leaf waits in one transaction only (`PendingLeaves`). The quota
  needs an auxiliary set: the sequenced leaves whose tokens were given back are apart from
  the batches of the signers that are about to give tokens back (`QuotaInv`), and the tokens
  are at most their number times `quotaIncreaseFactor`, whatever it is; for a batch the code
  rounds down (`Tokens`).
* `PublishedRootOnlyAdvances` (`PublishedRootAdvances`) follows from both: a root with a
  higher timestamp that does not follow the published root would have a revision that is
  taken.
* `Refinement` (`ImplementsAppendOnlyLog`): under the mapping of `TrillianLog` (queued
  leaves, hash of the newest root, signed sizes) the commit of a pass is `AIntegrate`, that
  of a server `AAccept` or `ACreate`, and every other step a stutter.
* `LockInv` gives `InsertsNeverCircle` (`NoInsertCycle`): of servers that wait for rows the
  others have inserted, the one whose next leaf is the greatest waits for nobody in the set.
  That is where the sorting in `QueueLeaves` is used, and where the set of open transactions
  has to be finite. It is about inserted rows only: the shared locks that InnoDB takes on
  duplicate keys, and the locks of the signers' deletions, are outside of it, and the comment
  at `storage/mysql/log_storage.go:398` promises no more than to "reduce the chance of
  deadlocks". `Invariance` is the whole `IInv`.

### Signer processes: `LogOperationManagerProofs`

`ManagerInv` gives `ResignationsAlwaysMatch` (`ResignationsMatch`) and `AlwaysOneSigner`
(`OneSignerPerLog`). The channel has each waiting runner once and nobody else
(`ChannelExact`). As long as nothing was disturbed, whoever holds a log has the first key
of its election, the tracker knows only logs that are held and not about to be resigned,
and a log that is worked on is held, because resignations are executed outside of runs
only (`HoldInv`).

### Commit-log design: `CommitLogProofs`

`CommitLogInv` gives `DatabasesAlwaysAgree` (`DatabasesAgree`) and `NeverASurprise`
(`NoSurprise`). No STH names an offset beyond its own (`TopicInv`), nothing counts between
the database of a signer and the offset where its run has stopped, and an STH about to be
appended is over more leaves than that database (`RunInv`), so that if it lands where it
says, it extends the last one that counts. `NeverASurprise` has the hypothesis that the
clock is never set back (`~SteppingClock`): an STH must not be older than its predecessor,
and TLC finds the violation when the clock may step. `DatabasesAlwaysAgree` does not need it.

### Quota: `QuotaProofs`

* `QuotaTypes` (`TypeOK`), `CeilingIsKept` (`WithinCeiling`). They are inductive together: a
  bucket stays below its ceiling because what is put back is capped, and above zero because
  what is put back is not negative, which is a matter of the caches.
* `RateIsLimited` (`RateLimited`). What was granted and what is left in the bucket together
  are at most the maximum and a replenishment per interval up to the time of the last one,
  which is not later than the fastest clock (`RateInv`).
* `TokensAreConserved` (`TokensConserved`). The invariant `TokenInv` says of the bucket, the
  caches, the requests, the calls on their way back and the leaves that wait that together
  they come to the maximum, or after failures to no more than it and what was paid back
  twice (`Balanced`), that finitely many calls are on their way, and that no cache exceeds
  its number of entries. A sum over a set is stated as the number of its
  units, one for each token and holder, so that a step moves finitely many units from one
  set to another; a fold would need an induction. The property is about quotas that only
  sequencing replenishes, as long as nobody changes configurations, outside of dry-run mode
  and with an increase factor of at most 100 percent: above it, which is the default, the
  code makes tokens on purpose.

### Trees: `TreeProofs`

* `TreeTypes` (`TypeOK`), `SignersAlwaysMatch` (`SignersMatchTrees`). The invariant follows
  a key from the call that validated it (`UpdatesKeyed`) to the row (`RowsKeyed`) to the
  cache (`SignersMatchTrees`), and uses that public keys never change and that no cache
  knows an ID that is not handed out yet (`FreshUncached`).
* `NoTreeCollectedEarly` (`NeverCollectedEarly`). Each tree that a sweep has still to delete
  was removed by somebody else, or has been undeleted or deleted anew since it was listed, or
  has been deleted for longer than the threshold (`CollectInv`). Time only passes, so a
  deletion that had expired when it was listed stays so until somebody touches the tree.

### Map: `MapProofs`

`LeavesAlwaysHistory` (`LeavesAreHistory`), with all clients of `MapSystem`. The invariant
`HistoryInv` has three parts, besides the shapes of records and of what clients send:

* `RootsNumbered`: the rows of `MapHead` are the roots that were published, whatever their
  timestamps. The unique key of that table decides: each has a revision of its own, and as
  long as no root has revision -1, the *n*th root published has revision *n*-1, because a
  request works at most at the revision after the latest root's and all smaller ones are
  taken. A request that began before the map was initialised breaks this. If clocks agree,
  the *n*th root has the *n*th timestamp, so that the latest root is the newest; this is the
  only part of the property that asks anything of clocks.
* `LeavesNumbered`: the rows of `MapLeaf` are those of the published requests, each of
  which has set an index at most once.
* `RequestInv`: the rows that a request has not committed are those of the leaves it has
  been through, each index once, because a second one would clash with the first; and its
  revision is not beyond the next. It relates a request to what it will publish, although
  other requests publish and fail while it waits for its subtrees.

The Merkle nodes play no part in it. The leaf that `Get` finds is the last one set because
of the requests that set an index one has the greatest revision, no two have the same, and
that request has set it once.

### Storage in memory: `MemoryStorageProofs`

`MemoryInv` gives `StoreAlwaysAgrees` (`StoreAgrees`) and `LeavesStayInOrder` (`InOrder`),
for servers and sequencers as well as for `dump_tree`.

* The lock has one writer or readers (`Exclusive`), so that whoever is inside works on a
  clone that still equals the tree (`HasClone`, `ReaderInv`, `WriterInv`). A commit
  therefore changes the tree only with a first root or at the end of a pass; what a reader
  or a `QueueLeaves` writes back is there already.
* The newest root covers all stored roots in size and revision (`StoreInv`). A pass adds
  leaves above its size and nodes at a revision above its own, which no earlier root reads.
  No root is later than the clock, so that the root of a pass becomes the newest.
* The queue and the map of hashes are changed before the pass commits. Between
  `UpdateSequencedLeaves` and the signature the leaves of the batch are in neither the log
  nor the queue; the invariant follows log, batch and queue as one sequence (`Ordered`).
  The acknowledged leaves that were not dropped are its elements by rank (`InLine`), the
  dropped ones are the leaves that `InOrder` allows to be missing, and the
  leaves of batch and queue are the latest ones and not dropped, which is why a failed pass
  drops its batch and nothing else. `Remaining` removes by hash as many elements as the
  batch has of it, and since the batch is the front of the queue those are its own
  (`RemainingRest`).

Where an argument is an induction over numbers (the first STH that counts, the newest
revision, the elapsed intervals), the proofs take the least counterexample (`WFMin` over
the order of the naturals) instead.

### Only model-checked

* Everything about liveness: the prover has no `ENABLED` and no fairness.
* `ProofsAreExact`, `AcceptedIsIncluded`, `TrustedRootAdvances`, `RootsCommit`,
  `ClientsPass`: the Merkle algorithms are recursive, and what they compute for every input
  needs induction over data.
* `QueuedOrSequenced`, `RootsAreHistory`, `ReadsAgree`: transactions on Spanner apply lists
  of mutations with folds.
* `DumpPrints`: which pass of `dump_tree` takes how many leaves is a matter of remainders by
  a variable batch size, which the provers do not decide.

## 5. Plan

What is left are proofs: the type invariants of `MapSystem` and `SpannerSystem`, and
`RootsAreHistory` on Spanner, as far as the folds that apply
mutations can be replaced by set comprehensions.

## 6. Where the code and its documentation disagree

`map_race`: `SetLeaves` commits each subtree in a transaction of its own, at the revision of
the request and before the request's root. When two requests work at one revision, the one
that publishes does so over nodes of the other, and the proofs of that revision do not
verify, although "Each requested index will return an inclusion proof"
(`server/map_rpc_server.go:58`). TLC finds the counterexample; `map` shows that a single
writer whose calls succeed is safe, and that leaves and revisions stay right in any case.

`manager_exit`: a runner that resigns puts its resignation into the channel and then receives
from its `done` channel without watching its context (`server/log_operation_manager.go:188`).
Only the loop executes resignations, between two runs. If the loop is told to exit before,
it waits for its runners (line 513), and the runner for the loop: the process does not end,
although `OperationLoop` "continues until told to exit" (line 455). `MastershipIsReleased`
in `manager` shows that this is the only way for a signer not to exit.

The following disagreements are part of the models but have no run of their own. Those of
the first list are what a property exempts, and the property says that nothing else goes
wrong:

* `server/admin/tree_gc.go:61`: "deleteThreshold defines the minimum time a tree has to
  remain in the soft-deleted state". The collector judges the delete time that it has listed;
  `HardDeleteTree` (`storage/mysql/admin_storage.go:541`) only asks, without a lock, whether
  the tree is marked deleted. A tree that was undeleted and deleted again in between is
  removed at once, and one that is being undeleted can be (`NeverCollectedEarly`).
* `client/log_client.go:195`: WaitForInclusion "blocks until the requested data has been
  verified with an inclusion proof". If the leaf is integrated between its two RPCs, beyond
  the size it asks for, it fails with `InvalidArgument` (line 221; `WaitEnds`).
* `storage/memory/doc.go:27`: "does provide transaction-like semantics for the LogStorage
  interface". A pass that fails loses its leaves, because the queue is not part of the
  transaction (`storage/memory/log_storage.go:387`; `InOrder`).
* `storage/map_storage.go:45`: "LatestSignedMapRoot returns the most recently created
  SignedMapRoot". It returns the one with the highest timestamp
  (`storage/mysql/map_storage.go:38`), and `SetLeaves` signs with the clock of its host
  (`server/map_rpc_server.go:215`): a server whose clock is behind publishes revision *n*+1
  and *n* stays the latest; the next request works at *n*+1 again and fails
  (`LeavesAreHistory`).
* `storage/log_storage.go:59`: "LatestSignedLogRoot returns the most recent SignedLogRoot".
  The sequencer takes its host's time (`log/sequencer.go:390`) and nothing compares it with
  the root before, neither on MySQL (`storage/mysql/log_storage.go:52`) nor on Spanner
  (`storage/cloudspanner/log_storage.go:343`): a signer whose clock is behind stores a newer
  root that is not served, and later passes write its revision again and fail
  (`PublishedRootAdvances`, `RootsAreHistory`, `StoredIsSequenced`).

And without a property:

Log and signers

* `server/log_operation_manager.go:467`: after a pass that failed the loop receives from
  `ctx.Done()` and so blocks until it is told to exit: there are no further passes, and no
  resignations are executed.
* `server/log_operation_manager.go:171`: a runner whose `IsMaster` call fails waits for
  mastership again while the tracker still counts it as master; `util/etcd/election.go:70`
  closes the etcd client that all elections of the factory share.
* `docs/storage/commit_log/signer/signer.go:163`: a signer gives up when its STH landed
  at a later offset, so two masters that keep clashing make no progress; the comment at
  line 124 says "whichever entry got the correct offset wins".

Quota and trees

* `quota/etcd/storage/quota_storage.go:148`: an update with `reset_quota` fills up the
  buckets of all quotas, not only of the updated one.
* `quota/etcd/quotaapi/quota_server.go:201`: `notFound` survives the retry of the
  transaction; `quota/cacheqm/cache.go:180`: evicted tokens are put back with the context
  of the RPC, which may be over; `quota/cacheqm/cache.go:62`: the limit on entries is said
  not to count global quotas, and does. In dry-run mode tokens are returned that were
  never taken.
* `storage/mysql/admin_storage.go:461`: `UpdateTree` writes back all mutable columns from a
  row that it read without a lock; of two overlapping updates of different fields one is
  undone (a frozen tree becomes active again). An `UPDATE` that matches no row because the
  tree was removed is reported as a success.
* `server/admin/tree_gc.go:56` says "at least" the threshold, the code asks for more.

Cloud Spanner

* `storage/cloudspanner/log_storage.go:214`: the goroutines of a request share `err`, so a
  leaf whose insertion failed can be acknowledged. Of two leaves of a request with one
  Merkle hash only one is inserted.
* `storage/cloudspanner/admin.go:529`: `updateTreeInfo` names columns that `spanner.sdl`
  does not have, so updates, deletions and undeletions fail at commit, and no tree can be
  hard-deleted (`storage/admin_storage.go:112`: "SoftDeleteTree soft deletes the specified
  tree."). `storage/cloudspanner/admin.go:302` decodes the bytes of a row into a
  `*spannerpb.TreeInfo`, which the client library refuses, so that `ListTrees` fails as soon
  as there is a tree.
* A transaction that is rolled back inside `ReadWriteTransaction` still has its buffered
  writes applied if the function returns nil. A signer whose clock lags by the whole time
  ring would read where the frontends write. `GetLeavesByIndex` reports an inconsistency
  for repeated indices. `ReadOnlyStaleness` is not used.

Map

* A request that fails after some of its subtrees leaves their rows behind: a later request
  at that revision either clashes with them or, if it has no leaves, publishes the failed
  root of the top.
* `SetLeaves` on a map that was never initialised publishes revision -1
  (`storage/tree_storage.go:24`: "ErrTreeNeedsInit is returned when calling methods on an
  uninitialised tree"); an `InitMap` that races with it can leave that root as the latest.
* `SetLeaf` blocks if a subtree's goroutine failed before draining a full queue (1024
  leaves), and other goroutines are left behind by early errors; an error of
  `SnapshotForTree` leaves its transaction open.
* `client.InitMap` retries `AlreadyExists` until its context is done; `CreateTree`, retried
  after a lost answer, leaves a tree that nobody uses.
* `examples/ct/ctmapper/mapper/mapper.go`: entry 0 is skipped, entries without a domain are
  written under the empty one, and empty revisions are published as long as the log does
  not grow.

Storage in memory

* `StoreSignedLogRoot` writes to the tree itself and not to the transaction's clone.
* `storage/memory/log_storage.go:204`: `QueueLeaves` and `SnapshotForTree` keep the lock of
  the tree when they fail before the first root or for a malformed leaf.
* `GetLeavesByHash` compares positions and finds nothing; `GetTree` of an unknown tree
  dereferences nil; `UpdateTree` keeps updates that it refuses; `QueueLeaves` ignores
  duplicates, `DequeueLeaves` the cutoff time; `dump_tree` with no leaves is fatal (`memory`
  shows it).

## 7. What is not modelled

* `storage/mysql/queue_batching.go`, an alternative queue behind a build tag;
  `AddSequencedLeaves`, which is not implemented; `SignRoot` of the sequencer, which
  nothing calls.
* `mysqlqm`, which compares one count with a limit; read quotas, which run the same code
  as write quotas under other names.
* Conflicts and retries inside one etcd transaction; administrative changes of quotas are
  single steps, the `Peek` with which they end included.
* Errors of the scan in `fetchLatestRoot` (`storage/mysql/log_storage.go:648`), which are
  overwritten by what follows; locks on gaps and shared locks of InnoDB.
* Clocks of tree administration: all hosts have one clock in `TreeSystem`.
* The life cycle of transaction handles on Spanner, beyond commit and rollback, and its
  sessions; the connection pools of MySQL.
* Levels and formats of what `dump_tree` prints.
* Cryptography, encodings, metrics, logging, process start-up and the command line tools.
  A hash is what it was computed from, and a signature is valid exactly for what was
  signed.
* Generated code (`*.pb.go`, `storage/mock_storage.go`) and vendored code.
