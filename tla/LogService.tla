------------------------------ MODULE LogService -----------------------------
(***************************************************************************)
(* A log whose tree the signer extends, and one of its users: nobody, so    *)
(* that only the tables and the answers are looked at ("audit"), a client,  *)
(* the integration test, or a program that works with the in-memory tree    *)
(* alone.                                                                   *)
(***************************************************************************)
EXTENDS LogClient, LogDriver

LOCAL INSTANCE SequencesExt
LOCAL INSTANCE FiniteSetsExt

CONSTANTS MaxBatches,   \* bound: number of passes while nobody uses the log
          Cuts,         \* bound: sizes at which the passes stop while a user is there
          MaxTree       \* bound: leaves of the in-memory tree

ASSUME LogServiceAssumption == MaxBatches \in Nat /\ Cuts \subseteq Nat /\ MaxTree \in 0..Len(Queue)

VARIABLE user

vars == <<submitted, subtrees, roots, client, driver, user>>

Init ==
    /\ user \in {"audit", "client", "driver", "tree"}
    /\ TreeInit
    /\ submitted = CASE user = "audit" -> Queue [] user = "client" -> Front(Queue) [] OTHER -> << >>
    /\ ClientInit
    /\ DriverInit

Batches == Cardinality({i \in 2..Len(roots) : roots[i].size > roots[i - 1].size})

Integrate ==
    /\ \E size \in 1..Len(Queue) :
         /\ IF user = "audit"
              THEN Batches < MaxBatches /\ (Batches = MaxBatches - 1 => size = Len(Queue))
              ELSE size \in Cuts \cup {Len(submitted)}
         /\ IntegrateBatch(size)
    /\ UNCHANGED <<client, driver, user>>

OtherRoots ==
    /\ user # "tree"
    /\ InitLog \/ SignRoot
    /\ UNCHANGED <<client, driver, user>>

(* The database of the log is restored from a backup that lacks the latest root,
   and the leaves after it are sequenced anew, in another order. *)
Restored == ~IsPrefix(submitted, Queue)

Restore ==
    /\ user = "client"
    /\ ~Restored
    /\ Len(roots) > 1 /\ Last(Front(roots)).size + 1 < Len(submitted)
    /\ roots' = Front(roots)
    /\ subtrees' = {r \in subtrees : r.rev <= Last(Front(roots)).rev}
    /\ LET kept == Last(Front(roots)).size
       IN  submitted' = SubSeq(submitted, 1, kept) \o Reverse(SubSeq(submitted, kept + 1, Len(submitted)))
    /\ UNCHANGED <<client, driver, user>>

UseClient == user = "client" /\ ClientNext /\ UNCHANGED <<driver, user>>

\* The test starts with a log that was initialised.
UseDriver == user = "driver" /\ roots # << >> /\ DriverNext /\ UNCHANGED <<client, user>>

GrowTree ==
    /\ user = "tree"
    /\ LeafCount(driver.mt) < MaxTree
    /\ driver' = [driver EXCEPT !.mt = AddLeafHashTo(@, HashLeaf(Queue[LeafCount(@) + 1]))]
    /\ UNCHANGED <<submitted, subtrees, roots, client, user>>

EvaluateTree ==
    /\ user = "tree"
    /\ \E snapshot \in 0..LeafCount(driver.mt), leaf \in 0..LeafCount(driver.mt) :
         driver' = [driver EXCEPT !.mt = IF leaf = 0 THEN RootAtSnapshot(@, snapshot).tree
                                                     ELSE PathToRootAtSnapshot(@, leaf, snapshot).tree]
    /\ UNCHANGED <<submitted, subtrees, roots, client, user>>

Next == Integrate \/ OtherRoots \/ Restore \/ UseClient \/ UseDriver \/ GrowTree \/ EvaluateTree

(* The signer goes on as long as leaves are waiting (property AckedIsIntegrated
   of TrillianLog); a client takes its steps and backs off instead of giving
   up.  Weak fairness with ENABLED written out, which TLC could only evaluate
   by hashing the tree again and again. *)
ClientGoesOn == ClientStep /\ client'.result # "DeadlineExceeded"

Fairness ==
    /\ []<>~(user # "tree" /\ roots = << >>) \/ []<><<OtherRoots>>_vars
    /\ []<>~(roots # << >> /\ LatestRoot.size < Len(submitted)) \/ []<><<Integrate>>_vars
    /\ []<>~(user = "client" /\ client.pc # "idle") \/ []<><<ClientGoesOn>>_vars

Spec == Init /\ [][Next]_vars /\ Fairness

-----------------------------------------------------------------------------
Prefix(size) == SubSeq(Queue, 1, size)

RECURSIVE LeavesOf(_)
LeavesOf(hash) ==
    CASE Len(hash) = 0 -> << >> [] Len(hash) = 1 -> hash [] OTHER -> LeavesOf(hash[1]) \o LeavesOf(hash[2])

Committed(root) == IF root = NoRoot THEN << >> ELSE LeavesOf(root.hash)

(* The state of the log, of its client and of its test keep their types. *)
TypeOK ==
    /\ ToSet(submitted) \subseteq ToSet(Queue) /\ Len(submitted) <= Len(Queue)
    /\ \A r \in subtrees : r.rev \in 0..(Len(roots) - 1) /\ DOMAIN r.subtree.leaves # {}
    /\ \A i \in 1..Len(roots) : roots[i].size \in 0..Len(submitted) /\ roots[i].rev = i - 1
    /\ client.pc \in {"idle", "queue", "latest", "consistency", "backoff", "prove", "list", "done"}
    /\ Restored \/ {client.root, client.fetched} \subseteq {NoRoot} \cup ToSet(roots)

(* Every signed root is the Merkle tree hash of the leaves it counts, however
   they were split into passes, and the stored nodes are enough for the next
   pass to go on from it. *)
RootsCommitToLeaves ==
    user = "audit" =>
      /\ \A i \in 1..Len(roots) : roots[i].hash = TreeHash(Prefix(roots[i].size))
      /\ roots # << >> => TreeFromStorage(subtrees, LatestRoot).ok

(* For every size up to that of the latest root, signed or not, the server
   builds exactly the proofs of RFC 6962 from the nodes it finds in storage. *)
ServedProofsExact ==
    user = "audit" =>
      \A size \in 1..LatestRoot.size :
        /\ \A i \in 0..(size - 1) : GetInclusionProof(i, size) = OK(Proof(i, AuditPath(i, Prefix(size))))
        /\ \A first \in 1..size :
             GetConsistencyProof(first, size) = OK(Proof(0, ConsistencyProof(first, Prefix(size))))

(* A client finds a proof wrong only if the log was set back or the leaf really is
   not at that index, and accepts a leaf only if the root it trusts covers it. *)
AcceptedIsIncluded ==
    LET trusted == Committed(client.root)
        atIndex == client.op = "GetAndVerifyInclusionAtIndex"
    IN  /\ client.result # "Unknown"
        /\ client.result = "BadProof" => Restored \/ (atIndex /\ trusted[client.index + 1] # client.leaf)
        /\ client.result = "OK" /\ client.op # "ListByIndex" => client.leaf \in ToSet(trusted)
        /\ client.result = "OK" /\ atIndex => trusted[client.index + 1] = client.leaf

(* Even when the log is set back and goes on with other leaves, the root a client
   trusts never gets smaller or older, and the one that replaces it commits to
   the same leaves and more. *)
TrustedRootAdvances ==
    [][client'.root # client.root =>
         /\ client'.root.ts > client.root.ts
         /\ IsPrefix(Committed(client.root), Committed(client'.root))]_vars

(* The integration test passes whatever the batches of the signer are. *)
DriverPasses == driver.pc # "failed"

(* Whatever the in-memory tree was asked before, its answers are those of
   RFC 6962 for every size. *)
LazyTreeAgrees ==
    user = "tree" =>
      \A size \in 0..LeafCount(driver.mt) :
        /\ RootAtSnapshot(driver.mt, size).root = TreeHash(Prefix(size))
        /\ \A i \in 1..size : PathToRootAtSnapshot(driver.mt, i, size).path = AuditPath(i - 1, Prefix(size))
        /\ \A first \in 1..size :
             SnapshotConsistencyOf(driver.mt, first, size).path = ConsistencyProof(first, Prefix(size))

(* Signed roots, the proofs that the server builds from stored nodes and those of
   the in-memory tree are the ones of RFC 6962, and so the integration test, which
   compares them, passes (merkle/merkle_path.go, server/proof_fetcher.go,
   storage/cache, merkle/memory_merkle_tree.go, integration/log.go). *)
ProofsAreExact ==
    TypeOK /\ RootsCommitToLeaves /\ ServedProofsExact /\ LazyTreeAgrees /\ DriverPasses

\* The leaf is in the log, at an index that the root the client trusts does not cover.
Overtaken == \E i \in (client.root.size + 1)..LatestRoot.size : submitted[i] = client.leaf

\* What may end a wait: the proof, the context, an RPC that failed, a leaf that came too soon.
WaitEnded ==
    /\ client.pc = "done"
    /\ \/ client.result \in {"OK", "DeadlineExceeded"}
       \/ client.result = "Unavailable" /\ client.faults > 0
       \/ client.result = "InvalidArgument" /\ Overtaken

(* A client that waits for a leaf that was submitted, and whose context does not time
   out, in the end holds an inclusion proof that it has verified.  Only two things
   can end the wait with an error: an RPC that failed, and a pass that integrates the
   leaf after the client has taken its root (client/log_client.go, WaitForInclusion).
   Nothing is said about a log that was set back. *)
WaitEnds ==
    client.pc = "latest" /\ Waits(client.op) /\ client.leaf \in ToSet(submitted) ~> WaitEnded \/ Restored

=============================================================================
