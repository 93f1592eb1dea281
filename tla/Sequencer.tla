------------------------------ MODULE Sequencer -------------------------------
(***************************************************************************)
(* The signers of a log: Sequencer.IntegrateBatch (log/sequencer.go), run  *)
(* by every signer that holds, or believes it holds, mastership.  Nothing  *)
(* here keeps two signers apart but the transactions of the storage, which *)
(* is the fallback the design counts on when master election fails.        *)
(*                                                                         *)
(*   idle -> fetch -> update -> store -> commit -> replenish -> idle       *)
(***************************************************************************)
EXTENDS LogStorage

CONSTANTS Signer,            \* the signers, which are clients of the storage
          BatchSize,         \* limit: the leaves integrated at once
          GuardWindow,       \* how long a leaf must have been queued
          MaxRootDuration,   \* the age at which a root is renewed, 0 for never
          QuotaIncreaseFactor \* tokens put back for a hundred sequenced leaves

ASSUME SequencerAssumption ==
    /\ Signer \subseteq Client
    /\ BatchSize \in Nat \ {0}
    /\ GuardWindow \in Nat
    /\ MaxRootDuration \in Nat
    /\ QuotaIncreaseFactor \in Nat

VARIABLES start,             \* when the signer's current pass began
          batch,             \* the leaves the signer has dequeued
          replenished        \* the quota tokens put back for sequenced leaves

signerVars == <<start, batch, replenished>>

SequencerInit ==
    /\ start = [s \in Signer |-> 0]
    /\ batch = [s \in Signer |-> << >>]
    /\ replenished = 0

\* isPerfectTree: sizes of the form 2^k.
IsPerfect(size) == \E k \in 0 .. size : 2^k = size

\* initMerkleTreeFromStorage: the compact tree at a root.  A perfect tree is taken
\* from the root itself; otherwise the nodes are read at the root's revision, and
\* the hash recomputed from them has to be the root's.
BuildOK(t) ==
    \/ t.root.size = 0
    \/ IsPerfect(t.root.size)
    \/ NodesMatch(t.snap, t.root.size, t.root.rev, t.root.hash)

\* The local variables of a pass are gone when it ends.
DropLocals(s) ==
    /\ start' = [start EXCEPT ![s] = 0]
    /\ batch' = [batch EXCEPT ![s] = << >>]

\* Returning from a pass, with or without an error; the deferred Close rolls back
\* a transaction that has not been committed.
Return(s) ==
    /\ Rollback(s)
    /\ Goto(s, "idle")
    /\ DropLocals(s)

-------------------------------------------------------------------------------
\* IntegrateBatch opens its transaction.
BeginPass(s) ==
    /\ pc[s] = "idle"
    /\ BeginTx(s)
    /\ start' = [start EXCEPT ![s] = Now(s)]
    /\ Goto(s, "fetch")
    /\ UNCHANGED <<now, failures, batch, replenished>>

\* The log has no root yet: ErrTreeNeedsInit.
NeedsInit(s) ==
    /\ pc[s] = "fetch"
    /\ tx[s].root = NoRoot
    /\ Return(s)
    /\ UNCHANGED <<now, failures, replenished>>

\* Mutant: the guard window keeps the old leaves out instead of the young ones.
SelectedYoung(s) ==
    FirstRows({r \in tx[s].snap.Unsequenced : r.ts >= start[s] - GuardWindow}, BatchSize)

\* The rows DequeueLeaves selects: those queued before the guard window.
Selected(s) ==
    FirstRows({r \in tx[s].snap.Unsequenced : r.ts <= start[s] - GuardWindow}, BatchSize)

Rows(b) == {b[i] : i \in 1 .. Len(b)}

\* An empty batch is integrated only if the root is due for renewal.
RootDue(s) == MaxRootDuration # 0 /\ Now(s) - tx[s].root.ts >= MaxRootDuration

\* logSequencingTask.fetch: select the batch and delete its rows from the queue.
Fetch(s) ==
    /\ pc[s] = "fetch"
    /\ tx[s].root # NoRoot
    /\ \E b \in Selected(s) :
        /\ DeleteWaitsFor(s, Rows(b)) = {}
        /\ DeleteOK(Rows(b))
        /\ b # << >> \/ RootDue(s)
        /\ DeleteQueued(s, Rows(b))
        /\ batch' = [batch EXCEPT ![s] = b]
    /\ Goto(s, "update")
    /\ UNCHANGED <<now, failures, start, replenished>>

\* No leaf to integrate and no root to renew: the transaction commits without
\* having written anything.
NothingToDo(s) ==
    /\ pc[s] = "fetch"
    /\ tx[s].root # NoRoot
    /\ << >> \in Selected(s)
    /\ ~RootDue(s)
    /\ Commit(s)
    /\ Goto(s, "idle")
    /\ DropLocals(s)
    /\ UNCHANGED <<now, failures, replenished>>

\* fetch gives the i-th leaf of the batch the index treeSize + i - 1.
LeafIndex(s, i) == tx[s].root.size + i - 1

NewSequenced(s) ==
    {[seq |-> LeafIndex(s, i), leaf |-> batch[s][i].leaf] : i \in 1 .. Len(batch[s])}

\* Mutant: the nodes are written one revision too late.
NewNodesLate(s) ==
    {[index |-> LeafIndex(s, i), rev |-> tx[s].writeRevision + 1,
      leaf |-> batch[s][i].leaf] : i \in 1 .. Len(batch[s])}

NewNodes(s) ==
    {[index |-> LeafIndex(s, i), rev |-> tx[s].writeRevision, leaf |-> batch[s][i].leaf] :
        i \in 1 .. Len(batch[s])}

\* Build the compact tree, add the leaves to it, store their sequence numbers and
\* hand their nodes to the subtree cache, after checking the write revision.
Update(s) ==
    /\ pc[s] = "update"
    /\ BuildOK(tx[s])
    /\ tx[s].writeRevision = tx[s].root.rev + 1
    /\ SequencedWaitsFor(s, NewSequenced(s)) = {}
    /\ SequencedOK(NewSequenced(s))
    /\ InsertSequenced(s, NewSequenced(s), NewNodes(s))
    /\ Goto(s, "store")
    /\ UNCHANGED <<now, failures, signerVars>>

\* The root of the tree with the batch appended.  The clock advances between two
\* readings (it counts nanoseconds).
NewRoot(s) ==
    [rev  |-> tx[s].writeRevision,
     ts   |-> Now(s) + 1,
     size |-> tx[s].root.size + Len(batch[s]),
     hash |-> tx[s].root.hash \o [i \in 1 .. Len(batch[s]) |-> batch[s][i].leaf]]

\* Sign the new root and store it.
StoreRoot(s) ==
    /\ pc[s] = "store"
    /\ HeadWaitsFor(s, NewRoot(s)) = {}
    /\ HeadOK(NewRoot(s))
    /\ StoreSignedLogRoot(s, NewRoot(s))
    /\ now' = now + 1
    /\ Goto(s, "commit")
    /\ UNCHANGED <<failures, signerVars>>

\* The transaction commits.  If the answer is lost, ReadWriteTransaction returns
\* an error although the batch is integrated, and no token is put back.
CommitPass(s) ==
    /\ pc[s] = "commit"
    /\ Commit(s)
    /\ \/ /\ batch[s] # << >>
          /\ Goto(s, "replenish")
          /\ UNCHANGED <<failures, start, batch>>
       \/ /\ batch[s] = << >>
          /\ Goto(s, "idle")
          /\ DropLocals(s)
          /\ failures' = failures
       \/ /\ failures < MaxFailures
          /\ failures' = failures + 1
          /\ Goto(s, "idle")
          /\ DropLocals(s)
    /\ UNCHANGED <<now, replenished>>

\* A factor below one would lead to token shortages.
quotaIncreaseFactor == IF QuotaIncreaseFactor < 100 THEN 100 ELSE QuotaIncreaseFactor

\* The tokens for a number of leaves, rounded down.
Tokens(leaves) == (leaves * quotaIncreaseFactor) \div 100

\* Tell the quota manager about the sequenced leaves; an error is only logged.
Replenish(s) ==
    /\ pc[s] = "replenish"
    /\ \/ /\ replenished' = replenished + Tokens(Len(batch[s]))
          /\ failures' = failures
       \/ /\ failures < MaxFailures
          /\ failures' = failures + 1
          /\ replenished' = replenished
    /\ Goto(s, "idle")
    /\ DropLocals(s)
    /\ UNCHANGED <<storageVars, now>>

\* A statement of the transaction fails: a row of the batch was removed by a signer
\* that has committed meanwhile; the tree in storage does not have the root's hash,
\* the write revision is not the next one, or a sequence number is taken; another
\* head has the revision or the timestamp; or the flush finds its rows taken.
StatementFails(s) ==
    \/ /\ pc[s] = "fetch"
       /\ tx[s].root # NoRoot
       /\ \E b \in Selected(s) : DeleteWaitsFor(s, Rows(b)) = {} /\ ~DeleteOK(Rows(b))
    \/ /\ pc[s] = "update"
       /\ \/ ~BuildOK(tx[s])
          \/ tx[s].writeRevision # tx[s].root.rev + 1
          \/ SequencedWaitsFor(s, NewSequenced(s)) = {} /\ ~SequencedOK(NewSequenced(s))
    \/ /\ pc[s] = "store"
       /\ HeadWaitsFor(s, NewRoot(s)) = {}
       /\ ~HeadOK(NewRoot(s))
    \/ /\ pc[s] = "commit"
       /\ ~FlushOK(s)

\* The pass returns the error.
Conflict(s) ==
    /\ StatementFails(s)
    /\ Return(s)
    /\ UNCHANGED <<now, failures, replenished>>

SignerFails(s) ==
    /\ Fail(s)
    /\ DropLocals(s)
    /\ UNCHANGED replenished

\* What a signer does when nothing goes wrong outside of it.
SignerStep(s) ==
    \/ BeginPass(s) \/ NeedsInit(s) \/ Fetch(s)      \/ NothingToDo(s) \/ Update(s)
    \/ StoreRoot(s) \/ Conflict(s)  \/ CommitPass(s) \/ Replenish(s)

===============================================================================
