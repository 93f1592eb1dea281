----------------------------- MODULE TrillianLog ------------------------------
(***************************************************************************)
(* A log of Trillian: the RPC servers that accept leaves and the signers   *)
(* that integrate them, on one MySQL database.                             *)
(***************************************************************************)
EXTENDS Sequencer, LogRPCServer

ASSUME ActorsAssumption ==
    /\ Client = Signer \cup Frontend
    /\ Signer \cap Frontend = {}

vars == <<storageVars, runtimeVars, signerVars, frontendVars>>

Init == StorageInit /\ RuntimeInit /\ SequencerInit /\ LogRPCServerInit

SignerAction(s)   == (SignerStep(s) \/ SignerFails(s)) /\ UNCHANGED frontendVars
FrontendAction(f) == (FrontendStep(f) \/ FrontendFails(f)) /\ UNCHANGED signerVars

Next ==
    \/ \E s \in Signer : SignerAction(s)
    \/ \E f \in Frontend : FrontendAction(f)
    \/ Tick /\ UNCHANGED <<signerVars, frontendVars>>

Spec == Init /\ [][Next]_vars

\* A signer's OperationLoop runs one pass after another, and the clock runs.
\* Nothing is assumed of the clients, nor that failures happen.
Fairness ==
    /\ \A s \in Signer : WF_vars(SignerStep(s) /\ UNCHANGED frontendVars)
    /\ WF_vars(Tick /\ UNCHANGED <<signerVars, frontendVars>>)

FairSpec == Spec /\ Fairness

-------------------------------------------------------------------------------
Labels == {"idle", "fetch", "update", "store", "commit", "replenish",
           "init", "initcommit", "insert", "ack", "leaked"}

\* Every variable has its type, and a transaction is open exactly between the
\* first and the last step of a handler.
TypeOK ==
    /\ db \in Tables
    /\ tx \in [Client -> Transaction]
    /\ pc \in [Client -> Labels]
    /\ now \in Nat
    /\ failures \in 0 .. MaxFailures
    /\ start \in [Signer -> Int]
    /\ batch \in [Signer -> Seq(QueuedRow)]
    /\ replenished \in Nat
    /\ request \in [Frontend -> Seq(Leaf)]
    /\ next \in [Frontend -> Nat \ {0}]
    /\ queueTs \in [Frontend -> Int]
    /\ existing \in [Frontend -> SUBSET Nat]
    /\ acked \in SUBSET Leaf
    /\ \A c \in Client : tx[c].open <=> pc[c] \notin {"idle", "replenish"}

-------------------------------------------------------------------------------
\* The safety of the log.

SequencedLeaves == {r.leaf : r \in db.SequencedLeafData}
QueuedLeaves    == {r.leaf : r \in db.Unsequenced}

\* Any two signed roots are consistent: the tree of the lower revision is a prefix
\* of the tree of the higher one, and a revision is signed once.  This has to hold
\* for any number of signers that integrate at the same time (log/sequencer.go,
\* "it should not be possible for colliding updates to commit").
RootsConsistent ==
    \A g, h \in db.TreeHead :
        g.rev <= h.rev =>
            /\ g.rev = h.rev => g = h
            /\ g.size <= h.size
            /\ \A i \in 1 .. g.size : g.hash[i] = h.hash[i]

\* A signed root commits to exactly the leaves that are served at the indexes below
\* its size: SequencedLeafData (GetLeavesByIndex and the like) and the Merkle nodes
\* at the root's revision (the proofs) both agree with its hash.
RootsBacked ==
    \A h \in db.TreeHead :
        /\ h.size = Len(h.hash)
        /\ \A i \in 1 .. h.size : [seq |-> i - 1, leaf |-> h.hash[i]] \in db.SequencedLeafData
        /\ NodesMatch(db, h.size, h.rev, h.hash)

\* The tokens put back are those of at most so many leaves.
PaidFor(leaves) == 100 * replenished <= quotaIncreaseFactor * leaves

\* A sequence number is given to one leaf and a leaf gets one sequence number, no
\* number beyond the newest root is taken, and a stored leaf is either waiting in
\* the queue or sequenced, never both and never neither: whatever crashes, rolls
\* back or is retried, no leaf is lost between the queue and the tree.  And quota is
\* put back at most once for a sequenced leaf, at the rate of the increase factor.
NoLeafLostOrRepeated ==
    /\ \A r, q \in db.SequencedLeafData : r.seq = q.seq \/ r.leaf = q.leaf => r = q
    /\ \A r \in db.SequencedLeafData : \E h \in db.TreeHead : r.seq < h.size
    /\ \A r, q \in db.Unsequenced : r.leaf = q.leaf => r = q
    /\ QueuedLeaves \cap SequencedLeaves = {}
    /\ QueuedLeaves \cup SequencedLeaves = db.LeafData
    /\ PaidFor(Cardinality(db.SequencedLeafData))

\* The handlers that have inserted the row which the next insert of f meets.
InsertWaitsFor(f) ==
    IF pc[f] = "insert" /\ next[f] <= Len(request[f])
    THEN LeafWaitsFor(f, request[f][next[f]]) ELSE {}

\* Handlers of QueueLeaves never wait in a circle for rows that the others of the circle
\* have inserted, whatever leaves their requests share and in whatever order clients
\* name them: that is what inserting in the order of the hashes is for
\* (storage/mysql/log_storage.go, "to reduce the chance of deadlocks").  It is the chance
\* and not all of it: InnoDB gives shared locks to those who waited for an insert that is
\* rolled back, and circles of these are not meant here.
NoInsertCycle ==
    \A S \in (SUBSET Frontend) \ {{}} : \E f \in S : InsertWaitsFor(f) \cap S = {}

\* The root that the server hands out (GetLatestSignedLogRoot) only ever moves to a
\* root of a later revision whose tree extends the one before.
PublishedRootAdvances ==
    [][LET old == LatestRoot(db)
           new == LatestRoot(db)'
       IN  old # new => /\ new.rev > old.rev
                        /\ new.size >= old.size
                        /\ \A i \in 1 .. old.size : new.hash[i] = old.hash[i]]_vars

-------------------------------------------------------------------------------
\* The log implements the append-only log: its content is the tree of the highest
\* revision, which the server hands out unless clocks disagree.
Newest(heads) == {h \in heads : \A g \in heads : g.rev <= h.rev}

NewestRoot ==
    IF Newest(db.TreeHead) = {} THEN NoRoot
    ELSE CHOOSE h \in Newest(db.TreeHead) : TRUE

Abstract == INSTANCE AppendOnlyLog
    WITH queue <- QueuedLeaves,
         log   <- NewestRoot.hash,
         heads <- {h.size : h \in db.TreeHead}

\* Every commit, of any client, is one step of the append-only log or none: batches
\* of concurrent signers are appended one after the other, never merged, reordered
\* or applied twice, and an acknowledged duplicate adds nothing.
ImplementsAppendOnlyLog == Abstract!ASpec

-------------------------------------------------------------------------------

InLatestRoot(leaf) == \E i \in 1 .. LatestRoot(db).size : LatestRoot(db).hash[i] = leaf

\* A leaf that QueueLeaves acknowledged, as new or as a duplicate, is eventually in
\* the tree of the root that the server hands out: again and again there comes a time at
\* which this is so of all leaves acknowledged by then.
AckedIsIntegrated == []<>(\A leaf \in acked : InLatestRoot(leaf))

-----------------------------------------------------------------------------
(* The inductive invariant behind the consistency of the roots. *)

\* A root that may be signed after the given one: the next revision of a tree that
\* extends its tree.  (After NoRoot: revision 0.)
Follows(h, root) ==
    /\ h.rev = root.rev + 1
    /\ h.size = Len(h.hash)
    /\ root.size <= h.size
    /\ \A i \in 1 .. root.size : h.hash[i] = root.hash[i]

\* A root that a transaction has read stays in the table.
ReadRootsKept == \A c \in Client : tx[c].root \in db.TreeHead \cup {NoRoot}

\* A transaction stores at most one root; it follows the one that was read, and no
\* other root, stored or about to be, has its revision.
PendingRoots ==
    \A c \in Client : \A h \in tx[c].heads :
        /\ Follows(h, tx[c].root)
        /\ \A g \in tx[c].heads : g = h
        /\ \A g \in db.TreeHead : g.rev # h.rev
        /\ \A d \in Client \ {c} : \A g \in tx[d].heads : g.rev # h.rev

\* No revision is skipped.
RevisionsDense ==
    \A h \in db.TreeHead : \A k \in 0 .. h.rev : \E g \in db.TreeHead : g.rev = k

SizesRight == \A h \in db.TreeHead : h.size = Len(h.hash)

RootsInv ==
    ReadRootsKept /\ PendingRoots /\ RevisionsDense /\ SizesRight /\ RootsConsistent

\* What a signer knows about its transaction at each step, and where roots are
\* pending.
StepInv ==
    /\ \A s \in Signer :
        /\ pc[s] \in {"update", "store", "commit"} => tx[s].root # NoRoot
        /\ pc[s] \in {"store", "commit"} => tx[s].writeRevision = tx[s].root.rev + 1
    /\ \A c \in Client : tx[c].heads # {} => pc[c] \in {"commit", "initcommit"}

\* The three together are inductive.
RInv == TypeOK /\ StepInv /\ RootsInv

-----------------------------------------------------------------------------
(* The inductive invariant behind the leaves, the nodes and the quota. *)

\* A root about to be stored has a timestamp of its own.
PendingStamp(c) ==
    \A h \in tx[c].heads :
        /\ \A g \in db.TreeHead : g.ts # h.ts
        /\ \A d \in Client \ {c} : \A g \in tx[d].heads : g.ts # h.ts

\* A leaf that waits to be committed is in no other transaction and not in LeafData,
\* and its queue row waits with it.
PendingLeaves(c) ==
    /\ \A r \in tx[c].queued : r.leaf \in tx[c].leaves
    /\ \A leaf \in tx[c].leaves : \E r \in tx[c].queued : r.leaf = leaf
    /\ \A r, q \in tx[c].queued : r.leaf = q.leaf => r = q
    /\ \A leaf \in tx[c].leaves :
           leaf \notin db.LeafData /\ \A d \in Client \ {c} : leaf \notin tx[d].leaves

\* A row that a transaction has deleted is in the queue until it commits, and no
\* other transaction has deleted it.
PendingDeletes(c) ==
    \A r \in tx[c].deleted :
        r \in db.Unsequenced /\ \A d \in Client \ {c} : r \notin tx[d].deleted

\* A transaction with a root to store holds exactly what that root adds to the tree.
Adds(t, h, new) ==
    /\ t.sequenced = {[seq |-> i - 1, leaf |-> h.hash[i]] : i \in new}
    /\ t.nodes = {[index |-> i - 1, rev |-> h.rev, leaf |-> h.hash[i]] : i \in new}
    /\ {r.leaf : r \in t.deleted} = {h.hash[i] : i \in new}
    /\ \A i, j \in new : h.hash[i] = h.hash[j] => i = j

BatchWhole(t) == \A h \in t.heads : Adds(t, h, t.root.size + 1 .. h.size)

PendingInv(c) == PendingStamp(c) /\ PendingLeaves(c) /\ PendingDeletes(c) /\ BatchWhole(tx[c])

\* A signer writes its batch and nothing else, step by step.
SignerWrites(s) ==
    /\ tx[s].leaves = {} /\ tx[s].queued = {}
    /\ pc[s] \notin {"update", "store", "commit"} => tx[s].deleted = {}
    /\ pc[s] \notin {"store", "commit"} => tx[s].sequenced = {} /\ tx[s].nodes = {}
    /\ pc[s] \in {"update", "store", "commit"} => tx[s].deleted = Rows(batch[s])
    /\ pc[s] \in {"update", "store", "commit", "replenish"} =>
           \A i, j \in 1 .. Len(batch[s]) : batch[s][i].leaf = batch[s][j].leaf => i = j
    /\ pc[s] = "store" => tx[s].sequenced = NewSequenced(s) /\ tx[s].nodes = NewNodes(s)
    /\ pc[s] = "commit" => tx[s].heads # {}

\* A server writes the first root, or leaves once there is a root.
FrontendWrites(f) ==
    /\ tx[f].deleted = {} /\ tx[f].sequenced = {} /\ tx[f].nodes = {}
    /\ \A h \in tx[f].heads : h.size = 0 /\ tx[f].root = NoRoot
    /\ pc[f] \notin {"insert", "ack", "leaked"} => tx[f].leaves = {}
    /\ pc[f] \in {"insert", "ack"} => tx[f].root # NoRoot

StampsUnique == \A g, h \in db.TreeHead : g.ts = h.ts => g = h

\* The rows and the nodes of every root are in the tables, and no others.
RowsKept ==
    /\ \A h \in db.TreeHead : \A i \in 1 .. h.size :
           [seq |-> i - 1, leaf |-> h.hash[i]] \in db.SequencedLeafData
    /\ \A r, q \in db.SequencedLeafData : r.seq = q.seq \/ r.leaf = q.leaf => r = q
    /\ \A r \in db.SequencedLeafData : \E h \in db.TreeHead : r.seq < h.size

NodesKept ==
    /\ \A h \in db.TreeHead : \A i \in 1 .. h.size :
           \E n \in db.Subtree : n.index = i - 1 /\ n.rev <= h.rev /\ n.leaf = h.hash[i]
    /\ \A n, m \in db.Subtree : n.index = m.index => n = m
    /\ \A n \in db.Subtree : \E h \in db.TreeHead : n.index < h.size

\* A leaf of the log is queued once or sequenced, and never both.
QueueExact ==
    /\ \A r, q \in db.Unsequenced : r.leaf = q.leaf => r = q
    /\ \A r \in db.Unsequenced : r.leaf \in db.LeafData /\ r.leaf \notin SequencedLeaves
    /\ \A leaf \in db.LeafData : leaf \in QueuedLeaves \cup SequencedLeaves
    /\ SequencedLeaves \subseteq db.LeafData

BatchLeaves(s) == {batch[s][i].leaf : i \in 1 .. Len(batch[s])}

Replenishing == {s \in Signer : pc[s] = "replenish"}

\* Tokens were put back for sequenced leaves, each leaf once: the batches whose
\* tokens are still to be put back are apart from those and from each other.
QuotaInv ==
    /\ IsFiniteSet(db.SequencedLeafData)
    /\ \A s \in Replenishing :
        /\ BatchLeaves(s) \subseteq SequencedLeaves
        /\ \A d \in Replenishing \ {s} : BatchLeaves(s) \cap BatchLeaves(d) = {}
    /\ \E done \in SUBSET db.SequencedLeafData :
        /\ PaidFor(Cardinality(done))
        /\ \A s \in Replenishing : \A r \in done : r.leaf \notin BatchLeaves(s)

TablesInv == StampsUnique /\ RowsKept /\ NodesKept /\ QueueExact

LeafInv ==
    /\ \A c \in Client : PendingInv(c)
    /\ \A s \in Signer : SignerWrites(s)
    /\ \A f \in Frontend : FrontendWrites(f)
    /\ TablesInv
    /\ QuotaInv

-----------------------------------------------------------------------------
(* The inductive invariant behind the order of the row locks. *)

Open == {c \in Client : tx[c].open}

\* A server has inserted leaves of the request up to the next one, in order.
InsertsInOrder(f) ==
    pc[f] = "insert" =>
        /\ \A i, j \in 1 .. Len(request[f]) : i < j => request[f][i] <= request[f][j]
        /\ \A leaf \in tx[f].leaves :
               \E i \in 1 .. Len(request[f]) : i < next[f] /\ request[f][i] = leaf

LockInv == IsFiniteSet(Open) /\ \A f \in Frontend : InsertsInOrder(f)

IInv == RInv /\ LeafInv /\ LockInv

===============================================================================
