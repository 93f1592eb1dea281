---------------------------- MODULE LogRPCServer ------------------------------
(***************************************************************************)
(* The log servers that clients talk to (server/log_rpc_server.go), as far *)
(* as they change the log: InitLog and QueueLeaves, down to the statements *)
(* QueueLeaves runs in storage/mysql/log_storage.go.                       *)
(*                                                                         *)
(*   InitLog:      idle -> init -> initcommit -> idle                      *)
(*   QueueLeaves:  idle -> insert ... insert -> retrieve -> ack -> idle    *)
(*                                                                         *)
(* QueueLeaves does not close its transaction when it returns an error; it *)
(* stays open, locks included, until the context of the RPC is cancelled   *)
(* and database/sql rolls it back ("leaked").                              *)
(***************************************************************************)
EXTENDS LogStorage, FiniteSets

CONSTANTS Frontend,      \* the RPC handlers, which are clients of the storage
          MaxRequest,    \* bound: the leaves of one QueueLeaves request
          QueueUntil     \* bound: clients submit leaves up to this time

ASSUME LogRPCServerAssumption ==
    /\ Frontend \subseteq Client
    /\ MaxRequest \in Nat
    /\ QueueUntil \in Nat

VARIABLES request,       \* the leaves of the handler's request, in insertion order
          next,          \* the position in it of the next leaf to insert
          queueTs,       \* the queue timestamp of the request
          existing,      \* the positions in it whose leaf was there already
          acked          \* the leaves some client was told are in the log

frontendVars == <<request, next, queueTs, existing, acked>>

LogRPCServerInit ==
    /\ request = [f \in Frontend |-> << >>]
    /\ next = [f \in Frontend |-> 1]
    /\ queueTs = [f \in Frontend |-> 0]
    /\ existing = [f \in Frontend |-> {}]
    /\ acked = {}

\* The local variables of a handler are gone when it returns.
DropRequest(f) ==
    /\ request' = [request EXCEPT ![f] = << >>]
    /\ next' = [next EXCEPT ![f] = 1]
    /\ queueTs' = [queueTs EXCEPT ![f] = 0]
    /\ existing' = [existing EXCEPT ![f] = {}]

-------------------------------------------------------------------------------
\* InitLog: ReadWriteTransaction opens the transaction.
BeginInit(f) ==
    /\ pc[f] = "idle"
    /\ BeginTx(f)
    /\ Goto(f, "init")
    /\ UNCHANGED <<now, failures, frontendVars>>

\* The first root of a log.
FirstRoot(f) == [rev |-> 0, ts |-> Now(f) + 1, size |-> 0, hash |-> << >>]

InitStore(f) ==
    /\ pc[f] = "init"
    /\ tx[f].root = NoRoot
    /\ HeadWaitsFor(f, FirstRoot(f)) = {}
    /\ HeadOK(FirstRoot(f))
    /\ StoreSignedLogRoot(f, FirstRoot(f))
    /\ now' = now + 1
    /\ Goto(f, "initcommit")
    /\ UNCHANGED <<failures, frontendVars>>

\* The log has a root already: AlreadyExists, or FailedPrecondition if another
\* InitLog has won the race for revision 0.
InitRefused(f) ==
    /\ pc[f] = "init"
    /\ \/ tx[f].root # NoRoot
       \/ HeadWaitsFor(f, FirstRoot(f)) = {} /\ ~HeadOK(FirstRoot(f))
    /\ Rollback(f)
    /\ Goto(f, "idle")
    /\ UNCHANGED <<now, failures, frontendVars>>

InitCommit(f) ==
    /\ pc[f] = "initcommit"
    /\ Commit(f)
    /\ Goto(f, "idle")
    /\ UNCHANGED <<now, failures, frontendVars>>

-------------------------------------------------------------------------------
\* The requests clients make: up to MaxRequest leaves, repetitions included.
Requests == UNION {[1 .. n -> Leaf] : n \in 1 .. MaxRequest}

\* Mutant: the leaves are inserted in the order of the request.
Unsorted(leaves) == {leaves}

\* sort.Sort(byLeafIdentityHashWithPosition(...)).
Sorted(leaves) ==
    {o \in [1 .. Len(leaves) -> Leaf] :
        /\ \A i, j \in 1 .. Len(leaves) : i < j => o[i] <= o[j]
        /\ \A x \in Leaf : Cardinality({i \in 1 .. Len(leaves) : o[i] = x})
                         = Cardinality({i \in 1 .. Len(leaves) : leaves[i] = x})}

\* The transaction is open; leaves are inserted in the order of their hashes.  A
\* log without a root makes QueueLeaves return ErrTreeNeedsInit.
BeginQueue(f) ==
    /\ pc[f] = "idle"
    /\ now <= QueueUntil
    /\ BeginTx(f)
    /\ \E leaves \in Requests : \E o \in Sorted(leaves) :
        request' = [request EXCEPT ![f] = o]
    /\ queueTs' = [queueTs EXCEPT ![f] = Now(f)]
    /\ Goto(f, IF LatestRoot(db) = NoRoot THEN "leaked" ELSE "insert")
    /\ UNCHANGED <<now, failures, next, existing, acked>>

\* The next leaf of the request is inserted into LeafData and Unsequenced, or
\* found to be there already.
InsertNext(f) ==
    LET leaf == request[f][next[f]]
    IN  /\ pc[f] = "insert"
        /\ next[f] <= Len(request[f])
        /\ LeafWaitsFor(f, leaf) = {}
        /\ \/ /\ LeafExists(f, leaf)
              /\ existing' = [existing EXCEPT ![f] = @ \cup {next[f]}]
              /\ UNCHANGED storageVars
           \/ /\ ~LeafExists(f, leaf)
              /\ InsertLeaf(f, leaf, queueTs[f])
              /\ existing' = existing
        /\ next' = [next EXCEPT ![f] = @ + 1]
        /\ UNCHANGED <<runtimeVars, request, queueTs, acked>>

\* Existing leaves are read back (getLeafDataByIdentityHash), which sees the
\* snapshot and the transaction's own inserts; a leaf that another transaction
\* committed after the snapshot is not found, and a leaf asked for twice is
\* returned once.  Either is an error.
Retrieved(f) ==
    {request[f][i] : i \in existing[f]}
        \cap (tx[f].snap.LeafData \cup tx[f].leaves)

RetrieveExisting(f) ==
    /\ pc[f] = "insert"
    /\ next[f] > Len(request[f])
    /\ Goto(f, IF Cardinality(Retrieved(f)) = Cardinality(existing[f])
               THEN "ack" ELSE "leaked")
    /\ UNCHANGED <<storageVars, now, failures, frontendVars>>

\* The transaction commits and the client is told which of its leaves are new and
\* which exist already; the answer may be lost.
CommitQueue(f) ==
    /\ pc[f] = "ack"
    /\ Commit(f)
    /\ \/ /\ acked' = acked \cup {request[f][i] : i \in 1 .. Len(request[f])}
          /\ failures' = failures
       \/ /\ failures < MaxFailures
          /\ failures' = failures + 1
          /\ acked' = acked
    /\ Goto(f, "idle")
    /\ DropRequest(f)
    /\ now' = now

\* The handler has returned its error; the context is cancelled.
ContextDone(f) ==
    /\ pc[f] = "leaked"
    /\ Rollback(f)
    /\ Goto(f, "idle")
    /\ DropRequest(f)
    /\ UNCHANGED <<now, failures, acked>>

FrontendFails(f) ==
    /\ Fail(f)
    /\ DropRequest(f)
    /\ acked' = acked

FrontendStep(f) ==
    \/ BeginInit(f)  \/ InitStore(f)  \/ InitRefused(f)      \/ InitCommit(f)
    \/ BeginQueue(f) \/ InsertNext(f) \/ RetrieveExisting(f) \/ CommitQueue(f)
    \/ ContextDone(f)

===============================================================================
