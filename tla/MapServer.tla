------------------------------- MODULE MapServer -------------------------------
(***************************************************************************)
(* server/map_rpc_server.go.  A request to set leaves runs in a transaction  *)
(* that stores the leaves and the new root; the Merkle nodes are stored by   *)
(* the goroutines of the sparse Merkle tree writer, in transactions of their *)
(* own that commit before the request's does.  Requests to read run in one   *)
(* snapshot, and are functions of the database.                              *)
(***************************************************************************)
EXTENDS SparseMerkleTree

CONSTANTS Writer,        \* requests in progress
          Clock,         \* what the clocks of the hosts may read
          MaxFaults      \* bound: number of failing calls of the database

ASSUME MapServerAssumption == MaxFaults \in Nat /\ Clock \subseteq Nat \ {0}

VARIABLES
    strategy,            \* the hash strategy of the map
    db,                  \* the tables
    req,                 \* the request that each writer serves
    trees,               \* its subtree writers, by prefix
    faults,
    synced               \* the clocks of the hosts agree; it never changes

serverVars == <<strategy, db, req, trees, faults, synced>>

mostRecentRevision == -1

Idle == [op |-> "idle"]

NoTree == [p \in {} |-> newLocalSubtreeWriter(Top, -1)]

-----------------------------------------------------------------------------
(* Reading. *)

Unavailable == [ok |-> FALSE, root |-> NoRoot, inclusions |-> << >>]

getLeavesByRevision(indexes, revision) ==
    LET root == IF revision < 0 THEN LatestSignedMapRoot(db) ELSE GetSignedMapRoot(db, revision)
        empty(index) == MapLeaf(index, Nil, HashLeaf(strategy, index, Nil), Nil)
        leaf(index) == LET found == Get(db, root.rev, index)
                       IN  IF found # << >> THEN found[1] ELSE empty(index)
    IN  IF db.MapHead = {} \/ root = NoRoot \/ \E i \in 1..Len(indexes) : Len(indexes[i]) # HashBits
          THEN Unavailable
          ELSE [ok |-> TRUE, root |-> root,
                inclusions |-> [i \in 1..Len(indexes) |->
                  [leaf |-> leaf(indexes[i]),
                   inclusion |-> InclusionProof(strategy, db.Subtree, root.rev, indexes[i])]]]

GetLeaves(indexes) == getLeavesByRevision(indexes, mostRecentRevision)

GetLeavesByRevision(indexes, revision) ==
    IF revision < 0 THEN Unavailable ELSE getLeavesByRevision(indexes, revision)

SignedMapRootResponse(root) == [ok |-> db.MapHead # {} /\ root # NoRoot, root |-> root]

GetLatestRoot == SignedMapRootResponse(LatestSignedMapRoot(db))

GetSignedMapRootByRevision(revision) ==
    SignedMapRootResponse(IF revision < 0 THEN NoRoot ELSE GetSignedMapRoot(db, revision))

-----------------------------------------------------------------------------
(* time.Now() of the host that serves the request.  Of timestamps only the order
   matters: clocks that agree read later than at the roots that are stored, others
   read anything, and nothing compares a reading with what is stored. *)
Now == IF synced THEN {LatestSignedMapRoot(db).ts + 1} ELSE Clock

makeSignedMapRoot(smrTs, hash, rev, meta) ==
    LET smr == SignedMapRoot(hash, smrTs, rev, meta, Nil)
    IN  [smr EXCEPT !.sig = Unsigned(smr)]

(* The request is answered; goroutines may still run.  An answer that is not ok
   has no root. *)
Answer(w, ok, root) ==
    req' = [req EXCEPT ![w] = [op |-> "answered", ok |-> ok, root |-> root]]

(* SetLeaves begins its transaction and the writer of the top subtree. *)
BeginSet(w, leaves, meta) ==
    /\ req[w] = Idle
    /\ req' = [req EXCEPT ![w] = [op |-> "insert", leaves |-> leaves, meta |-> meta, next |-> 1,
                                  rev |-> WriteRevision(db), rows |-> {}]]
    /\ trees' = [trees EXCEPT ![w] = Top :> newLocalSubtreeWriter(Top, WriteRevision(db))]
    /\ UNCHANGED <<strategy, db, faults, synced>>

Leaf(w) == req[w].leaves[req[w].next]

Holds(v, key, rev) == req[v].op \in {"insert", "send", "wait"} /\ LeafClash(req[v].rows, key, rev)

\* Another transaction has not yet decided about the same row.
Locked(w) == \E v \in Writer \ {w} : Holds(v, Leaf(w).index, req[w].rev)

(* The request ends before its queues are closed: the goroutines wait on, their
   transactions end with the request. *)
GiveUp(w) == Answer(w, FALSE, NoRoot) /\ trees' = [trees EXCEPT ![w] = NoTree]

Inserts(l) == l.value # Nil

InsertLeaf(w) ==
    /\ req[w].op = "insert" /\ req[w].next <= Len(req[w].leaves)
    /\ LET l == Leaf(w)
           leaf == MapLeaf(l.index, l.value, HashLeaf(strategy, l.index, l.value), l.extra)
       IN \/ /\ Len(l.index) # HashBits
             /\ GiveUp(w)
          \/ /\ Len(l.index) = HashBits /\ ~Inserts(l)
             /\ req' = [req EXCEPT ![w].next = @ + 1]
             /\ UNCHANGED trees
          \/ /\ Len(l.index) = HashBits /\ Inserts(l)
             /\ LeafClash(db.MapLeaf \cup req[w].rows, l.index, req[w].rev)
             /\ GiveUp(w)
          \/ /\ Len(l.index) = HashBits /\ Inserts(l)
             /\ ~LeafClash(db.MapLeaf \cup req[w].rows, l.index, req[w].rev) /\ ~Locked(w)
             /\ req' = [req EXCEPT ![w].op = "send", ![w].rows = @ \cup {MapLeafRow(leaf, req[w].rev)}]
             /\ UNCHANGED trees
    /\ UNCHANGED <<strategy, db, faults, synced>>

(* The wait for a lock ends in a timeout, or in a deadlock that the database
   resolves. *)
LockFails(w) ==
    /\ req[w].op = "insert" /\ req[w].next <= Len(req[w].leaves) /\ Locked(w)
    /\ GiveUp(w)
    /\ UNCHANGED <<strategy, db, faults, synced>>

(* Blocks while the queue is full. *)
SendLeaf(w) ==
    /\ req[w].op = "send" /\ HasRoom(trees[w], Leaf(w).index)
    /\ trees' = [trees EXCEPT ![w] =
         SetLeaf(@, Leaf(w).index, HashLeaf(strategy, Leaf(w).index, Leaf(w).value))]
    /\ req' = [req EXCEPT ![w].op = "insert", ![w].next = @ + 1]
    /\ UNCHANGED <<strategy, db, faults, synced>>

CloseQueues(w) ==
    /\ req[w].op = "insert" /\ req[w].next > Len(req[w].leaves)
    /\ trees' = [trees EXCEPT ![w] = CalculateRoot(@)]
    /\ req' = [req EXCEPT ![w].op = "wait"]
    /\ UNCHANGED <<strategy, db, faults, synced>>

\* Mutant: the leaves stay when the root cannot be stored.
PublishedLeaves(w, root) ==
    [db EXCEPT !.MapLeaf = @ \cup req[w].rows,
               !.MapHead = IF RootClash(db, root) THEN @ ELSE @ \cup {root}]

Published(w, root) ==
    IF RootClash(db, root) THEN db
    ELSE [db EXCEPT !.MapLeaf = @ \cup req[w].rows, !.MapHead = @ \cup {root}]

(* The root of the top is there: StoreSignedMapRoot and the commit. *)
Publish(w) ==
    /\ req[w].op = "wait" /\ trees[w][Top].root # NoHash
    /\ \/ /\ trees[w][Top].root = ErrHash
          /\ Answer(w, FALSE, NoRoot) /\ UNCHANGED db
       \/ /\ trees[w][Top].root # ErrHash
          /\ \E smrTs \in Now :
               LET root == makeSignedMapRoot(smrTs, trees[w][Top].root, req[w].rev, req[w].meta)
               IN  /\ db' = Published(w, root)
                   /\ IF RootClash(db, root) THEN Answer(w, FALSE, NoRoot) ELSE Answer(w, TRUE, root)
    /\ UNCHANGED <<strategy, trees, faults, synced>>

Fault == faults < MaxFaults /\ faults' = faults + 1

\* The commit fails, or its answer is lost.
PublishFails(w) ==
    /\ req[w].op = "wait" /\ trees[w][Top].root \notin {NoHash, ErrHash} /\ Fault
    /\ \E smrTs \in Now :
         LET root == makeSignedMapRoot(smrTs, trees[w][Top].root, req[w].rev, req[w].meta)
         IN  db' \in {db, Published(w, root)}
    /\ Answer(w, FALSE, NoRoot)
    /\ UNCHANGED <<strategy, trees, synced>>

-----------------------------------------------------------------------------
(* The goroutine of one subtree. *)

Goroutine(w, p, state) == p \in DOMAIN trees[w] /\ trees[w][p].state = state

BeginSubtree(w, p) ==
    /\ Goroutine(w, p, "begin")
    /\ trees' = [trees EXCEPT ![w][p] = [@ EXCEPT !.state = "drain", !.rev = WriteRevision(db),
                                                  !.view = db.Subtree]]
    /\ UNCHANGED <<strategy, db, req, faults, synced>>

(* The next leaf; the future of a child waits for the child's root. *)
TakeLeaf(w, p) ==
    /\ Goroutine(w, p, "drain") /\ trees[w][p].queue # << >>
    /\ LET e == Head(trees[w][p].queue)
           hash == IF p = Top THEN trees[w][e.index].root ELSE e.hash
       IN  /\ hash # NoHash
           /\ trees' = [trees EXCEPT ![w][p] = IF hash = ErrHash THEN Ended(@, ErrHash)
                                               ELSE Took(@, e.index, hash)]
    /\ UNCHANGED <<strategy, db, req, faults, synced>>

Ready(w, p) == Goroutine(w, p, "drain") /\ trees[w][p].queue = << >> /\ trees[w][p].closed

StoreSubtree(w, p) ==
    /\ Ready(w, p)
    /\ \E b \in {buildSubtree(strategy, trees[w][p])} :
         LET clash == SubtreeClash(db.Subtree, b.rows)
         IN  /\ db' = IF clash THEN db ELSE [db EXCEPT !.Subtree = @ \cup b.rows]
             /\ trees' = [trees EXCEPT ![w][p] = Ended(@, IF clash THEN ErrHash ELSE b.root)]
    /\ UNCHANGED <<strategy, req, faults, synced>>

(* The transaction cannot begin or commit. *)
SubtreeFails(w, p) ==
    /\ Goroutine(w, p, "begin") \/ Ready(w, p)
    /\ req[w].op # "answered" /\ Fault
    /\ trees' = [trees EXCEPT ![w][p] = Ended(@, ErrHash)]
    /\ UNCHANGED <<strategy, db, req, synced>>

(* The request was answered with the error of another goroutine, and its context
   ended. *)
Cancelled(w, p) ==
    /\ req[w].op = "answered" /\ p \in DOMAIN trees[w] /\ trees[w][p].state # "done"
    /\ trees' = [trees EXCEPT ![w][p] = Ended(@, ErrHash)]
    /\ UNCHANGED <<strategy, db, req, faults, synced>>

-----------------------------------------------------------------------------
(* InitMap reads whether there is a root in one step and stores one in another. *)
BeginInit(w) ==
    /\ req[w] = Idle
    /\ IF LatestSignedMapRoot(db) # NoRoot
         THEN Answer(w, FALSE, NoRoot)
         ELSE req' = [req EXCEPT ![w] = [op |-> "init"]]
    /\ UNCHANGED <<strategy, db, trees, faults, synced>>

InitialRoot(smrTs) == makeSignedMapRoot(smrTs, HashEmpty(strategy, Zeros(HashBits), HashBits), 0, Nil)

Initialised(root) == IF RootClash(db, root) THEN db ELSE [db EXCEPT !.MapHead = @ \cup {root}]

StoreInitialRoot(w) ==
    /\ req[w].op = "init"
    /\ \E smrTs \in Now :
         LET root == InitialRoot(smrTs)
         IN  /\ db' = Initialised(root)
             /\ IF RootClash(db, root) THEN Answer(w, FALSE, NoRoot) ELSE Answer(w, TRUE, root)
    /\ UNCHANGED <<strategy, trees, faults, synced>>

InitFails(w) ==
    /\ req[w].op = "init" /\ Fault
    /\ \E smrTs \in Now : db' \in {db, Initialised(InitialRoot(smrTs))}
    /\ Answer(w, FALSE, NoRoot)
    /\ UNCHANGED <<strategy, trees, synced>>

-----------------------------------------------------------------------------
Answered(w) ==
    req[w].op = "answered" /\ \A p \in DOMAIN trees[w] : trees[w][p].state = "done"

(* The client takes the answer. *)
Return(w) ==
    /\ Answered(w)
    /\ req' = [req EXCEPT ![w] = Idle]
    /\ trees' = [trees EXCEPT ![w] = NoTree]
    /\ UNCHANGED <<strategy, db, faults, synced>>

ServerInit(start) ==
    /\ strategy \in Strategies
    /\ db = start
    /\ req = [w \in Writer |-> Idle]
    /\ trees = [w \in Writer |-> NoTree]
    /\ faults = 0

RequestStep(w) ==
    InsertLeaf(w) \/ LockFails(w) \/ SendLeaf(w) \/ CloseQueues(w) \/ Publish(w) \/ StoreInitialRoot(w)

SubtreeStep(w, p) ==
    BeginSubtree(w, p) \/ TakeLeaf(w, p) \/ StoreSubtree(w, p) \/ Cancelled(w, p)

ServerFault(w) ==
    PublishFails(w) \/ InitFails(w) \/ \E p \in DOMAIN trees[w] : SubtreeFails(w, p)
================================================================================
