------------------------------ MODULE LogClient ------------------------------
(***************************************************************************)
(* client/log_client.go with client/log_verifier.go: a client that keeps a  *)
(* trusted root, updates it only along consistency proofs and checks the    *)
(* inclusion of its leaves in it.  Every RPC is a step, so the log may grow *)
(* between two RPCs of a call.  At most MaxFaults times an RPC fails with   *)
(* Unavailable, or is carried out and its answer lost.                      *)
(***************************************************************************)
EXTENDS LogReads

LOCAL INSTANCE SequencesExt

CONSTANTS MaxCalls,     \* bound: number of calls
          MaxFaults,    \* bound: number of RPCs that fail or whose answer is lost
          Leaves,       \* the leaves the calls are about; some may never be submitted
          Indices       \* the indices the calls are about

ASSUME LogClientAssumption ==
    MaxCalls \in Nat /\ MaxFaults \in Nat /\ Leaves \subseteq Nat /\ Indices \subseteq Nat

VARIABLE client

Ops == {"AddLeaf", "WaitForInclusion", "VerifyInclusion", "GetAndVerifyInclusionAtIndex", "ListByIndex"}

Waits(op) == op \in {"AddLeaf", "WaitForInclusion"}

ClientInit ==
    client = [pc |-> "idle", op |-> "none", leaf |-> 0, index |-> 0, want |-> 0, root |-> NoRoot,
              fetched |-> NoRoot, result |-> "none", calls |-> 0, faults |-> 0]

\* The root of a client that has none yet: the zero value of its struct.
Trusted == IF client.root = NoRoot THEN [NoRoot EXCEPT !.hash = EmptyRoot] ELSE client.root

Done(result) == [client EXCEPT !.pc = "done", !.result = result, !.fetched = NoRoot]

Goto(pc) == [client EXCEPT !.pc = pc, !.fetched = NoRoot]

(* What the trusted root becomes, and where the call goes from there. *)
Updated(root) ==
    LET new == IF root.ts > Trusted.ts /\ root.size >= Trusted.size THEN root ELSE client.root
    IN  [client EXCEPT !.root = new,
                       !.fetched = NoRoot,
                       !.pc = IF new.size >= client.want THEN "prove" ELSE "backoff"]

(* An error of UpdateRoot ends the call, except the ones worth a retry. *)
UpdateFailed(code) ==
    IF Waits(client.op) /\ code \in {"Unavailable", "NotFound", "FailedPrecondition"}
      THEN Goto("backoff")
      ELSE Done(code)

\* Mutant: a larger tree is taken for a consistent one.
VerifySize(new, hashes) == new.size >= Trusted.size

VerifyRoot(new, hashes) ==
    Trusted.size # 0 => VerifyConsistencyProof(Trusted.size, new.size, Trusted.hash, new.hash, hashes)

-----------------------------------------------------------------------------
Call(op, leaf, index) ==
    /\ client.pc = "idle"
    /\ client.calls < MaxCalls
    /\ client' = [client EXCEPT !.pc = CASE op = "AddLeaf" -> "queue" [] op = "ListByIndex" -> "list" [] OTHER -> "latest",
                                !.op = op,
                                !.leaf = leaf,
                                !.index = index,
                                \* No inclusion proof exists for the empty tree.
                                !.want = IF Waits(op) THEN 1 ELSE 0,
                                !.calls = @ + 1]
    /\ UNCHANGED treeVars

WithLeaf == IF client.leaf \in ToSet(submitted) THEN submitted ELSE Append(submitted, client.leaf)

(* A leaf that is there already is a success, too. *)
QueueLeaf ==
    /\ client.pc = "queue"
    /\ submitted' = WithLeaf
    /\ client' = Goto("latest")
    /\ UNCHANGED <<subtrees, roots>>

GetLatestRoot ==
    /\ client.pc = "latest"
    /\ \E resp \in {GetLatestSignedLogRoot} :
         client' = CASE resp.code # "OK" -> UpdateFailed(resp.code)
                   [] resp.code = "OK" /\ Trusted.size > 0 /\ resp.body.size = Trusted.size
                        /\ resp.body.hash = Trusted.hash -> Updated(resp.body)
                   [] OTHER -> IF Trusted.size > 0
                                 THEN [Goto("consistency") EXCEPT !.fetched = resp.body]
                                 ELSE Updated(resp.body)
    /\ UNCHANGED treeVars

CheckConsistency ==
    /\ client.pc = "consistency"
    /\ \E resp \in {GetConsistencyProof(Trusted.size, client.fetched.size)} :
         client' = CASE resp.code # "OK" -> UpdateFailed(resp.code)
                   [] resp.code = "OK" /\ VerifyRoot(client.fetched, resp.body.hashes) -> Updated(client.fetched)
                   [] OTHER -> Done("BadProof")
    /\ UNCHANGED treeVars

WaitForRootUpdate ==
    /\ client.pc = "backoff"
    /\ \/ client' = Goto("latest")
       \/ client' = Done("DeadlineExceeded")
    /\ UNCHANGED treeVars

VerifyInclusionByHash(proof) ==
    VerifyInclusionProof(proof.leafIndex, Trusted.size, proof.hashes, Trusted.hash, HashLeaf(client.leaf))

\* Mutant: the tree has to grow by two leaves before the next try.
AwaitTwoMore == [Goto("latest") EXCEPT !.want = Trusted.size + 2]

\* Only a larger tree can have the leaf.
AwaitLargerTree == [Goto("latest") EXCEPT !.want = Trusted.size + 1]

(* getAndVerifyInclusionProof: all proofs for the leaf have to be right; while
   there is no such leaf, wait for a larger tree. *)
ProveByHash ==
    /\ client.pc = "prove"
    /\ client.op # "GetAndVerifyInclusionAtIndex"
    /\ \E resp \in {GetInclusionProofByHash(HashLeaf(client.leaf), Trusted.size)} :
         client' = CASE resp.code = "NotFound" /\ Waits(client.op) -> AwaitLargerTree
                   [] resp.code = "OK" ->
                        Done(IF \A p \in resp.body : VerifyInclusionByHash(p) THEN "OK" ELSE "BadProof")
                   [] OTHER -> Done(resp.code)
    /\ UNCHANGED treeVars

ProveAtIndex ==
    /\ client.pc = "prove"
    /\ client.op = "GetAndVerifyInclusionAtIndex"
    /\ \E resp \in {GetInclusionProof(client.index, Trusted.size)} :
         client' = Done(CASE resp.code # "OK" -> resp.code
                        [] resp.code = "OK" /\ VerifyInclusionProof(client.index, Trusted.size, resp.body.hashes,
                                                                   Trusted.hash, HashLeaf(client.leaf)) -> "OK"
                        [] OTHER -> "BadProof")
    /\ UNCHANGED treeVars

(* The leaves index and index + 1; fewer than asked for is an error. *)
ListByIndex ==
    /\ client.pc = "list"
    /\ \E resp \in {GetLeavesByRange(client.index, 2)} :
         client' = Done(CASE resp.code # "OK" -> resp.code
                        [] resp.code = "OK" /\ Len(resp.body) >= 2
                             /\ \A i \in 1..Len(resp.body) : resp.body[i].leafIndex = client.index + i - 1 -> "OK"
                        [] OTHER -> "BadLeaves")
    /\ UNCHANGED treeVars

Fault ==
    /\ client.pc \in {"queue", "latest", "consistency", "prove", "list"}
    /\ client.faults < MaxFaults
    /\ client' = [(IF client.pc \in {"latest", "consistency"} THEN UpdateFailed("Unavailable") ELSE Done("Unavailable"))
                    EXCEPT !.faults = @ + 1]
    /\ submitted' \in {submitted} \cup (IF client.pc = "queue" THEN {WithLeaf} ELSE {})
    /\ UNCHANGED <<subtrees, roots>>

Return ==
    /\ client.pc = "done"
    /\ client' = [client EXCEPT !.pc = "idle", !.op = "none", !.leaf = 0, !.index = 0, !.want = 0, !.result = "none"]
    /\ UNCHANGED treeVars

ClientStep ==
    \/ QueueLeaf \/ GetLatestRoot \/ CheckConsistency \/ WaitForRootUpdate
    \/ ProveByHash \/ ProveAtIndex \/ ListByIndex \/ Return

ClientNext ==
    \/ \E op \in {"AddLeaf", "WaitForInclusion", "VerifyInclusion"}, leaf \in Leaves :
         /\ op = "AddLeaf" => leaf \in ToSet(Queue)
         /\ Call(op, leaf, 0)
    \/ \E leaf \in Leaves, index \in Indices : Call("GetAndVerifyInclusionAtIndex", leaf, index)
    \/ \E index \in Indices : Call("ListByIndex", 0, index)
    \/ ClientStep
    \/ Fault
=============================================================================
