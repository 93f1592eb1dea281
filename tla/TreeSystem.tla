------------------------------- MODULE TreeSystem ------------------------------
(***************************************************************************)
(* Trees and those who depend on their rows: the garbage collectors that   *)
(* every server process runs (server/admin/tree_gc.go), and the signers,   *)
(* which look the tree up before a pass and cache its private key          *)
(* (trees/trees.go, server/sequencer_manager.go).  RPC handlers look trees *)
(* up in the same way and keep the answer in their context.                *)
(***************************************************************************)
EXTENDS TreeAdmin

CONSTANTS Collector,  \* DeletedTreeGC instances
          Signer,     \* signer processes
          Stuck       \* trees whose hard deletion always fails

ASSUME TreeSystemAssumption == "no key" \notin PrivateKey

VARIABLES gc,       \* the sweep of each collector
          pass,     \* the tree for which each signer is in a pass, or NoPass
          signers,  \* each process's cache of signers: the key it has for a tree
          touched   \* history: the trees on a collector's list that have been deleted or
                    \* undeleted since it made the list

vars == <<trees, created, call, calls, clock, gc, pass, signers, touched>>

NoPass == 0
NoKey  == "no key"

\* A collector that is not at work has no locals.
Sleeping == [pc |-> "sleep", now |-> 0, todo |-> {}]

TypeOK ==
    /\ AdminTypeOK
    /\ gc \in [Collector -> [pc : {"sleep", "list", "sweep", "delete"}, now : 0..MaxTime,
                             todo : SUBSET TreeId]]
    /\ pass \in [Signer -> TreeId \cup {NoPass}]
    /\ signers \in [Signer -> [TreeId -> PrivateKey \cup {NoKey}]]
    /\ touched \in [Collector -> SUBSET TreeId]

Init ==
    /\ AdminInit
    /\ gc = [g \in Collector |-> Sleeping]
    /\ pass = [s \in Signer |-> NoPass]
    /\ signers = [s \in Signer |-> [t \in TreeId |-> NoKey]]
    /\ touched = [g \in Collector |-> {}]

-----------------------------------------------------------------------------
(* The garbage collector. *)

\* A sweep reads the clock once, before it lists the trees.
StartSweep(g) ==
    /\ gc[g].pc = "sleep"
    /\ gc' = [gc EXCEPT ![g] = [pc |-> "list", now |-> clock, todo |-> {}]]
    /\ UNCHANGED <<adminVars, pass, signers, touched>>

\* Mutant: trees are collected as soon as they are deleted.
EligibleAtOnce(now) == {t \in TreeId : Deleted(t)}

\* The trees that RunOnce will try to delete, from what it listed.
Eligible(now) == {t \in TreeId : Deleted(t) /\ now - trees[t].deleteTime > Threshold}

\* One transaction lists all trees; the listing can fail.
ListTrees(g) ==
    /\ gc[g].pc = "list"
    /\ \/ gc' = [gc EXCEPT ![g] = [pc |-> "sweep", now |-> 0, todo |-> Eligible(@.now)]]
       \/ gc' = [gc EXCEPT ![g] = Sleeping]
    /\ UNCHANGED <<adminVars, pass, signers, touched>>

\* The collector goes through its list in the order of the IDs.
Current(g) == CHOOSE t \in gc[g].todo : \A u \in gc[g].todo : t <= u

NextTree(g) == [gc[g] EXCEPT !.pc = "sweep", !.todo = @ \ {Current(g)}]

\* Mutant: the first error ends the sweep.
EndAtError(g) == [gc[g] EXCEPT !.pc = "sweep", !.todo = {}]

\* An error is counted, and the sweep goes on with the next tree.
SkipTree(g) == NextTree(g)

\* HardDeleteTree first reads whether the tree is still deleted, in a transaction of its own.
ValidateForHardDelete(g) ==
    /\ gc[g].pc = "sweep" /\ gc[g].todo # {}
    /\ gc' = [gc EXCEPT ![g] = IF ValidateDeleted(Current(g), TRUE)
                               THEN [@ EXCEPT !.pc = "delete"]
                               ELSE SkipTree(g)]
    /\ UNCHANGED <<adminVars, pass, signers, touched>>

\* Then it deletes the row by its key, whatever the row is by then.  All data of the tree
\* goes with it.
HardDeleteTree(g) ==
    /\ gc[g].pc = "delete" /\ Current(g) \notin Stuck
    /\ trees' = [trees EXCEPT ![Current(g)] = NoTree]
    /\ gc' = [gc EXCEPT ![g] = NextTree(g)]
    /\ UNCHANGED <<created, call, calls, clock, pass, signers, touched>>

\* The deletion is rolled back, for instance because the tree has too much data.
HardDeleteFails(g) ==
    /\ gc[g].pc = "delete"
    /\ gc' = [gc EXCEPT ![g] = SkipTree(g)]
    /\ UNCHANGED <<adminVars, pass, signers, touched>>

EndSweep(g) ==
    /\ gc[g].pc = "sweep" /\ gc[g].todo = {}
    /\ gc' = [gc EXCEPT ![g] = Sleeping]
    /\ touched' = [touched EXCEPT ![g] = {}]
    /\ UNCHANGED <<adminVars, pass, signers>>

Collect(g) == \/ StartSweep(g) \/ ListTrees(g) \/ ValidateForHardDelete(g)
              \/ HardDeleteTree(g) \/ HardDeleteFails(g) \/ EndSweep(g)

-----------------------------------------------------------------------------
(* The users of a tree. *)

\* Mutant: only deletion is looked at.
NotDeleted(t) == Exists(t) /\ ~ trees[t].deleted

\* What trees.GetTree lets through to those who are going to write.
Writable(t) == Exists(t) /\ trees[t].state # "FROZEN" /\ ~ trees[t].deleted

\* ExecutePass: GetTree, then the signer of the tree, from the cache if it is there.
ExecutePass(s) ==
    /\ pass[s] = NoPass
    /\ \E t \in TreeId :
          /\ Writable(t)
          /\ pass' = [pass EXCEPT ![s] = t]
          /\ signers' = [signers EXCEPT ![s][t] = IF @ = NoKey THEN trees[t].private ELSE @]
    /\ UNCHANGED <<adminVars, gc, touched>>

\* The batch is integrated, or fails to be; see module Sequencer for what that does.
IntegrateBatch(s) ==
    /\ pass[s] # NoPass
    /\ pass' = [pass EXCEPT ![s] = NoPass]
    /\ UNCHANGED <<adminVars, gc, signers, touched>>

\* A new process has an empty cache.
Restart(s) ==
    /\ pass' = [pass EXCEPT ![s] = NoPass]
    /\ signers' = [signers EXCEPT ![s] = [t \in TreeId |-> NoKey]]
    /\ UNCHANGED <<adminVars, gc, touched>>

-----------------------------------------------------------------------------
\* The history of what happens to trees that are on a list.
Touch ==
    touched' = [g \in Collector |->
        touched[g] \cup {t \in gc[g].todo :
            Exists(t) /\ Exists(t)' /\ trees'[t].deleteTime # trees[t].deleteTime}]

Next ==
    \/ \E a \in Admin : AdminCall(a) /\ Touch /\ UNCHANGED <<gc, pass, signers>>
    \/ Tick /\ UNCHANGED <<gc, pass, signers, touched>>
    \/ \E g \in Collector : Collect(g)
    \/ \E s \in Signer : ExecutePass(s) \/ IntegrateBatch(s) \/ Restart(s)

Spec == Init /\ [][Next]_vars

\* Time passes; collectors sleep for at most twice their interval and then sweep; passes
\* end.  A hard deletion can fail, but of a tree that is not stuck not every time.
Fairness ==
    /\ WF_vars(Tick /\ UNCHANGED <<gc, pass, signers, touched>>)
    /\ \A g \in Collector :
          /\ WF_vars(Collect(g))
          /\ \A t \in TreeId : SF_vars(HardDeleteTree(g) /\ Current(g) = t)
          /\ SF_vars(ListTrees(g) /\ gc'[g].pc = "sweep")
    /\ \A s \in Signer : WF_vars(IntegrateBatch(s))

FairSpec == Spec /\ Fairness

-----------------------------------------------------------------------------
\* Whatever updates, restarts and caches do, a signer signs the roots of a tree with the key
\* that the tree was created with, so that clients who know its public key can verify them.
\* UpdateTree may replace the private key (admin_server.go, applyUpdateMask), and signers
\* keep the one they found for the life of the process (sequencer_manager.go, getSigner).
SignersMatchTrees ==
    \A s \in Signer, t \in TreeId :
        Exists(t) /\ signers[s][t] # NoKey => KeyOf[signers[s][t]] = trees[t].public

\* The tree is deleted, and has been for longer than the threshold.
Expired(t) == Deleted(t) /\ clock - trees[t].deleteTime > Threshold

\* RunOnce of tree_gc.go: "It's OK to list and delete separately because HardDelete does its own
\* state checking".  That checking is done without a lock and does not look at the time again,
\* so that deleteThreshold is not "the minimum time a tree has to remain in the soft-deleted
\* state".  This much is true: a tree disappears only if it has been deleted for longer than
\* the threshold, or if it was undeleted or deleted anew after the sweep that removes it has
\* listed it.
NeverCollectedEarly ==
    [][\A t \in TreeId : Exists(t) /\ ~ Exists(t)' =>
          \/ Expired(t)
          \/ \E g \in Collector : gc[g].pc = "delete" /\ Current(g) = t /\ t \in touched[g]]_vars

\* A tree that is deleted and not undeleted is removed in the end, even if the deletion of
\* another tree fails every time (tree_gc.go: "It attempts to delete as many eligible trees
\* as possible, regardless of failures").
DeletedIsCollected ==
    \A t \in TreeId \ Stuck : Deleted(t) ~> ~ Deleted(t)

\* Once a tree is frozen or deleted for good, passes on it come to an end.  The check is made
\* when a pass begins and not repeated, so some may still finish.
FrozenTreesSettle ==
    \A t \in TreeId :
        <>[](~ Exists(t) \/ trees[t].state = "FROZEN" \/ Deleted(t)) =>
            <>[](\A s \in Signer : pass[s] # t)

=================================================================================
