------------------------------- MODULE TreeProofs ------------------------------
(***************************************************************************)
(* Proofs about TreeSystem, for any number of trees, callers, collectors   *)
(* and signers: the type invariant, that signers never hold a key that is  *)
(* not the tree's, and that no tree is collected early.                    *)
(*                                                                         *)
(* The second is not inductive by itself.  The key in a signer's cache     *)
(* came from a row, the key in a row from a call, and a call checked its   *)
(* key against a row that may have changed since; so the invariant speaks  *)
(* of caches, rows and calls.  A cache must also not know a tree that does *)
(* not exist yet.                                                          *)
(***************************************************************************)
EXTENDS TreeSystem, NaturalsInduction, WellFoundedInduction, TLAPS

RowsKeyed ==
    \A t \in TreeId : Exists(t) => KeyOf[trees[t].private] = trees[t].public

\* An update that has been validated still fits the row when it is written, since nothing
\* ever changes the public key of a row.
UpdatesKeyed ==
    \A a \in Admin :
        call[a].op = "UpdateTree" /\ Exists(call[a].tree) =>
            KeyOf[call[a].private] = trees[call[a].tree].public

FreshUncached ==
    \A s \in Signer, t \in TreeId \ created : signers[s][t] = NoKey

IInv == TypeOK /\ RowsKeyed /\ UpdatesKeyed /\ FreshUncached /\ SignersMatchTrees

-----------------------------------------------------------------------------
\* A call about to write has the form that its operation gives it.
LEMMA CallForms ==
    ASSUME NEW c \in Call
    PROVE  /\ c.op = "UpdateTree" =>
                 c.tree \in TreeId /\ c.state \in Stored /\ c.private \in PrivateKey
           /\ c.op = "SoftDeleteTree" => c.tree \in TreeId /\ c.time \in 0 .. MaxTime
           /\ c.op = "UndeleteTree" => c.tree \in TreeId
    BY DEF Call, Idle

\* An operation that has read its row and not yet written it is not idle.
LEMMA NotIdle ==
    ASSUME NEW c \in Call, c.op \in {"UpdateTree", "SoftDeleteTree", "UndeleteTree"}
    PROVE  c # Idle
    BY DEF Call, Idle

\* A row is not the absence of one.
LEMMA RowExists ==
    ASSUME NEW r \in Row
    PROVE  r # NoTree
<1>1. r.state # "no row"
    BY DEF Row, Stored
<1>2. NoTree.state = "no row"
    BY DEF NoTree
<1> QED
    BY <1>1, <1>2

\* The bounds leave room for a first step.
LEMMA Bounds == /\ MaxTime \in Nat /\ MaxCalls \in Nat
                /\ 0 \in 0 .. MaxTime /\ 0 \in 0 .. MaxCalls
<1>1. MaxTime \in Nat /\ MaxCalls \in Nat
    BY TreeAdminAssumption
<1> QED
    BY <1>1

LEMMA InitTypes == Init => IInv
<1> SUFFICES ASSUME Init PROVE IInv
    OBVIOUS
<1> USE TreeAdminAssumption, TreeSystemAssumption DEF Init, AdminInit
<1>0. 0 \in 0 .. MaxTime /\ 0 \in 0 .. MaxCalls
    BY Bounds
<1>1. AdminTypeOK
  <2>1. call \in [Admin -> Call] /\ \A a \in Admin : call[a] = Idle
    BY DEF Call
  <2>2. trees \in [TreeId -> Row \cup {NoTree}] /\ \A t \in TreeId : ~ Exists(t)
    BY DEF Exists
  <2>3. created \subseteq TreeId /\ calls \in 0 .. MaxCalls /\ clock \in 0 .. MaxTime
    BY <1>0
  <2> QED
    BY <2>1, <2>2, <2>3 DEF AdminTypeOK
<1>2. TypeOK
  <2>1. Sleeping \in [pc : {"sleep", "list", "sweep", "delete"}, now : 0 .. MaxTime,
                      todo : SUBSET TreeId]
    BY <1>0 DEF Sleeping
  <2>2. pass \in [Signer -> TreeId \cup {NoPass}]
    OBVIOUS
  <2>3. signers \in [Signer -> [TreeId -> PrivateKey \cup {NoKey}]]
    OBVIOUS
  <2>4. touched \in [Collector -> SUBSET TreeId]
    OBVIOUS
  <2> QED
    BY <1>1, <2>1, <2>2, <2>3, <2>4 DEF TypeOK
<1>3. RowsKeyed /\ SignersMatchTrees
    BY DEF RowsKeyed, SignersMatchTrees, Exists
<1>4. UpdatesKeyed
    BY DEF UpdatesKeyed, Idle
<1>5. FreshUncached
    BY DEF FreshUncached
<1> QED
    BY <1>2, <1>3, <1>4, <1>5 DEF IInv

-----------------------------------------------------------------------------
(* What a step on the rows leaves alone. *)

\* No tree that exists already gets another public key or comes back from deletion.
PublicKept ==
    /\ created \subseteq created'
    /\ \A t \in created : Exists(t)' => Exists(t) /\ trees'[t].public = trees[t].public

\* Calls that were validated before stay valid.
LEMMA UpdatesKept ==
    ASSUME AdminTypeOK, UpdatesKeyed, PublicKept,
           \A b \in Admin : call'[b] = call[b] \/ call'[b].op # "UpdateTree"
    PROVE  UpdatesKeyed'
<1> SUFFICES ASSUME NEW b \in Admin, call'[b].op = "UpdateTree", trees'[call'[b].tree] # NoTree
             PROVE  KeyOf[call'[b].private] = trees'[call'[b].tree].public
    BY DEF UpdatesKeyed, Exists
<1>1. call'[b] = call[b] /\ call[b] \in Call
    BY DEF AdminTypeOK
<1>2. call[b].tree \in created
    BY <1>1, NotIdle DEF AdminTypeOK
<1>3. Exists(call[b].tree) /\ trees'[call[b].tree].public = trees[call[b].tree].public
    BY <1>1, <1>2 DEF PublicKept, Exists
<1> QED
    BY <1>1, <1>3 DEF UpdatesKeyed

\* Caches that matched before still match: they know no tree that is new.
LEMMA CachesKept ==
    ASSUME AdminTypeOK, SignersMatchTrees, FreshUncached, PublicKept,
           signers' = signers
    PROVE  SignersMatchTrees' /\ FreshUncached'
<1>1. SignersMatchTrees'
  <2> SUFFICES ASSUME NEW s \in Signer, NEW t \in TreeId, Exists(t)', signers[s][t] # NoKey
               PROVE  KeyOf[signers[s][t]] = trees'[t].public
      BY DEF SignersMatchTrees, Exists
  <2>1. t \in created
      BY DEF FreshUncached
  <2> QED
      BY <2>1 DEF PublicKept, SignersMatchTrees
<1>2. FreshUncached'
    BY DEF FreshUncached, PublicKept
<1> QED
    BY <1>1, <1>2

-----------------------------------------------------------------------------
(* The operations of the admin server. *)

\* A row is replaced by one whose private key fits its public key.
LEMMA RowReplaced ==
    ASSUME AdminTypeOK, RowsKeyed, NEW t \in TreeId, NEW row \in Row,
           trees' = [trees EXCEPT ![t] = row],
           KeyOf[row.private] = row.public,
           row.deleted <=> row.deleteTime # Never,
           t \in created', created \subseteq created', created' \subseteq TreeId
    PROVE  /\ trees' \in [TreeId -> Row \cup {NoTree}]
           /\ \A u \in TreeId : Exists(u)' =>
            u \in created' /\ (Deleted(u)' <=> trees'[u].deleteTime # Never)
           /\ RowsKeyed'
<1>1. trees \in [TreeId -> Row \cup {NoTree}]
    BY DEF AdminTypeOK
<1>2. \A u \in TreeId : trees'[u] = IF u = t THEN row ELSE trees[u]
    BY <1>1
<1>3. ASSUME NEW u \in TreeId, Exists(u)'
      PROVE  u \in created' /\ (Deleted(u)' <=> trees'[u].deleteTime # Never)
  <2>1. CASE u = t
    <3>1. trees'[u] = row
        BY <1>2, <2>1
    <3>2. Deleted(u)' <=> row.deleted
        BY <3>1, <1>3 DEF Deleted, Exists
    <3> QED
        BY <2>1, <3>1, <3>2
  <2>2. CASE u # t
    <3>1. trees'[u] = trees[u] /\ Exists(u)
        BY <1>2, <1>3, <2>2 DEF Exists
    <3>2. u \in created /\ (Deleted(u) <=> trees[u].deleteTime # Never)
        BY <3>1 DEF AdminTypeOK
    <3>3. Deleted(u)' <=> Deleted(u)
        BY <3>1 DEF Deleted, Exists
    <3> QED
        BY <3>1, <3>2, <3>3
  <2> QED
      BY <2>1, <2>2
<1>4. RowsKeyed'
    BY <1>2 DEF RowsKeyed, Exists
<1> QED
    BY <1>1, <1>3, <1>4

\* The part of the invariant that the admin server's operations can disturb.
AdminInv == AdminTypeOK /\ RowsKeyed /\ UpdatesKeyed

\* Creating a tree: the new row's public key is derived from its private key, and the ID is
\* one that nobody knows yet.
LEMMA CreateTreeStep ==
    ASSUME AdminInv, NEW a \in Admin, CreateTree(a)
    PROVE  AdminInv' /\ PublicKept
<1>0. AdminTypeOK /\ RowsKeyed /\ UpdatesKeyed
    BY DEF AdminInv
<1>1. PICK request \in CreateRequest, t \in TreeId \ created :
        /\ ValidateTreeForCreation(NewTree(request))
        /\ trees' = [trees EXCEPT ![t] = NewTree(request)]
        /\ created' = created \cup {t}
    BY DEF CreateTree
<1> DEFINE tree == NewTree(request)
<1>2. tree.state = "ACTIVE" /\ KeyOf[tree.private] = tree.public
      /\ tree.deleted = FALSE /\ tree.deleteTime = Never
    BY <1>1 DEF ValidateTreeForCreation, ValidateMutableTreeFields, NewTree
<1>3. tree \in Row
  <2>1. request.private \in PrivateKey
      BY TreeAdminAssumption
  <2> QED
      BY <1>2, <2>1 DEF Row, Stored, Public, NewTree
<1>4. trees' = [trees EXCEPT ![t] = tree] /\ created' = created \cup {t}
    BY <1>1
<1> HIDE DEF tree
<1>5. trees \in [TreeId -> Row \cup {NoTree}] /\ created \subseteq TreeId
    BY <1>0 DEF AdminTypeOK
<1>6. call' = call /\ clock' = clock
      /\ calls' = calls + 1 /\ calls < MaxCalls
    BY DEF CreateTree, Starts
<1>7. /\ trees' \in [TreeId -> Row \cup {NoTree}]
      /\ \A u \in TreeId : Exists(u)' =>
            u \in created' /\ (Deleted(u)' <=> trees'[u].deleteTime # Never)
      /\ RowsKeyed'
    BY <1>0, <1>2, <1>3, <1>4, <1>5, RowReplaced
<1>8. PublicKept
    BY <1>4, <1>5 DEF PublicKept, Exists
<1>9. UpdatesKeyed'
    BY <1>0, <1>6, <1>8, UpdatesKept
<1>10. calls' \in 0 .. MaxCalls
    BY <1>0, <1>6, Bounds DEF AdminTypeOK
<1>11. AdminTypeOK'
  <2>1. created' \subseteq TreeId /\ clock' \in 0 .. MaxTime
      BY <1>0, <1>4, <1>6 DEF AdminTypeOK
  <2>2. call' \in [Admin -> Call] /\ \A b \in Admin : call'[b] # Idle => call'[b].tree \in created'
      BY <1>0, <1>4, <1>6 DEF AdminTypeOK
  <2> QED
      BY <1>7, <1>10, <2>1, <2>2 DEF AdminTypeOK, Exists, Deleted
<1> QED
    BY <1>7, <1>8, <1>9, <1>11 DEF AdminInv

\* An operation that only reads, and remembers what it is going to write.
LEMMA ReadStep ==
    ASSUME AdminInv, NEW a \in Admin, NEW c \in Call, c # Idle, c.tree \in created,
           Starts(a), call' = [call EXCEPT ![a] = c],
           UNCHANGED <<trees, created, clock>>,
           c.op = "UpdateTree" => KeyOf[c.private] = trees[c.tree].public
    PROVE  AdminInv' /\ PublicKept
<1>0. AdminTypeOK /\ RowsKeyed /\ UpdatesKeyed
    BY DEF AdminInv
<1>1. call \in [Admin -> Call]
    BY <1>0 DEF AdminTypeOK
<1>2. \A b \in Admin : call'[b] = IF b = a THEN c ELSE call[b]
    BY <1>1
<1>3. calls' \in 0 .. MaxCalls
    BY <1>0, Bounds DEF AdminTypeOK, Starts
<1>4. AdminTypeOK'
    BY <1>0, <1>1, <1>2, <1>3 DEF AdminTypeOK, Exists, Deleted
<1>5. RowsKeyed' /\ PublicKept
    BY <1>0 DEF RowsKeyed, PublicKept, Exists
<1>6. UpdatesKeyed'
    BY <1>0, <1>2 DEF UpdatesKeyed, Exists
<1> QED
    BY <1>4, <1>5, <1>6 DEF AdminInv

\* An operation that writes the row of its tree, or finds no row, and ends.
LEMMA WriteStep ==
    ASSUME AdminInv, NEW a \in Admin, NEW t \in created, NEW row,
           trees' = IF Exists(t) THEN [trees EXCEPT ![t] = row] ELSE trees,
           Exists(t) => /\ row \in Row
                        /\ KeyOf[row.private] = row.public
                        /\ row.deleted <=> row.deleteTime # Never
                        /\ row.public = trees[t].public,
           call' = [call EXCEPT ![a] = Idle],
           UNCHANGED <<created, calls, clock>>
    PROVE  AdminInv' /\ PublicKept
<1>0. AdminTypeOK /\ RowsKeyed /\ UpdatesKeyed
    BY DEF AdminInv
<1>1. call \in [Admin -> Call] /\ trees \in [TreeId -> Row \cup {NoTree}]
      /\ created \subseteq TreeId /\ t \in TreeId
    BY <1>0 DEF AdminTypeOK
<1>2. \A b \in Admin : call'[b] = IF b = a THEN Idle ELSE call[b]
    BY <1>1
<1>3. call' \in [Admin -> Call] /\ \A b \in Admin : call'[b] # Idle => call'[b].tree \in created
    BY <1>0, <1>1, <1>2 DEF AdminTypeOK, Call
<1>4. /\ trees' \in [TreeId -> Row \cup {NoTree}]
      /\ \A u \in TreeId : Exists(u)' =>
            u \in created' /\ (Deleted(u)' <=> trees'[u].deleteTime # Never)
      /\ RowsKeyed'
  <2>1. CASE Exists(t)
      BY <1>0, <1>1, <2>1, RowReplaced
  <2>2. CASE ~ Exists(t)
    <3>1. trees' = trees
        BY <2>2
    <3> QED
        BY <1>0, <1>1, <3>1 DEF AdminTypeOK, RowsKeyed, Exists, Deleted
  <2> QED
      BY <2>1, <2>2
<1>5. PublicKept
    BY <1>1 DEF PublicKept, Exists
<1>6. UpdatesKeyed'
    BY <1>0, <1>2, <1>5, UpdatesKept DEF Idle
<1>7. AdminTypeOK'
  <2>1. created' \subseteq TreeId /\ calls' \in 0 .. MaxCalls /\ clock' \in 0 .. MaxTime
      BY <1>0 DEF AdminTypeOK
  <2>2. \A b \in Admin : call'[b] # Idle => call'[b].tree \in created'
      BY <1>3
  <2> QED
      BY <1>3, <1>4, <2>1, <2>2 DEF AdminTypeOK, Exists, Deleted
<1> QED
    BY <1>4, <1>5, <1>6, <1>7 DEF AdminInv

\* Every step of a call of the admin API, action by action.
LEMMA AdminCallStep ==
    ASSUME AdminInv, NEW a \in Admin, AdminCall(a)
    PROVE  AdminInv' /\ PublicKept
<1>0. AdminTypeOK /\ RowsKeyed /\ UpdatesKeyed
    BY DEF AdminInv
<1>1. call[a] \in Call /\ created \subseteq TreeId
      /\ trees \in [TreeId -> Row \cup {NoTree}] /\ clock \in 0 .. MaxTime
    BY <1>0 DEF AdminTypeOK
<1>2. CASE CreateTree(a)
    BY <1>2, CreateTreeStep
<1>3. CASE ReadForUpdate(a)
  <2>1. PICK t \in created, request \in UpdateRequest :
          /\ Exists(t)
          /\ LET tree == ApplyUpdateMask(request, trees[t])
             IN /\ ValidateMutableTreeFields(tree)
                /\ call' = [call EXCEPT ![a] =
                       [op |-> "UpdateTree", tree |-> t, mask |-> request.mask,
                        state |-> tree.state, private |-> tree.private]]
      BY <1>3 DEF ReadForUpdate
  <2> DEFINE tree == ApplyUpdateMask(request, trees[t])
             c == [op |-> "UpdateTree", tree |-> t, mask |-> request.mask,
                   state |-> tree.state, private |-> tree.private]
  <2>2. trees[t] \in Row /\ t \in TreeId
      BY <1>1, <2>1 DEF Exists
  <2>3. request.mask \subseteq Field /\ request.state \in State /\ request.private \in PrivateKey
      BY TreeAdminAssumption
  <2>4. tree.private \in PrivateKey /\ tree.public = trees[t].public /\ tree.state \in State
      BY <2>2, <2>3 DEF ApplyUpdateMask, Row, Stored, State
  <2>5. tree.state \in Stored /\ KeyOf[tree.private] = trees[t].public
      BY <2>1, <2>4 DEF ValidateMutableTreeFields, State, Stored
  <2> HIDE DEF tree
  <2>6. c \in Call
      BY <2>2, <2>3, <2>4, <2>5 DEF Call
  <2>7. c.op = "UpdateTree" /\ c.tree = t /\ c.private = tree.private
      OBVIOUS
  <2>8. call' = [call EXCEPT ![a] = c] /\ Starts(a)
        /\ UNCHANGED <<trees, created, clock>>
      BY <1>3, <2>1 DEF ReadForUpdate, tree
  <2> HIDE DEF c
  <2>9. c # Idle
      BY <2>6, <2>7, NotIdle
  <2> QED
      BY <2>5, <2>6, <2>7, <2>8, <2>9, ReadStep
<1>4. CASE ReadForDelete(a)
  <2>1. PICK t \in created :
          \/ call' = [call EXCEPT ![a] = [op |-> "SoftDeleteTree", tree |-> t, time |-> clock]]
          \/ call' = [call EXCEPT ![a] = [op |-> "UndeleteTree", tree |-> t]]
      BY <1>4 DEF ReadForDelete
  <2>2. Starts(a) /\ UNCHANGED <<trees, created, clock>>
      BY <1>4 DEF ReadForDelete
  <2>3. ASSUME NEW c \in Call, c.tree = t, c.op \in {"SoftDeleteTree", "UndeleteTree"},
               call' = [call EXCEPT ![a] = c]
        PROVE  AdminInv' /\ PublicKept
      BY <2>2, <2>3, NotIdle, ReadStep
  <2>4. [op |-> "SoftDeleteTree", tree |-> t, time |-> clock] \in Call
      BY <1>1 DEF Call
  <2>5. [op |-> "UndeleteTree", tree |-> t] \in Call
      BY <1>1 DEF Call
  <2> QED
      BY <2>1, <2>3, <2>4, <2>5
<1>5. CASE UpdateTree(a)
  <2> DEFINE t == call[a].tree
             row == [trees[t] EXCEPT !.state = call[a].state, !.private = call[a].private]
  <2>1. call[a].op = "UpdateTree"
      BY <1>5 DEF UpdateTree
  <2>2. t \in created /\ t \in TreeId /\ call[a].state \in Stored /\ call[a].private \in PrivateKey
      BY <1>0, <1>1, <2>1, CallForms, NotIdle DEF AdminTypeOK
  <2>3. ASSUME Exists(t)
        PROVE  /\ row \in Row
               /\ KeyOf[row.private] = row.public
               /\ row.deleted <=> row.deleteTime # Never
               /\ row.public = trees[t].public
    <3>1. trees[t] \in Row
        BY <1>1, <2>2, <2>3 DEF Exists
    <3>2. row \in Row /\ row.private = call[a].private /\ row.public = trees[t].public
          /\ row.deleted = trees[t].deleted /\ row.deleteTime = trees[t].deleteTime
        BY <2>2, <3>1 DEF Row
    <3>3. KeyOf[call[a].private] = trees[t].public
        BY <1>0, <2>1, <2>3 DEF UpdatesKeyed
    <3>4. trees[t].deleted <=> trees[t].deleteTime # Never
        BY <1>0, <2>2, <2>3 DEF AdminTypeOK, Deleted
    <3> QED
        BY <3>2, <3>3, <3>4
  <2>4. trees' = (IF Exists(t) THEN [trees EXCEPT ![t] = row] ELSE trees)
        /\ call' = [call EXCEPT ![a] = Idle]
        /\ UNCHANGED <<created, calls, clock>>
      BY <1>5 DEF UpdateTree
  <2> HIDE DEF t, row
  <2> QED
      BY <1>1, <2>2, <2>3, <2>4, WriteStep
<1>6. CASE SoftDeleteTree(a)
  <2> DEFINE t == call[a].tree
             row == [trees[t] EXCEPT !.deleted = TRUE, !.deleteTime = call[a].time]
  <2>1. call[a].op = "SoftDeleteTree"
      BY <1>6 DEF SoftDeleteTree
  <2>2. t \in created /\ t \in TreeId /\ call[a].time \in 0 .. MaxTime
      BY <1>0, <1>1, <2>1, CallForms, NotIdle DEF AdminTypeOK
  <2>3. ASSUME Exists(t)
        PROVE  /\ row \in Row
               /\ KeyOf[row.private] = row.public
               /\ row.deleted <=> row.deleteTime # Never
               /\ row.public = trees[t].public
    <3>1. trees[t] \in Row
        BY <1>1, <2>2, <2>3 DEF Exists
    <3>2. row \in Row /\ row.private = trees[t].private /\ row.public = trees[t].public
          /\ row.deleted = TRUE /\ row.deleteTime = call[a].time
        BY <2>2, <3>1 DEF Row
    <3>3. KeyOf[trees[t].private] = trees[t].public
        BY <1>0, <2>2, <2>3 DEF RowsKeyed
    <3>4. call[a].time # Never
        BY <2>2, Bounds DEF Never
    <3> QED
        BY <3>2, <3>3, <3>4
  <2>4. trees' = (IF Exists(t) THEN [trees EXCEPT ![t] = row] ELSE trees)
        /\ call' = [call EXCEPT ![a] = Idle]
        /\ UNCHANGED <<created, calls, clock>>
      BY <1>6 DEF SoftDeleteTree
  <2> HIDE DEF t, row
  <2> QED
      BY <1>1, <2>2, <2>3, <2>4, WriteStep
<1>7. CASE UndeleteTree(a)
  <2> DEFINE t == call[a].tree
             row == [trees[t] EXCEPT !.deleted = FALSE, !.deleteTime = Never]
  <2>1. call[a].op = "UndeleteTree"
      BY <1>7 DEF UndeleteTree
  <2>2. t \in created /\ t \in TreeId
      BY <1>0, <1>1, <2>1, CallForms, NotIdle DEF AdminTypeOK
  <2>3. ASSUME Exists(t)
        PROVE  /\ row \in Row
               /\ KeyOf[row.private] = row.public
               /\ row.deleted <=> row.deleteTime # Never
               /\ row.public = trees[t].public
    <3>1. trees[t] \in Row
        BY <1>1, <2>2, <2>3 DEF Exists
    <3>2. row \in Row /\ row.private = trees[t].private /\ row.public = trees[t].public
          /\ row.deleted = FALSE /\ row.deleteTime = Never
        BY <2>2, <3>1 DEF Row
    <3>3. KeyOf[trees[t].private] = trees[t].public
        BY <1>0, <2>2, <2>3 DEF RowsKeyed
    <3> QED
        BY <3>2, <3>3
  <2>4. trees' = (IF Exists(t) THEN [trees EXCEPT ![t] = row] ELSE trees)
        /\ call' = [call EXCEPT ![a] = Idle]
        /\ UNCHANGED <<created, calls, clock>>
      BY <1>7 DEF UndeleteTree
  <2> HIDE DEF t, row
  <2> QED
      BY <1>1, <2>2, <2>3, <2>4, WriteStep
<1>8. CASE CallFails(a)
  <2> DEFINE t == call[a].tree
  <2>1. t \in created /\ t \in TreeId
      BY <1>0, <1>1, <1>8 DEF CallFails, AdminTypeOK
  <2>2. trees' = (IF Exists(t) THEN [trees EXCEPT ![t] = trees[t]] ELSE trees)
      BY <1>1, <1>8 DEF CallFails
  <2>3. ASSUME Exists(t)
        PROVE  /\ trees[t] \in Row
               /\ KeyOf[trees[t].private] = trees[t].public
               /\ trees[t].deleted <=> trees[t].deleteTime # Never
      BY <1>0, <1>1, <2>1, <2>3 DEF AdminTypeOK, RowsKeyed, Exists, Deleted
  <2>4. call' = [call EXCEPT ![a] = Idle]
        /\ UNCHANGED <<created, calls, clock>>
      BY <1>8 DEF CallFails
  <2> HIDE DEF t
  <2> QED
      BY <1>1, <2>1, <2>2, <2>3, <2>4, WriteStep
<1> QED
    BY <1>2, <1>3, <1>4, <1>5, <1>6, <1>7, <1>8 DEF AdminCall, Finishes

-----------------------------------------------------------------------------
(* The collectors, the signers and time. *)

Sweep == [pc : {"sleep", "list", "sweep", "delete"}, now : 0 .. MaxTime, todo : SUBSET TreeId]

\* A step of a collector changes rows only by removing one, and keeps its own locals in type.
LEMMA CollectStep ==
    ASSUME IInv, NEW g \in Collector, Collect(g)
    PROVE  AdminInv' /\ PublicKept /\ gc' \in [Collector -> Sweep]
           /\ UNCHANGED <<pass, signers>> /\ touched' \in [Collector -> SUBSET TreeId]
<1>0. AdminTypeOK /\ RowsKeyed /\ UpdatesKeyed /\ gc \in [Collector -> Sweep]
    BY DEF IInv, TypeOK, Sweep
<1>t. touched' \in [Collector -> SUBSET TreeId]
  <2>1. touched \in [Collector -> SUBSET TreeId]
      BY DEF IInv, TypeOK
  <2>2. touched' = touched \/ touched' = [touched EXCEPT ![g] = {}]
      BY DEF Collect, StartSweep, ListTrees, ValidateForHardDelete, HardDeleteTree,
             HardDeleteFails, EndSweep
  <2> QED
      BY <2>1, <2>2
<1> SUFFICES AdminInv' /\ PublicKept /\ gc' \in [Collector -> Sweep] /\ UNCHANGED <<pass, signers>>
    BY <1>t
<1>1. gc[g] \in Sweep /\ clock \in 0 .. MaxTime
    BY <1>0 DEF AdminTypeOK
<1>2. Sleeping \in Sweep
    BY Bounds DEF Sleeping, Sweep
<1>3. NextTree(g) \in Sweep /\ SkipTree(g) \in Sweep
    BY <1>1 DEF NextTree, SkipTree, Sweep
<1>4. ASSUME UNCHANGED adminVars
      PROVE  AdminInv' /\ PublicKept
    BY <1>0, <1>4 DEF adminVars, AdminInv, AdminTypeOK, RowsKeyed, UpdatesKeyed, PublicKept,
                      Exists, Deleted
<1>5. ASSUME NEW x \in Sweep, gc' = [gc EXCEPT ![g] = x]
      PROVE  gc' \in [Collector -> Sweep]
    BY <1>0, <1>5
<1>6. CASE StartSweep(g)
  <2>1. [pc |-> "list", now |-> clock, todo |-> {}] \in Sweep
      BY <1>1 DEF Sweep
  <2> QED
      BY <1>4, <1>5, <1>6, <2>1 DEF StartSweep
<1>7. CASE ListTrees(g)
  <2>1. [pc |-> "sweep", now |-> 0, todo |-> Eligible(gc[g].now)] \in Sweep
      BY Bounds DEF Sweep, Eligible
  <2>2. \/ gc' = [gc EXCEPT ![g] = [pc |-> "sweep", now |-> 0, todo |-> Eligible(gc[g].now)]]
        \/ gc' = [gc EXCEPT ![g] = Sleeping]
      BY <1>7 DEF ListTrees
  <2> QED
      BY <1>2, <1>4, <1>5, <1>7, <2>1, <2>2 DEF ListTrees
<1>8. CASE ValidateForHardDelete(g)
  <2>1. [gc[g] EXCEPT !.pc = "delete"] \in Sweep
      BY <1>1 DEF Sweep
  <2> QED
      BY <1>3, <1>4, <1>5, <1>8, <2>1 DEF ValidateForHardDelete
<1>9. CASE HardDeleteTree(g)
  <2>1. gc' \in [Collector -> Sweep]
      BY <1>3, <1>5, <1>9 DEF HardDeleteTree
  <2>2. trees \in [TreeId -> Row \cup {NoTree}] /\ created \subseteq TreeId
      BY <1>0 DEF AdminTypeOK
  <2>3. \A t \in TreeId : trees'[t] = trees[t] \/ trees'[t] = NoTree
      BY <1>9, <2>2 DEF HardDeleteTree
  <2>4. trees' \in [TreeId -> Row \cup {NoTree}]
      BY <1>9, <2>2 DEF HardDeleteTree
  <2>5. UNCHANGED <<created, call, calls, clock, pass, signers>>
      BY <1>9 DEF HardDeleteTree
  <2>6. AdminTypeOK'
    <3>1. \A t \in TreeId : Exists(t)' => t \in created' /\ (Deleted(t)' <=> trees'[t].deleteTime # Never)
        BY <1>0, <2>3, <2>5 DEF AdminTypeOK, Exists, Deleted
    <3> QED
        BY <1>0, <2>4, <2>5, <3>1 DEF AdminTypeOK, Exists, Deleted
  <2>7. RowsKeyed' /\ PublicKept
      BY <1>0, <2>2, <2>3, <2>5 DEF RowsKeyed, PublicKept, Exists
  <2>8. UpdatesKeyed'
      BY <1>0, <2>5, <2>7, UpdatesKept
  <2> QED
      BY <2>1, <2>5, <2>6, <2>7, <2>8 DEF AdminInv
<1>10. CASE HardDeleteFails(g)
    BY <1>3, <1>4, <1>5, <1>10 DEF HardDeleteFails
<1>11. CASE EndSweep(g)
    BY <1>2, <1>4, <1>5, <1>11 DEF EndSweep
<1> QED
    BY <1>6, <1>7, <1>8, <1>9, <1>10, <1>11 DEF Collect

\* A signer puts into its cache only keys that it found in a row.
LEMMA SignerStep ==
    ASSUME IInv, NEW s \in Signer, ExecutePass(s) \/ IntegrateBatch(s) \/ Restart(s)
    PROVE  IInv'
<1>0. AdminTypeOK /\ RowsKeyed /\ UpdatesKeyed /\ FreshUncached /\ SignersMatchTrees
      /\ gc \in [Collector -> Sweep] /\ pass \in [Signer -> TreeId \cup {NoPass}]
      /\ signers \in [Signer -> [TreeId -> PrivateKey \cup {NoKey}]]
      /\ touched \in [Collector -> SUBSET TreeId]
    BY DEF IInv, TypeOK, Sweep
<1>1. UNCHANGED <<trees, created, call, calls, clock, gc, touched>>
    BY DEF ExecutePass, IntegrateBatch, Restart, adminVars
<1>2. AdminTypeOK' /\ RowsKeyed' /\ UpdatesKeyed'
    BY <1>0, <1>1 DEF AdminTypeOK, RowsKeyed, UpdatesKeyed, Exists, Deleted
<1>3. /\ pass' \in [Signer -> TreeId \cup {NoPass}]
      /\ signers' \in [Signer -> [TreeId -> PrivateKey \cup {NoKey}]]
      /\ FreshUncached' /\ SignersMatchTrees'
  <2>1. CASE ExecutePass(s)
    <3>1. PICK t \in TreeId :
            /\ Writable(t)
            /\ pass' = [pass EXCEPT ![s] = t]
            /\ signers' = [signers EXCEPT ![s][t] = IF @ = NoKey THEN trees[t].private ELSE @]
        BY <2>1 DEF ExecutePass
    <3> DEFINE k == IF signers[s][t] = NoKey THEN trees[t].private ELSE signers[s][t]
    <3>2. Exists(t) /\ trees[t] \in Row /\ t \in created
        BY <1>0, <3>1 DEF Writable, Exists, AdminTypeOK
    <3>3. k \in PrivateKey \cup {NoKey} /\ KeyOf[k] = trees[t].public
        BY <1>0, <3>2 DEF Row, RowsKeyed, SignersMatchTrees
    <3>4. signers' = [signers EXCEPT ![s] = [signers[s] EXCEPT ![t] = k]]
        BY <3>1
    <3> HIDE DEF k
    <3>5. signers' \in [Signer -> [TreeId -> PrivateKey \cup {NoKey}]]
        BY <1>0, <3>3, <3>4
    <3>6. \A r \in Signer, u \in TreeId :
            signers'[r][u] = IF r = s /\ u = t THEN k ELSE signers[r][u]
        BY <1>0, <3>4
    <3>7. FreshUncached'
        BY <1>0, <1>1, <3>2, <3>6 DEF FreshUncached
    <3>8. SignersMatchTrees'
        BY <1>0, <1>1, <3>3, <3>6 DEF SignersMatchTrees, Exists
    <3>9. pass' \in [Signer -> TreeId \cup {NoPass}]
        BY <1>0, <3>1
    <3> QED
        BY <3>5, <3>7, <3>8, <3>9
  <2>2. CASE IntegrateBatch(s)
    <3>1. signers' = signers /\ pass' = [pass EXCEPT ![s] = NoPass]
        BY <2>2 DEF IntegrateBatch
    <3> QED
        BY <1>0, <1>1, <3>1 DEF FreshUncached, SignersMatchTrees, Exists
  <2>3. CASE Restart(s)
    <3>1. signers' = [signers EXCEPT ![s] = [t \in TreeId |-> NoKey]]
          /\ pass' = [pass EXCEPT ![s] = NoPass]
        BY <2>3 DEF Restart
    <3>2. \A r \in Signer, u \in TreeId :
            signers'[r][u] = IF r = s THEN NoKey ELSE signers[r][u]
        BY <1>0, <3>1
    <3>3. FreshUncached'
        BY <1>0, <1>1, <3>2 DEF FreshUncached
    <3>4. SignersMatchTrees'
        BY <1>0, <1>1, <3>2 DEF SignersMatchTrees, Exists
    <3> QED
        BY <1>0, <3>1, <3>3, <3>4
  <2> QED
      BY <2>1, <2>2, <2>3
<1> QED
    BY <1>0, <1>1, <1>2, <1>3 DEF IInv, TypeOK, Sweep

\* Time touches nothing else.
LEMMA TickStep ==
    ASSUME AdminInv, Tick
    PROVE  AdminInv' /\ PublicKept
<1>1. clock' \in 0 .. MaxTime
    BY Bounds DEF AdminInv, AdminTypeOK, Tick
<1> QED
    BY <1>1 DEF AdminInv, AdminTypeOK, RowsKeyed, UpdatesKeyed, PublicKept, Exists, Deleted, Tick

-----------------------------------------------------------------------------
\* The invariant holds of every step.
LEMMA Induction == IInv /\ [Next]_vars => IInv'
<1> SUFFICES ASSUME IInv, [Next]_vars PROVE IInv'
    OBVIOUS
<1>0. AdminInv /\ AdminTypeOK /\ FreshUncached /\ SignersMatchTrees
    BY DEF IInv, TypeOK, AdminInv
<1>1. ASSUME AdminInv', PublicKept, UNCHANGED <<pass, signers>>, gc' \in [Collector -> Sweep],
             touched' \in [Collector -> SUBSET TreeId]
      PROVE  IInv'
  <2>1. SignersMatchTrees' /\ FreshUncached'
      BY <1>0, <1>1, CachesKept
  <2> QED
      BY <1>1, <2>1 DEF IInv, TypeOK, AdminInv, Sweep
<1>2. gc \in [Collector -> Sweep] /\ touched \in [Collector -> SUBSET TreeId]
    BY DEF IInv, TypeOK, Sweep
<1>3. ASSUME NEW a \in Admin, AdminCall(a), Touch, UNCHANGED <<gc, pass, signers>>
      PROVE  IInv'
  <2>1. touched' \in [Collector -> SUBSET TreeId]
      BY <1>2, <1>3 DEF Touch, Sweep
  <2> QED
      BY <1>0, <1>1, <1>2, <1>3, <2>1, AdminCallStep
<1>4. ASSUME Tick, UNCHANGED <<gc, pass, signers, touched>>
      PROVE  IInv'
    BY <1>0, <1>1, <1>2, <1>4, TickStep
<1>5. ASSUME NEW g \in Collector, Collect(g)
      PROVE  IInv'
    BY <1>1, <1>5, CollectStep
<1>6. ASSUME NEW s \in Signer, ExecutePass(s) \/ IntegrateBatch(s) \/ Restart(s)
      PROVE  IInv'
    BY <1>6, SignerStep
<1>7. CASE UNCHANGED vars
    BY <1>7 DEF vars, IInv, TypeOK, AdminTypeOK, RowsKeyed, UpdatesKeyed, FreshUncached,
                SignersMatchTrees, Exists, Deleted
<1> QED
    BY <1>3, <1>4, <1>5, <1>6, <1>7 DEF Next

\* Every variable of the tree administration keeps its type; a row is marked deleted exactly
\* if it has a delete time (admin_storage.go, updateDeleted), whatever calls overlap.
THEOREM TreeTypes == Spec => []TypeOK
<1>1. IInv => TypeOK
    BY DEF IInv
<1> QED
    BY <1>1, InitTypes, Induction, PTL DEF Spec

\* No signer ever signs for an existing tree with a key that does not give the tree's public
\* key (sequencer_manager.go, getSigner; tree_validation.go, validateMutableTreeFields).
THEOREM SignersAlwaysMatch == Spec => []SignersMatchTrees
<1>1. IInv => SignersMatchTrees
    BY DEF IInv
<1> QED
    BY <1>1, InitTypes, Induction, PTL DEF Spec

-----------------------------------------------------------------------------
(* No tree is collected early.  A collector acts on what it listed some time ago, and on
   rows that may have been undeleted and deleted again since.  What it listed had been
   deleted for longer than the threshold by then, and time only goes on: as long as nobody
   touches the row, that stays so. *)

\* A tree on the list of a collector: its deletion is old enough, or no longer the one listed,
\* or somebody else has removed the tree.
Due(g, t) == ~Exists(t) \/ t \in touched[g] \/ Expired(t)

CollectInv ==
    \A g \in Collector :
        /\ gc[g].pc = "list" => gc[g].now <= clock
        /\ gc[g].pc \in {"sweep", "delete"} => \A t \in gc[g].todo : t \in created /\ Due(g, t)
        /\ gc[g].pc = "delete" => gc[g].todo # {}

\* A tree that goes was due.
RemovedDue ==
    \A t \in TreeId : Exists(t) /\ ~Exists(t)' =>
        \/ Expired(t)
        \/ \E g \in Collector : gc[g].pc = "delete" /\ Current(g) = t /\ t \in touched[g]

\* The collector goes through its list until it is empty: there is a least ID in it.
LEMMA CurrentListed ==
    ASSUME NEW g \in Collector, gc[g].todo \subseteq TreeId, gc[g].todo # {}
    PROVE  Current(g) \in gc[g].todo
<1> DEFINE R == OpToRel(<, Nat)
           Z == gc[g].todo
<1>1. Z \in SUBSET Nat /\ Z # {}
    BY TreeAdminAssumption
<1>2. PICK t \in Z : \A u \in Z : ~(<<u, t>> \in R)
  <2>1. IsWellFoundedOn(R, Nat)
      BY NatLessThanWellFounded
  <2> HIDE DEF R, Z
  <2> QED
      BY <1>1, <2>1, WFMin
<1>3. ASSUME NEW u \in Z PROVE t <= u
  <2>1. ~(u < t)
      BY <1>1, <1>2 DEF OpToRel
  <2> QED
      BY <1>1, <2>1
<1> QED
    BY <1>3 DEF Current

\* No call of an administrator removes a row, or changes the time.
LEMMA AdminCallKeeps ==
    ASSUME IInv, NEW a \in Admin, AdminCall(a)
    PROVE  clock' = clock /\ \A t \in TreeId : Exists(t) => Exists(t)'
<1>0. /\ AdminTypeOK /\ trees \in [TreeId -> Row \cup {NoTree}] /\ call \in [Admin -> Call]
      /\ created \subseteq TreeId /\ MaxTime \in Nat
    BY Bounds DEF IInv, TypeOK, AdminTypeOK
<1>1. clock' = clock
    BY DEF AdminCall, Finishes, CreateTree, ReadForUpdate, ReadForDelete, CallFails, UpdateTree,
           SoftDeleteTree, UndeleteTree
<1>2. CASE ReadForUpdate(a) \/ ReadForDelete(a) \/ CallFails(a)
    BY <1>1, <1>2 DEF ReadForUpdate, ReadForDelete, CallFails, Exists
<1>3. CASE CreateTree(a)
  <2>1. PICK request \in CreateRequest, t \in TreeId \ created :
            trees' = [trees EXCEPT ![t] = NewTree(request)]
      BY <1>3 DEF CreateTree
  <2>2. ~Exists(t) /\ \A u \in TreeId \ {t} : trees'[u] = trees[u]
      BY <1>0, <2>1 DEF AdminTypeOK
  <2> QED
      BY <1>1, <2>2 DEF Exists
<1>4. CASE Finishes(a)
  <2>1. PICK t : t = call[a].tree
      OBVIOUS
  <2>2. call[a] \in Call /\ call[a].op \in {"UpdateTree", "SoftDeleteTree", "UndeleteTree"}
      BY <1>0, <1>4 DEF Finishes, UpdateTree, SoftDeleteTree, UndeleteTree
  <2>3. t \in TreeId
      BY <2>1, <2>2, CallForms
  <2>4. CASE ~Exists(t)
    <3>1. trees' = trees
        BY <1>4, <2>1, <2>4 DEF Finishes, UpdateTree, SoftDeleteTree, UndeleteTree
    <3> QED
        BY <1>1, <3>1 DEF Exists
  <2>5. CASE Exists(t)
    <3>1. trees[t] \in Row
        BY <1>0, <2>3, <2>5 DEF Exists
    <3>2. PICK row \in Row : trees' = [trees EXCEPT ![t] = row]
      <4>1. CASE UpdateTree(a)
        <5>1. call[a].state \in Stored /\ call[a].private \in PrivateKey
            BY <2>2, <4>1, CallForms DEF UpdateTree
        <5>2. [trees[t] EXCEPT !.state = call[a].state, !.private = call[a].private] \in Row
            BY <3>1, <5>1 DEF Row
        <5> QED
            BY <2>1, <2>5, <4>1, <5>2 DEF UpdateTree
      <4>2. CASE SoftDeleteTree(a)
        <5>1. call[a].time \in 0 .. MaxTime
            BY <2>2, <4>2, CallForms DEF SoftDeleteTree
        <5>2. [trees[t] EXCEPT !.deleted = TRUE, !.deleteTime = call[a].time] \in Row
            BY <3>1, <5>1 DEF Row
        <5> QED
            BY <2>1, <2>5, <4>2, <5>2 DEF SoftDeleteTree
      <4>3. CASE UndeleteTree(a)
        <5>1. [trees[t] EXCEPT !.deleted = FALSE, !.deleteTime = Never] \in Row
            BY <3>1 DEF Row
        <5> QED
            BY <2>1, <2>5, <4>3, <5>1 DEF UndeleteTree
      <4> QED
          BY <1>4, <4>1, <4>2, <4>3 DEF Finishes
    <3>3. \A u \in TreeId : trees'[u] = IF u = t THEN row ELSE trees[u]
        BY <1>0, <3>2
    <3> QED
        BY <1>1, <3>3, RowExists DEF Exists
  <2> QED
      BY <2>4, <2>5
<1> QED
    BY <1>2, <1>3, <1>4 DEF AdminCall

\* A tree that was due stays due, unless its collector's list is made anew.
LEMMA DueKept ==
    ASSUME IInv, IInv', clock' >= clock, NEW g \in Collector, NEW t \in TreeId,
           t \in created, Due(g, t), Exists(t)' => Exists(t),
           \/ t \in touched'[g]
           \/ /\ touched[g] \subseteq touched'[g]
              /\ Exists(t)' => trees'[t].deleteTime = trees[t].deleteTime
    PROVE  Due(g, t)'
<1>1. clock \in Int /\ clock' \in Int /\ Threshold \in Int
    BY Bounds, TreeAdminAssumption DEF IInv, TypeOK, AdminTypeOK
<1>2. CASE t \in touched'[g]
    BY <1>2 DEF Due
<1>3. CASE ~Exists(t)'
    BY <1>3 DEF Due
<1>4. ASSUME t \notin touched'[g], Exists(t)' PROVE Expired(t)'
  <2>1. Exists(t) /\ trees'[t].deleteTime = trees[t].deleteTime /\ Expired(t)
      BY <1>4 DEF Due
  <2>2. trees[t] \in Row
      BY <2>1 DEF IInv, TypeOK, AdminTypeOK, Exists
  <2>3. trees[t].deleteTime \in Int
      BY <2>2, Bounds DEF Row, Never
  <2>4. Deleted(t) /\ trees[t].deleteTime # Never
      BY <2>1 DEF Expired, IInv, TypeOK, AdminTypeOK
  <2>5. Deleted(t)'
      BY <1>4, <2>1, <2>4 DEF IInv, TypeOK, AdminTypeOK
  <2>6. clock - trees[t].deleteTime > Threshold
      BY <2>1 DEF Expired
  <2>7. clock' - trees'[t].deleteTime > Threshold
      BY <1>1, <2>1, <2>3, <2>6
  <2> QED
      BY <2>5, <2>7 DEF Expired
<1> QED
    BY <1>2, <1>3, <1>4 DEF Due

\* Lists that do not change stay over trees that are due.
LEMMA ListKept ==
    ASSUME IInv, IInv', CollectInv, clock' >= clock, created \subseteq created',
           NEW g \in Collector, gc'[g] = gc[g],
           \A t \in created : Exists(t)' => Exists(t),
           \A t \in gc[g].todo \cap created :
              \/ t \in touched'[g]
              \/ /\ touched[g] \subseteq touched'[g]
                 /\ Exists(t)' => trees'[t].deleteTime = trees[t].deleteTime
    PROVE  /\ gc'[g].pc = "list" => gc'[g].now <= clock'
           /\ gc'[g].pc \in {"sweep", "delete"} => \A t \in gc'[g].todo : t \in created' /\ Due(g, t)'
           /\ gc'[g].pc = "delete" => gc'[g].todo # {}
<1>1. clock \in Int /\ clock' \in Int /\ gc[g].now \in Int /\ gc[g].todo \subseteq TreeId
    BY Bounds DEF IInv, TypeOK, AdminTypeOK
<1>2. ASSUME gc[g].pc \in {"sweep", "delete"}, NEW t \in gc[g].todo
      PROVE  t \in created' /\ Due(g, t)'
  <2>1. t \in TreeId /\ t \in created /\ Due(g, t)
      BY <1>1, <1>2 DEF CollectInv
  <2> QED
      BY <1>2, <2>1, DueKept
<1>3. gc[g].pc = "list" => gc[g].now <= clock'
    BY <1>1 DEF CollectInv
<1> QED
    BY <1>2, <1>3 DEF CollectInv

\* A step of a collector: only trees that expired are listed, and only listed trees go.
LEMMA CollectDue ==
    ASSUME IInv, IInv', CollectInv, NEW g \in Collector, Collect(g)
    PROVE  CollectInv' /\ RemovedDue
<1>0. /\ gc[g].todo \subseteq TreeId /\ clock \in Int /\ gc[g].now \in Int /\ Threshold \in Nat
      /\ trees \in [TreeId -> Row \cup {NoTree}] /\ gc[g] \in Sweep /\ gc \in [Collector -> Sweep]
      /\ touched \in [Collector -> SUBSET TreeId]
    BY Bounds, TreeAdminAssumption DEF IInv, TypeOK, AdminTypeOK, Never, Sweep
<1>1. clock' = clock /\ created' = created
    BY DEF Collect, StartSweep, ListTrees, ValidateForHardDelete, HardDeleteTree,
           HardDeleteFails, EndSweep, adminVars
<1>2. \A t \in TreeId : trees'[t] = trees[t] \/ ~Exists(t)'
    BY <1>0 DEF Collect, StartSweep, ListTrees, ValidateForHardDelete, HardDeleteTree,
                HardDeleteFails, EndSweep, adminVars, Exists
<1>3. ASSUME NEW h \in Collector \ {g}
      PROVE  /\ gc'[h].pc = "list" => gc'[h].now <= clock'
             /\ gc'[h].pc \in {"sweep", "delete"} => \A t \in gc'[h].todo : t \in created' /\ Due(h, t)'
             /\ gc'[h].pc = "delete" => gc'[h].todo # {}
  <2>1. gc'[h] = gc[h] /\ touched'[h] = touched[h]
      BY <1>0 DEF Collect, StartSweep, ListTrees, ValidateForHardDelete, HardDeleteTree,
                  HardDeleteFails, EndSweep
  <2>2. gc[h].todo \subseteq TreeId /\ created \subseteq TreeId
      BY DEF IInv, TypeOK, AdminTypeOK
  <2>3. \A t \in TreeId : Exists(t)' => Exists(t) /\ trees'[t].deleteTime = trees[t].deleteTime
      BY <1>2 DEF Exists
  <2> QED
      BY <1>0, <1>1, <2>1, <2>2, <2>3, ListKept
<1>4. ASSUME /\ gc'[g].pc = "list" => gc'[g].now <= clock
             /\ gc'[g].pc \in {"sweep", "delete"} => \A t \in gc'[g].todo : t \in created /\ Due(g, t)'
             /\ gc'[g].pc = "delete" => gc'[g].todo # {}
      PROVE  CollectInv'
    BY <1>1, <1>3, <1>4 DEF CollectInv
<1>5. ASSUME trees' = trees PROVE RemovedDue
    BY <1>5 DEF RemovedDue, Exists
<1>6. gc[g].pc \in {"sweep", "delete"} => \A t \in gc[g].todo : t \in created /\ Due(g, t)
    BY DEF CollectInv
<1>7. NextTree(g).pc = "sweep" /\ NextTree(g).todo \subseteq gc[g].todo /\ SkipTree(g) = NextTree(g)
    BY <1>0 DEF NextTree, SkipTree, Sweep
<1>8. ASSUME touched' = touched, NEW t \in TreeId, Due(g, t)
      PROVE  Due(g, t)'
    BY <1>1, <1>2, <1>8 DEF Due, Expired, Deleted, Exists
<1>9. CASE StartSweep(g)
  <2>1. trees' = trees /\ gc'[g].pc = "list" /\ gc'[g].now = clock
      BY <1>0, <1>9 DEF StartSweep, adminVars
  <2> QED
      BY <1>0, <1>4, <1>5, <2>1
<1>10. CASE ListTrees(g)
  <2>1. trees' = trees /\ gc[g].pc = "list" /\ gc[g].now <= clock
      BY <1>10 DEF ListTrees, adminVars, CollectInv
  <2>2. \/ gc'[g].pc = "sweep" /\ gc'[g].todo = Eligible(gc[g].now)
        \/ gc'[g].pc = "sleep"
      BY <1>0, <1>10 DEF ListTrees, Sleeping
  <2>3. ASSUME NEW t \in Eligible(gc[g].now) PROVE t \in created /\ Due(g, t)'
    <3>1. t \in TreeId /\ Deleted(t) /\ gc[g].now - trees[t].deleteTime > Threshold
        BY DEF Eligible
    <3>2. trees[t].deleteTime \in Int /\ t \in created
        BY <1>0, <3>1, Bounds DEF Deleted, Exists, Row, Never, IInv, TypeOK, AdminTypeOK
    <3>3. Expired(t)
        BY <1>0, <2>1, <3>1, <3>2 DEF Expired
    <3> QED
        BY <1>1, <2>1, <3>2, <3>3 DEF Due, Expired, Deleted, Exists
  <2> QED
      BY <1>4, <1>5, <2>1, <2>2, <2>3
<1>11. CASE ValidateForHardDelete(g)
  <2>1. trees' = trees /\ gc[g].pc = "sweep" /\ gc[g].todo # {} /\ touched' = touched
      BY <1>11 DEF ValidateForHardDelete, adminVars
  <2>2. gc'[g] \in {[gc[g] EXCEPT !.pc = "delete"], NextTree(g)}
      BY <1>0, <1>7, <1>11 DEF ValidateForHardDelete
  <2>3. /\ gc'[g].todo \subseteq gc[g].todo
        /\ \/ gc'[g].pc = "delete" /\ gc'[g].todo = gc[g].todo
           \/ gc'[g].pc = "sweep"
      BY <1>0, <1>7, <2>2 DEF Sweep
  <2> QED
      BY <1>0, <1>4, <1>5, <1>6, <1>8, <2>1, <2>3
<1>12. CASE HardDeleteTree(g)
  <2>1. gc[g].pc = "delete" /\ gc[g].todo # {} /\ touched' = touched
      BY <1>12 DEF HardDeleteTree, CollectInv
  <2>2. Current(g) \in gc[g].todo
      BY <1>0, <2>1, CurrentListed
  <2>3. trees' = [trees EXCEPT ![Current(g)] = NoTree] /\ gc'[g] = NextTree(g)
      BY <1>0, <1>12 DEF HardDeleteTree
  <2>4. \A t \in TreeId : t # Current(g) => trees'[t] = trees[t]
      BY <1>0, <2>3
  <2>5. Due(g, Current(g))
      BY <1>6, <2>1, <2>2
  <2>6. RemovedDue
      BY <2>1, <2>4, <2>5 DEF RemovedDue, Due, Exists
  <2>7. CollectInv'
      BY <1>0, <1>4, <1>6, <1>7, <1>8, <2>1, <2>3
  <2> QED
      BY <2>6, <2>7
<1>13. CASE HardDeleteFails(g)
  <2>1. trees' = trees /\ gc[g].pc = "delete" /\ gc'[g] = NextTree(g) /\ touched' = touched
      BY <1>0, <1>7, <1>13 DEF HardDeleteFails, adminVars
  <2> QED
      BY <1>0, <1>4, <1>5, <1>6, <1>7, <1>8, <2>1
<1>14. CASE EndSweep(g)
  <2>1. trees' = trees /\ gc'[g].pc = "sleep"
      BY <1>0, <1>14 DEF EndSweep, adminVars, Sleeping
  <2> QED
      BY <1>4, <1>5, <2>1
<1> QED
    BY <1>9, <1>10, <1>11, <1>12, <1>13, <1>14 DEF Collect

LEMMA CollectInduction ==
    ASSUME IInv, IInv', CollectInv, [Next]_vars
    PROVE  CollectInv' /\ RemovedDue
<1>0. /\ clock \in Int /\ clock' \in Int /\ created \subseteq TreeId
      /\ \A g \in Collector : gc[g].todo \subseteq TreeId
    BY Bounds DEF IInv, TypeOK, AdminTypeOK
<1>1. ASSUME clock' >= clock, UNCHANGED <<trees, created, gc, touched>>
      PROVE  CollectInv' /\ RemovedDue
  <2>1. RemovedDue
      BY <1>1 DEF RemovedDue, Exists
  <2>2. \A t : Exists(t)' => Exists(t) /\ trees'[t].deleteTime = trees[t].deleteTime
      BY <1>1 DEF Exists
  <2>3. CollectInv'
      BY <1>0, <1>1, <2>2, ListKept DEF CollectInv
  <2> QED
      BY <2>1, <2>3
<1>2. ASSUME NEW a \in Admin, AdminCall(a), Touch, UNCHANGED <<gc, pass, signers>>
      PROVE  CollectInv' /\ RemovedDue
  <2>1. clock' = clock /\ \A t \in TreeId : Exists(t) => Exists(t)'
      BY <1>2, AdminCallKeeps
  <2>2. PublicKept
      BY <1>2, AdminCallStep DEF IInv, TypeOK, AdminInv
  <2>3. ASSUME NEW g \in Collector, NEW t \in gc[g].todo \cap created
        PROVE  \/ t \in touched'[g]
               \/ /\ touched[g] \subseteq touched'[g]
                  /\ Exists(t)' => trees'[t].deleteTime = trees[t].deleteTime
    <3>1. touched'[g] = touched[g] \cup {u \in gc[g].todo :
              Exists(u) /\ Exists(u)' /\ trees'[u].deleteTime # trees[u].deleteTime}
        BY <1>2 DEF Touch
    <3> QED
        BY <2>2, <3>1 DEF PublicKept
  <2>4. CollectInv'
      BY <1>0, <1>2, <2>1, <2>2, <2>3, ListKept DEF CollectInv, PublicKept
  <2>5. RemovedDue
      BY <2>1 DEF RemovedDue
  <2> QED
      BY <2>4, <2>5
<1>3. CASE Tick /\ UNCHANGED <<gc, pass, signers, touched>>
    BY <1>0, <1>1, <1>3 DEF Tick
<1>4. CASE \E s \in Signer : ExecutePass(s) \/ IntegrateBatch(s) \/ Restart(s)
    BY <1>0, <1>1, <1>4 DEF ExecutePass, IntegrateBatch, Restart, adminVars
<1>5. CASE UNCHANGED vars
    BY <1>0, <1>1, <1>5 DEF vars
<1> QED
    BY <1>2, <1>3, <1>4, <1>5, CollectDue DEF Next

\* However sweeps, deletions and undeletions overlap, the garbage collector removes no tree
\* before its deletion is longer ago than the threshold, unless the tree was undeleted or
\* deleted anew after the sweep had listed it (tree_gc.go, RunOnce).
THEOREM NoTreeCollectedEarly == Spec => NeverCollectedEarly
<1>1. Init => CollectInv
  <2> SUFFICES ASSUME Init PROVE CollectInv
      OBVIOUS
  <2> QED
      BY DEF Init, AdminInit, Sleeping, CollectInv
<1>2. ASSUME IInv, IInv', CollectInv, [Next]_vars
      PROVE  CollectInv' /\ [\A t \in TreeId : Exists(t) /\ ~ Exists(t)' =>
                 \/ Expired(t)
                 \/ \E g \in Collector :
                        gc[g].pc = "delete" /\ Current(g) = t /\ t \in touched[g]]_vars
    BY <1>2, CollectInduction DEF RemovedDue
<1> QED
    BY <1>1, <1>2, InitTypes, Induction, PTL DEF Spec, NeverCollectedEarly

===============================================================================
