------------------------------- MODULE TreeAdmin -------------------------------
(***************************************************************************)
(* Tree administration: the rows of table Trees and the operations of the  *)
(* admin server on them (server/admin/admin_server.go, with the MySQL      *)
(* storage of storage/mysql/admin_storage.go under it).                    *)
(*                                                                         *)
(* An operation is one transaction at MySQL's default isolation level: it  *)
(* reads the row from a snapshot, without locking it, and then writes the  *)
(* current row by its key.  The write locks the row until the commit, and  *)
(* nobody sees it before that, so write and commit are one step here, and  *)
(* read and write are two.  Of a row the model keeps the columns that the  *)
(* rest of the system acts upon.                                           *)
(***************************************************************************)
EXTENDS Integers

CONSTANTS TreeId,         \* the IDs that NewTreeID can return
          Admin,          \* concurrent calls of the admin API
          PrivateKey,     \* private keys, in the form in which trees hold them
          KeyOf,          \* the public key that belongs to each
          CreateRequest,  \* trees that callers ask to create
          UpdateRequest,  \* updates they ask for: a mask and the values of a tree
          MaxCalls,       \* bound: calls of the admin API
          MaxTime,        \* bound: the clock stops here
          Threshold       \* the GC's deleteThreshold

State == {"ACTIVE", "FROZEN", "UNKNOWN_TREE_STATE"}
Field == {"tree_state", "private_key"}

ASSUME TreeAdminAssumption ==
    /\ TreeId \subseteq Nat \ {0}
    /\ CreateRequest \subseteq [state : State, private : PrivateKey]
    /\ UpdateRequest \subseteq
          [mask : (SUBSET Field) \ {{}}, state : State, private : PrivateKey]
    /\ MaxCalls \in Nat
    /\ MaxTime \in Nat /\ Threshold \in Nat /\ Threshold < MaxTime

NoTree == [state |-> "no row"]
Never  == -1

VARIABLES trees,     \* the row of each tree, or NoTree
          created,   \* the IDs handed out by NewTreeID
          call,      \* what each caller is about to write
          calls,     \* how many calls there have been
          clock      \* the time, in milliseconds since the epoch

adminVars == <<trees, created, call, calls, clock>>

Stored == {"ACTIVE", "FROZEN"}  \* the values of column TreeState
Public == {KeyOf[k] : k \in PrivateKey}
Row    == [state : Stored, private : PrivateKey, public : Public,
           deleted : BOOLEAN, deleteTime : 0..MaxTime \cup {Never}]

Exists(t)  == trees[t] # NoTree
Deleted(t) == Exists(t) /\ trees[t].deleted

\* Calls come early enough for what they delete to be collected before the clock stops.
LastCall == MaxTime - Threshold - 1

Idle == [op |-> "none"]
Call == {Idle}
        \cup [op : {"UpdateTree"}, tree : TreeId, mask : SUBSET Field,
              state : Stored, private : PrivateKey]
        \cup [op : {"SoftDeleteTree"}, tree : TreeId, time : 0..MaxTime]
        \cup [op : {"UndeleteTree"}, tree : TreeId]

Starts(a) ==
    /\ call[a] = Idle
    /\ clock <= LastCall /\ calls < MaxCalls
    /\ calls' = calls + 1

AdminTypeOK ==
    /\ trees \in [TreeId -> Row \cup {NoTree}]
    /\ created \subseteq TreeId
    /\ \A t \in TreeId : Exists(t) => /\ t \in created
                                      /\ Deleted(t) <=> trees[t].deleteTime # Never
    /\ calls \in 0..MaxCalls
    /\ clock \in 0..MaxTime
    /\ call \in [Admin -> Call]
    /\ \A a \in Admin : call[a] # Idle => call[a].tree \in created

AdminInit ==
    /\ trees = [t \in TreeId |-> NoTree]
    /\ created = {}
    /\ call = [a \in Admin |-> Idle]
    /\ calls = 0
    /\ clock = 0

-----------------------------------------------------------------------------
\* Mutant: the new private key is not compared with the tree's public key.
AnyKey(tree) == tree.state # "UNKNOWN_TREE_STATE"

\* The values that creations and updates have in common: a state the schema knows, and a
\* private key that gives the tree's public key.
ValidateMutableTreeFields(tree) ==
    /\ tree.state # "UNKNOWN_TREE_STATE"
    /\ KeyOf[tree.private] = tree.public

ValidateTreeForCreation(tree) ==
    /\ tree.state = "ACTIVE"
    /\ ValidateMutableTreeFields(tree)

\* The tree that the server makes of a request: the public key is derived from the private
\* key, and the fields that the storage generates are cleared.
NewTree(request) ==
    [state |-> request.state, private |-> request.private,
     public |-> KeyOf[request.private], deleted |-> FALSE, deleteTime |-> Never]

\* A new tree gets a fresh ID.  Both rows, in Trees and in TreeControl, are inserted by one
\* transaction.
CreateTree(a) ==
    /\ Starts(a)
    /\ \E request \in CreateRequest, t \in TreeId \ created :
          /\ ValidateTreeForCreation(NewTree(request))
          /\ trees' = [trees EXCEPT ![t] = NewTree(request)]
          /\ created' = created \cup {t}
    /\ UNCHANGED <<call, clock>>

\* Only the fields that the mask names are taken from the request.
ApplyUpdateMask(request, row) ==
    [row EXCEPT
        !.state   = IF "tree_state"  \in request.mask THEN request.state   ELSE @,
        !.private = IF "private_key" \in request.mask THEN request.private ELSE @]

\* UpdateTree reads the tree, applies the mask to what it read and validates the result ...
ReadForUpdate(a) ==
    /\ Starts(a)
    /\ \E t \in created, request \in UpdateRequest :
          /\ Exists(t)
          /\ LET tree == ApplyUpdateMask(request, trees[t])
             IN /\ ValidateMutableTreeFields(tree)
                /\ call' = [call EXCEPT ![a] =
                       [op |-> "UpdateTree", tree |-> t, mask |-> request.mask,
                        state |-> tree.state, private |-> tree.private]]
    /\ UNCHANGED <<trees, created, clock>>

\* ... and then writes every mutable column of it, in the mask or not.  An UPDATE of a row
\* that is gone matches nothing and is no error.
UpdateTree(a) ==
    /\ call[a].op = "UpdateTree"
    /\ LET t == call[a].tree
       IN trees' = IF Exists(t)
                   THEN [trees EXCEPT ![t] = [@ EXCEPT !.state   = call[a].state,
                                                       !.private = call[a].private]]
                   ELSE trees
    /\ call' = [call EXCEPT ![a] = Idle]
    /\ UNCHANGED <<created, calls, clock>>

\* The tree has to be there, and to be deleted already or not.
ValidateDeleted(t, wantDeleted) == Exists(t) /\ (trees[t].deleted <=> wantDeleted)

\* The delete time is taken before the row is read.
ReadForDelete(a) ==
    /\ Starts(a)
    /\ \E t \in created :
          \/ /\ ValidateDeleted(t, FALSE)
             /\ call' = [call EXCEPT ![a] = [op |-> "SoftDeleteTree", tree |-> t,
                                             time |-> clock]]
          \/ /\ ValidateDeleted(t, TRUE)
             /\ call' = [call EXCEPT ![a] = [op |-> "UndeleteTree", tree |-> t]]
    /\ UNCHANGED <<trees, created, clock>>

SoftDeleteTree(a) ==
    /\ call[a].op = "SoftDeleteTree"
    /\ LET t == call[a].tree
       IN trees' = IF Exists(t)
                   THEN [trees EXCEPT ![t] = [@ EXCEPT !.deleted = TRUE,
                                                       !.deleteTime = call[a].time]]
                   ELSE trees
    /\ call' = [call EXCEPT ![a] = Idle]
    /\ UNCHANGED <<created, calls, clock>>

UndeleteTree(a) ==
    /\ call[a].op = "UndeleteTree"
    /\ LET t == call[a].tree
       IN trees' = IF Exists(t)
                   THEN [trees EXCEPT ![t] = [@ EXCEPT !.deleted = FALSE, !.deleteTime = Never]]
                   ELSE trees
    /\ call' = [call EXCEPT ![a] = Idle]
    /\ UNCHANGED <<created, calls, clock>>

\* An error of the database or the end of the caller's context: the transaction is rolled back.
CallFails(a) ==
    /\ call[a] # Idle
    /\ call' = [call EXCEPT ![a] = Idle]
    /\ UNCHANGED <<trees, created, calls, clock>>

Tick ==
    /\ clock < MaxTime
    /\ clock' = clock + 1
    /\ UNCHANGED <<trees, created, call, calls>>

Finishes(a) == UpdateTree(a) \/ SoftDeleteTree(a) \/ UndeleteTree(a)

AdminCall(a) == CreateTree(a) \/ ReadForUpdate(a) \/ ReadForDelete(a) \/ Finishes(a) \/ CallFails(a)
=================================================================================
