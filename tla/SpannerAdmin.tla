----------------------------- MODULE SpannerAdmin ------------------------------
(***************************************************************************)
(* Tree administration on Cloud Spanner (storage/cloudspanner/admin.go).   *)
(* A tree is one row of TreeRoots: all of it is in the serialised column   *)
(* TreeInfo, and some of it is repeated in columns of their own for the    *)
(* queries.                                                                *)
(*                                                                         *)
(* Each operation is given as what the function passed to                  *)
(* ReadWriteTransaction does on the database it reads: an error, or the    *)
(* mutations it buffers and its answer.                                    *)
(***************************************************************************)
EXTENDS Integers, Sequences, FiniteSets, Functions, SequencesExt, TLC

(* The database under storage/cloudspanner: the tables of spanner.sdl and what the
   Cloud Spanner client does with the mutations the package buffers.  A table is a set
   of rows, a row a function of its columns.  A list of mutations is applied as a whole
   or not at all. *)

Tables == {"TreeRoots", "TreeHeads", "SubtreeData", "LeafData",
           "SequencedLeafData", "Unsequenced", "MapLeafData"}

\* The columns of the tables (values and signatures are left to the rows' users).
Columns(table) ==
    CASE table = "TreeRoots"   -> {"TreeID", "TreeState", "TreeType", "TreeInfo",
                                   "Deleted", "DeleteTimeMillis"}
      [] table = "TreeHeads"   -> {"TreeID", "TimestampNanos", "TreeSize", "RootHash",
                                   "RootSignature", "TreeRevision", "TreeMetadata"}
      [] table = "SubtreeData" -> {"TreeID", "SubtreeID", "Revision", "Subtree"}
      [] table = "LeafData"    -> {"TreeID", "LeafIdentityHash", "LeafValue", "ExtraData",
                                   "QueueTimestampNanos"}
      [] table = "SequencedLeafData" -> {"TreeID", "SequenceNumber", "LeafIdentityHash",
                                   "MerkleLeafHash", "IntegrateTimestampNanos"}
      [] table = "Unsequenced" -> {"TreeID", "Bucket", "QueueTimestampNanos",
                                   "MerkleLeafHash", "LeafIdentityHash"}
      [] table = "MapLeafData" -> {"TreeID", "LeafIndex", "MapRevision", "LeafHash",
                                   "LeafValue", "ExtraData"}

\* The sets of columns whose values no two rows of the table share: its primary
\* key and its unique indices.
UniqueKeys(table) ==
    CASE table = "TreeRoots"   -> {{"TreeID"}}
      [] table = "TreeHeads"   -> {{"TreeID", "TimestampNanos"}, {"TreeID", "TreeRevision"}}
      [] table = "SubtreeData" -> {{"TreeID", "SubtreeID", "Revision"}}
      [] table = "LeafData"    -> {{"TreeID", "LeafIdentityHash"}}
      [] table = "SequencedLeafData" -> {{"TreeID", "SequenceNumber"}}
      [] table = "Unsequenced" -> {{"TreeID", "Bucket", "QueueTimestampNanos",
                                    "MerkleLeafHash"}}
      [] table = "MapLeafData" -> {{"TreeID", "LeafIndex", "MapRevision"}}

EmptyDB == [table \in Tables |-> {}]

Agree(r, s, cols) == \A c \in cols : r[c] = s[c]

\* Mutations.  A deletion names values of columns and removes the rows that have them.
Insert(table, row) == [op |-> "insert", table |-> table, row |-> row]
Update(table, row) == [op |-> "update", table |-> table, row |-> row]
Delete(table, key) == [op |-> "delete", table |-> table, row |-> key]

\* What stops a mutation: an Insert of a key that exists, an Update of a row or of
\* a column that does not.
MutationErr(db, m) ==
    CASE m.op = "insert" /\ \E r \in db[m.table], k \in UniqueKeys(m.table) :
                                Agree(r, m.row, k)                 -> "AlreadyExists"
      [] m.op = "update" /\ ~(DOMAIN m.row \subseteq Columns(m.table)) -> "NotFound"
      [] m.op = "update" /\ ~\E r \in db[m.table] : r.TreeID = m.row.TreeID -> "NotFound"
      [] OTHER -> "OK"

\* The columns of row m over those of row r.
Overlay(r, m) == [c \in DOMAIN r \cup DOMAIN m |-> IF c \in DOMAIN m THEN m[c] ELSE r[c]]

ApplyMutation(db, m) ==
    [db EXCEPT ![m.table] =
        CASE m.op = "insert" -> @ \cup {m.row}
          [] m.op = "update" -> {IF r.TreeID = m.row.TreeID THEN Overlay(r, m.row) ELSE r : r \in @}
          [] m.op = "delete" -> {r \in @ : ~Agree(r, m.row, DOMAIN m.row)}]

\* Client.Apply and the commit of a transaction: the database and the error code
\* the caller sees.
Applied(db, mutations) ==
    LET step(acc, m) ==
            IF acc.err # "OK" THEN acc
            ELSE LET err == MutationErr(acc.db, m)
                 IN [err |-> err, db |-> IF err = "OK" THEN ApplyMutation(acc.db, m) ELSE db]
    IN FoldLeft(step, [db |-> db, err |-> "OK"], mutations)

-----------------------------------------------------------------------------
CONSTANTS NumUnseqBuckets, NumMerkleBuckets,  \* the package's defaults
          NumByteValues                       \* the values of a byte (256)

NoTree == [tree_id |-> 0]
Fail(code)        == [err |-> code, mutations |-> << >>, answer |-> NoTree]
Body(muts, value) == [err |-> "OK", mutations |-> muts, answer |-> value]

\* The enums of the API and of the storage.  UNKNOWN values have no counterpart.
treeStateMap    == "ACTIVE" :> "ACTIVE" @@ "FROZEN" :> "FROZEN"
treeTypeMap     == "LOG" :> "LOG" @@ "MAP" :> "MAP"
hashStrategyMap == "RFC6962_SHA256" :> "RFC_6962"
                   @@ "TEST_MAP_HASHER" :> "TEST_MAP_HASHER"
                   @@ "OBJECT_RFC6962_SHA256" :> "OBJECT_RFC6962_SHA256"
                   @@ "CONIKS_SHA512_256" :> "CONIKS_SHA512_256"
hashAlgMap      == "SHA256" :> "SHA256"
signatureAlgMap == "RSA" :> "RSA" @@ "ECDSA" :> "ECDSA"

\* The reverse...Map functions, which refuse to start on maps that are not injective.
ReverseMap(m) == AntiFunction(m)

\* Settings of a tree: none, or the configuration of a log or of a map.
NoSettings == [kind |-> "nil"]
MapConfig  == [kind |-> "MapStorageConfig"]
LogConfig(unseq, merkle) ==
    [kind |-> "LogStorageConfig", NumUnseqBuckets |-> unseq, NumMerkleBuckets |-> merkle]

logConfigOrDefault(settings) ==
    IF settings = NoSettings THEN LogConfig(NumUnseqBuckets, NumMerkleBuckets) ELSE settings
mapConfigOrDefault(settings) == IF settings = NoSettings THEN MapConfig ELSE settings

\* Mutant: any number of Merkle buckets will do.
ConfigUnchecked(config) == config.NumUnseqBuckets >= 1

validateLogStorageConfig(config) ==
    /\ config.NumUnseqBuckets >= 1
    /\ config.NumMerkleBuckets \in 1..NumByteValues

\* newTreeInfo: the configuration it gives a new tree, or an error.
NewConfigErr(tree) ==
    LET log == logConfigOrDefault(tree.storage_settings)
        map == mapConfigOrDefault(tree.storage_settings)
    IN CASE tree.tree_type = "LOG" /\ log.kind # "LogStorageConfig"    -> "Internal"
         [] tree.tree_type = "LOG" /\ ~validateLogStorageConfig(log)   -> "InvalidArgument"
         [] tree.tree_type = "MAP" /\ map.kind # "MapStorageConfig"    -> "Internal"
         [] OTHER -> "OK"

NewInfoErr(tree) ==
    IF \/ tree.tree_state \notin DOMAIN treeStateMap
       \/ tree.tree_type \notin DOMAIN treeTypeMap
       \/ tree.hash_strategy \notin DOMAIN hashStrategyMap
       \/ tree.hash_algorithm \notin DOMAIN hashAlgMap
       \/ tree.signature_algorithm \notin DOMAIN signatureAlgMap
    THEN "Internal" ELSE NewConfigErr(tree)

newTreeInfo(tree, id) ==
    [TreeId |-> id, Name |-> tree.display_name,
     TreeState |-> treeStateMap[tree.tree_state], TreeType |-> treeTypeMap[tree.tree_type],
     HashStrategy |-> hashStrategyMap[tree.hash_strategy],
     HashAlgorithm |-> hashAlgMap[tree.hash_algorithm],
     SignatureAlgorithm |-> signatureAlgMap[tree.signature_algorithm],
     Config |-> IF tree.tree_type = "LOG" THEN logConfigOrDefault(tree.storage_settings)
                ELSE mapConfigOrDefault(tree.storage_settings),
     Deleted |-> FALSE, DeleteTimeNanos |-> 0]

\* The tree of the API that a stored one is read back as.
toTrillianTree(info) ==
    [tree_id |-> info.TreeId, display_name |-> info.Name,
     tree_state |-> ReverseMap(treeStateMap)[info.TreeState],
     tree_type |-> ReverseMap(treeTypeMap)[info.TreeType],
     hash_strategy |-> ReverseMap(hashStrategyMap)[info.HashStrategy],
     hash_algorithm |-> ReverseMap(hashAlgMap)[info.HashAlgorithm],
     signature_algorithm |-> ReverseMap(signatureAlgMap)[info.SignatureAlgorithm],
     storage_settings |-> info.Config, deleted |-> info.Deleted,
     delete_time |-> info.DeleteTimeNanos]

-------------------------------------------------------------------------------
\* getTreeInfo: everything comes from the serialised column.
TreeRow(db, id) == CHOOSE r \in db.TreeRoots : r.TreeID = id
TreeInfoErr(db, id) ==
    IF ~\E r \in db.TreeRoots : r.TreeID = id THEN "NotFound"
    ELSE LET info == TreeRow(db, id).TreeInfo
         IN IF info.TreeId # id THEN "inconsistency"
            ELSE IF info.Config.kind # (IF info.TreeType = "LOG" THEN "LogStorageConfig"
                                        ELSE "MapStorageConfig")
                 THEN "Internal" ELSE "OK"
getTreeInfo(db, id) == TreeRow(db, id).TreeInfo

\* The query by which signers find their logs, over the columns.
GetActiveLogIDs(db) ==
    {r.TreeID : r \in {s \in db.TreeRoots :
        s.TreeType = "LOG" /\ s.TreeState = "ACTIVE" /\ ~s.Deleted}}

\* ValidateTreeForCreation, as far as the fields kept here are concerned.
ValidForCreation(tree) ==
    /\ tree.tree_state = "ACTIVE"
    /\ tree.tree_type # "UNKNOWN" /\ tree.hash_strategy # "UNKNOWN"
    /\ tree.hash_algorithm # "NONE" /\ tree.signature_algorithm # "ANONYMOUS"

CreateTree(db, tree, id) ==
    IF ~ValidForCreation(tree) THEN Fail("InvalidArgument")
    ELSE IF NewInfoErr(tree) # "OK" THEN Fail(NewInfoErr(tree))
    ELSE LET info == newTreeInfo(tree, id)
         IN Body(<<Insert("TreeRoots",
                     [TreeID |-> id, TreeState |-> info.TreeState, TreeType |-> info.TreeType,
                      TreeInfo |-> info, Deleted |-> FALSE])>>, toTrillianTree(info))

\* updateTreeInfo writes a column for each field, as the table once had them.
updateTreeInfo(info) ==
    <<Update("TreeRoots",
        [TreeID |-> info.TreeId, TreeState |-> info.TreeState, TreeType |-> info.TreeType,
         HashStrategy |-> info.HashStrategy, HashAlgorithm |-> info.HashAlgorithm,
         SignatureAlgorithm |-> info.SignatureAlgorithm, DisplayName |-> info.Name])>>

\* UpdateTree: apply the caller's function to the tree, refuse a change of what is
\* read-only, and keep the rest.
UpdateTree(db, id, update) ==
    IF TreeInfoErr(db, id) # "OK" THEN Fail(TreeInfoErr(db, id))
    ELSE LET info   == getTreeInfo(db, id)
             before == toTrillianTree(info)
             tree   == Overlay(before, update)
             fixed  == DOMAIN tree \ {"tree_state", "display_name"}
             new    == [info EXCEPT !.TreeState = treeStateMap[tree.tree_state],
                                    !.Name = tree.display_name]
         IN IF \E f \in fixed : tree[f] # before[f] THEN Fail("InvalidArgument")
            ELSE IF tree.tree_state \notin DOMAIN treeStateMap THEN Fail("Internal")
            ELSE Body(updateTreeInfo(new), toTrillianTree(new))

\* SoftDeleteTree and UndeleteTree.
SetDeleted(db, id, deleted) ==
    IF TreeInfoErr(db, id) # "OK" THEN Fail(TreeInfoErr(db, id))
    ELSE LET info == getTreeInfo(db, id)
             new  == [info EXCEPT !.Deleted = deleted,
                                  !.DeleteTimeNanos = IF deleted THEN 1 ELSE 0]
         IN IF info.Deleted = deleted THEN Fail("FailedPrecondition")
            ELSE Body(updateTreeInfo(new), toTrillianTree(new))

\* HardDeleteTree: the rows of the tree in every table.
HardDeleteTree(db, id) ==
    IF TreeInfoErr(db, id) # "OK" THEN Fail(TreeInfoErr(db, id))
    ELSE IF ~getTreeInfo(db, id).Deleted THEN Fail("FailedPrecondition")
    ELSE Body(SetToSeq({Delete(t, [TreeID |-> id]) : t \in Tables}), NoTree)
================================================================================
