-------------------------------- MODULE MCTrees -------------------------------
(***************************************************************************)
(* Instances of TreeSystem for TLC.                                        *)
(***************************************************************************)
EXTENDS TreeSystem, TLC

\* The key of the tree in two forms (say, two files), and a key that is not its own.
MCKeyOf == ("pem1" :> "own") @@ ("pem2" :> "own") @@ ("wrong" :> "other")

MCCreateRequest == {[state |-> "ACTIVE", private |-> "pem1"]}

Update(mask, state, private) == [mask |-> mask, state |-> state, private |-> private]

MCUpdateRequest == {Update({"tree_state"}, "FROZEN", "pem1"),
                    Update({"tree_state"}, "UNKNOWN_TREE_STATE", "pem1"),
                    Update({"private_key"}, "ACTIVE", "pem2"),
                    Update({"tree_state", "private_key"}, "ACTIVE", "wrong")}
===============================================================================
