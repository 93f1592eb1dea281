------------------------------- MODULE MCSpanner -------------------------------
(* Instances of SpannerSystem for TLC. *)
EXTENDS SpannerSystem

MCLeaves == {[id |-> "a", merkle |-> 0], [id |-> "b", merkle |-> 0], [id |-> "c", merkle |-> 3]}

\* The default, a ring of one place with single-byte Merkle buckets, and more Merkle buckets
\* than there are byte values.
MCSettings == {NoSettings, LogConfig(1, NumByteValues), LogConfig(2, NumByteValues + 1)}

\* A clock that is past the last root, one that shows its very time, and one that is behind it
\* but past the root before.
MCDistances == {2, 0, -1}

MCOptions == {NoFraction, [num |-> 1, den |-> 1]}

MCTree(type, strategy, sig, settings) ==
    [display_name |-> "new", tree_state |-> "ACTIVE", tree_type |-> type,
     hash_strategy |-> strategy, hash_algorithm |-> "SHA256", signature_algorithm |-> sig,
     storage_settings |-> settings]
MCNewTrees ==
    {MCTree("LOG", "RFC6962_SHA256", "ECDSA", NoSettings),
     MCTree("LOG", "OBJECT_RFC6962_SHA256", "RSA", LogConfig(3, 1)),
     MCTree("LOG", "RFC6962_SHA256", "RSA", MapConfig),
     MCTree("LOG", "UNKNOWN", "RSA", NoSettings),
     MCTree("MAP", "CONIKS_SHA512_256", "ECDSA", NoSettings),
     MCTree("MAP", "TEST_MAP_HASHER", "ECDSA", LogConfig(1, 1))}
MCUpdates == {[tree_state |-> "FROZEN"], [display_name |-> "other"],
              [storage_settings |-> LogConfig(1, 1)], [tree_type |-> "MAP"]}
================================================================================
