----------------------------- MODULE SubtreeCache ----------------------------
(***************************************************************************)
(* storage/cache/subtree_cache.go.  The nodes of a tree are stored in       *)
(* subtrees: the tree is cut into strata, and a subtree is named by the     *)
(* path above it.  A cache belongs to one transaction; it holds the         *)
(* subtrees read or created so far and remembers which were written to.     *)
(* A Subtree keeps the nodes of its lowest level apart from the internal    *)
(* ones, which are what the functions Populate and Prepare of a log or a    *)
(* map rebuild after a read and drop before a write.                        *)
(***************************************************************************)
EXTENDS Integers, SequencesExt

(* The names of the nodes of a Merkle tree: storage/types.go and storage/suffix.go. A
   NodeID is a path of bits, most significant first, padded to whole bytes, of which
   the first len bits are significant. What lies behind them may be anything: every
   comparison has to mask it. A byte has Byte bits (8 in the code), so that small
   trees already span several subtrees. *)

CONSTANT Byte

ASSUME ByteAssumption == Byte \in Nat \ {0}

-----------------------------------------------------------------------------
(* Arithmetic on bits, which Go has built in. *)

Shr(x, n) == x \div 2^n

BitSet(x, n) == Shr(x, n) % 2 = 1

Sibling(x) == IF x % 2 = 1 THEN x - 1 ELSE x + 1

Bits(x, w) == [i \in 1..w |-> Shr(x, w - i) % 2]

BitsValue(bits) == FoldLeft(LAMBDA v, b : 2 * v + b, 0, bits)

Zeros(n) == [i \in 1..n |-> 0]

BitLen(x) == CHOOSE n \in 0..x : 2^n > x /\ \A m \in 0..(n - 1) : 2^m <= x

\* How many of the lowest bits of x are set.
TrailingOnes(x) == CHOOSE n \in 0..BitLen(x) : ~BitSet(x, n) /\ \A m \in 0..(n - 1) : BitSet(x, m)

BytesForBits(n) == (n + Byte - 1) \div Byte

Fit(bits, n) == SubSeq(bits \o Zeros(n), 1, n)

-----------------------------------------------------------------------------
NodeID(path, len) == [path |-> path, len |-> len]

\* The error of the constructors.
NoNodeID == NodeID(<< >>, -1)

NewNodeIDFromHash(h) == NodeID(h, Len(h))

NewNodeIDFromPrefix(prefix, depth, index, subDepth, totalDepth) ==
    NodeID(Fit(prefix \o Bits(index * 2^(subDepth - depth), subDepth), totalDepth),
           Len(prefix) + depth)

\* The bits behind depth are not masked.
NewNodeIDFromBigInt(depth, index, totalDepth) == NodeID(Bits(index, totalDepth), depth)

BigInt(n) == BitsValue(n.path)

(* Coordinates of a log: level 0 holds the leaves. *)
NewNodeIDForTreeCoords(depth, index, maxPathBits) ==
    IF index < 0 \/ depth < 0 \/ BitLen(index) > maxPathBits - depth
      THEN NoNodeID
      ELSE NodeID(Bits(index * 2^depth, maxPathBits), maxPathBits - depth)

String(n) == SubSeq(n.path, 1, n.len)

Equivalent(n, other) == String(n) = String(other)

\* Bit i from the right.
Bit(n, i) == n.path[Len(n.path) - i]

FlipRightBit(n, i) == [n EXCEPT !.path[Len(n.path) - i] = 1 - @]

MaskLeft(n, depth) == NodeID(Fit(SubSeq(n.path, 1, depth), Len(n.path)),
                             IF depth < n.len THEN depth ELSE n.len)

Neighbor(n) == FlipRightBit(n, Len(n.path) - n.len)

\* From the leaf upwards.
Siblings(n) == [h \in 1..n.len |-> Neighbor(MaskLeft(n, n.len - (h - 1)))]

-----------------------------------------------------------------------------
(* The place of a node inside a subtree; String of a Suffix is injective. *)
Suffix(bits, path) == [bits |-> bits, path |-> path]

Split(n, prefixBits, suffixBits) ==
    IF n.len = 0
      THEN [prefix |-> << >>, suffix |-> Suffix(0, Zeros(Byte))]
      ELSE LET bits == n.len - prefixBits
               bytes == BytesForBits(bits) * Byte
           IN  IF Assert(bits <= suffixBits /\ bits # 0, "Split")
                 THEN [prefix |-> SubSeq(n.path, 1, prefixBits),
                       suffix |-> Suffix(bits, Fit(SubSeq(n.path, prefixBits + 1, n.len), bytes))]
                 ELSE [prefix |-> << >>, suffix |-> Suffix(0, << >>)]

NewNodeIDFromPrefixSuffix(prefix, suffix, maxPathBits) ==
    NodeID(Fit(prefix \o suffix.path, maxPathBits), Len(prefix) + suffix.bits)

-----------------------------------------------------------------------------
(* The cache. *)

CONSTANT Strata          \* the depths of the strata, from the root

ASSUME StrataAssumption ==
    /\ Strata \in Seq(Nat \ {0})
    /\ \A k \in 1..Len(Strata) : Strata[k] % Byte = 0

TotalDepth == FoldLeft(LAMBDA a, b : a + b, 0, Strata)

\* The number of bits above stratum k.
Above(k) == FoldLeft(LAMBDA a, b : a + b, 0, SubSeq(Strata, 1, k - 1))

\* The stratum of every bit.
StratumInfo ==
    LET strata == {[prefixBits |-> Above(k), depth |-> Strata[k]] : k \in 1..Len(Strata)}
    IN  [b \in 0..(TotalDepth - 1) |->
           CHOOSE s \in strata : s.prefixBits <= b /\ b < s.prefixBits + s.depth]

StratumInfoForPrefixLength(numBits) == StratumInfo[IF numBits < 0 THEN 0 ELSE numBits]

SplitAt(id, stratum) == Split(id, stratum.prefixBits, stratum.depth)

\* Unless the ID is empty, the suffix has at least one bit.
SplitNodeID(id) == SplitAt(id, StratumInfoForPrefixLength(id.len - 1))

EmptyMap == [x \in {} |-> NoNodeID]

Subtree(prefix, depth, leaves, internal, count) ==
    [prefix |-> prefix, depth |-> depth, leaves |-> leaves, internal |-> internal, count |-> count]

NewEmptySubtree(px) ==
    Subtree(px, StratumInfoForPrefixLength(Len(px)).depth, EmptyMap, EmptyMap, 0)

NewSubtreeCache == [subtrees |-> EmptyMap, dirty |-> {}]

-----------------------------------------------------------------------------
\* The subtrees of nodes that have to be read.
Wanted(c, ids) == {SplitNodeID(id).prefix : id \in ids} \ DOMAIN c.subtrees

(* The argument stored is the function from those of the wanted prefixes that
   storage has to their subtrees, as the populate function of the tree returns
   them, which are used even when it fails. *)
Preload(c, ids, stored) ==
    LET want == Wanted(c, Range(ids))
        loaded == [px \in want |-> IF px \in DOMAIN stored THEN stored[px].subtree
                                                           ELSE NewEmptySubtree(px)]
    IN  [c EXCEPT !.subtrees = loaded @@ @]

\* The hashes of the level of a suffix.
LevelOf(st, suffix) == IF suffix.bits = st.depth THEN st.leaves ELSE st.internal

HashAt(map, suffix, none) == IF suffix \in DOMAIN map THEN map[suffix] ELSE none

HashOf(c, split, none) == HashAt(LevelOf(c.subtrees[split.prefix], split.suffix), split.suffix, none)

NodeHashIn(c, id, none) == HashOf(c, SplitNodeID(id), none)

\* Nodes that storage does not have are left out of the answer.
NodesIn(c, ids, none) ==
    LET nodes == [i \in 1..Len(ids) |-> [id |-> ids[i], hash |-> NodeHashIn(c, ids[i], none)]]
    IN  [cache |-> c, nodes |-> SelectSeq(nodes, LAMBDA n : n.hash # none)]

GetNodes(c, ids, stored, none) == NodesIn(Preload(c, ids, stored), ids, none)

(* Writing to a subtree that was not read reads it, and fails if it cannot be
   populated. *)
SubtreeToWrite(c, prefix, stored) ==
    CASE prefix \in DOMAIN c.subtrees -> [ok |-> TRUE, subtree |-> c.subtrees[prefix]]
      [] prefix \in DOMAIN stored \ DOMAIN c.subtrees -> stored[prefix]
      [] OTHER -> [ok |-> TRUE, subtree |-> NewEmptySubtree(prefix)]

WithEntry(st, suffix, h) ==
    IF suffix.bits = st.depth THEN [st EXCEPT !.leaves = (suffix :> h) @@ @]
                              ELSE [st EXCEPT !.internal = (suffix :> h) @@ @]

WriteEntry(c, split, h, read) ==
    [ok |-> read.ok,
     cache |-> [subtrees |-> (split.prefix :> WithEntry(read.subtree, split.suffix, h)) @@ c.subtrees,
                dirty |-> c.dirty \cup {split.prefix}]]

SetSplitHash(c, split, h, stored) ==
    WriteEntry(c, split, h, SubtreeToWrite(c, split.prefix, stored))

SetNodeHash(c, id, h, stored) == SetSplitHash(c, SplitNodeID(id), h, stored)

SetNodes(c, nodes, stored) ==
    LET after(acc, r) == [ok |-> acc.ok /\ r.ok, cache |-> r.cache]
    IN  FoldLeft(LAMBDA acc, n : after(acc, SetNodeHash(acc.cache, n.id, n.hash, stored)),
                 [ok |-> TRUE, cache |-> c], nodes)

\* The subtrees to be prepared and written; those without leaves are not.
Flush(c) ==
    {c.subtrees[px] : px \in {p \in c.dirty : DOMAIN c.subtrees[p].leaves # {}}}

-----------------------------------------------------------------------------
(* Table Subtree of storage/mysql: of every subtree the row of the latest revision up to rev. *)
GetSubtrees(rows, rev, prefixes) ==
    LET upTo == {r \in rows : r.subtree.prefix \in prefixes /\ r.rev <= rev}
        latest(px) == CHOOSE r \in upTo : r.subtree.prefix = px
                         /\ \A q \in upTo : q.subtree.prefix = px => q.rev <= r.rev
    IN  [px \in {r.subtree.prefix : r \in upTo} |-> latest(px).subtree]
=============================================================================
