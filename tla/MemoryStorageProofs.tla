-------------------------- MODULE MemoryStorageProofs -------------------------
(***************************************************************************)
(* Proofs about the storage in memory: the tree and its snapshots hold     *)
(* what their roots were signed for, although a reader's commit writes its *)
(* clone back, and leaves enter the log in the order in which they were    *)
(* acknowledged, although the queue is not part of the transaction.        *)
(***************************************************************************)
EXTENDS MemoryStorage, FiniteSetTheorems, SequenceTheorems, NaturalsInduction,
        WellFoundedInduction, TLAPS

-------------------------------------------------------------------------------
\* The inductive invariant.

\* A root as InitLog or a pass signs it.
IsRoot(r) ==
    /\ r = [size |-> r.size, rev |-> r.rev, time |-> r.time, hash |-> r.hash]
    /\ r.rev \in Nat /\ r.time \in Nat
    /\ r.hash \in Seq(Item) /\ r.size = Len(r.hash)

\* The leaves and the nodes of a store are those of a root.
Backs(s, r) ==
    /\ IsRoot(r)
    /\ \A i \in 1 .. r.size : i - 1 \in DOMAIN s.seq /\ s.seq[i - 1] = r.hash[i]
    /\ getSubtrees(s, r.rev) = r.hash

Top(s, cur) == IF cur \in DOMAIN s.sth THEN s.sth[cur] ELSE NoRoot

\* A store with the time of its newest root, which covers all others.
StoreInv(s, cur) ==
    /\ s = [seq |-> s.seq, sth |-> s.sth, subtrees |-> s.subtrees]
    /\ IF DOMAIN s.sth = {} THEN s = EmptyStore ELSE cur \in DOMAIN s.sth
    /\ DOMAIN s.seq = 0 .. Top(s, cur).size - 1
    /\ DOMAIN s.subtrees \subseteq 0 .. Top(s, cur).rev
    /\ \A t \in DOMAIN s.sth :
          /\ Backs(s, s.sth[t])
          /\ s.sth[t].size <= Top(s, cur).size /\ s.sth[t].rev <= Top(s, cur).rev

Latest == Top(store, currentSTH)

Labels == {"idle", "create", "update", "count", "read", "in_read", "update_leaves", "sign"}
          \cup Writes

Transaction(t) ==
    t = [store |-> t.store, root |-> t.root, writeRevision |-> t.writeRevision,
         batch |-> t.batch]

Mutexes == [writer : SUBSET Proc, readers : SUBSET Proc, waiting : SUBSET Proc]

DumpType ==
    /\ dump = [size |-> dump.size, batch |-> dump.batch, next |-> dump.next,
               step |-> dump.step, want |-> dump.want]
    /\ dump.step \in {"off", "start", "create", "sequence", "queue", "last", "print", "fatal"}
    /\ dump.next \in Nat
    /\ dump.step # "off" => dump.size \in DumpSizes /\ dump.batch \in DumpBatches
    /\ dump.step = "queue" => dump.next < dump.size

TxType == tx = [p \in Proc |-> tx[p]] /\ \A p \in Proc : Transaction(tx[p])

Entry == [leaf : Item, dropped : BOOLEAN]

QueueType == unseq \in Seq(Item) /\ acked \in Seq([leaf : Item, dropped : BOOLEAN])

ClockType ==
    /\ trees \in Nat /\ now \in 1 .. MaxTime /\ currentSTH \in 0 .. now
    /\ faults \in 0 .. MaxFaults

Types ==
    /\ ClockType /\ TxType /\ QueueType /\ DumpType
    /\ pc \in [Proc -> Labels] /\ mu \in Mutexes /\ lock \in Mutexes

\* One writer or some readers.
Exclusive ==
    /\ lock.writer # {} => lock.readers = {}
    /\ \A p, q \in lock.writer : p = q

\* A process that has begun works on the latest store.
HasClone(p) ==
    /\ tx[p].store = store /\ tx[p].root = Latest
    /\ tx[p].writeRevision = IF Latest = NoRoot THEN -1 ELSE Latest.rev + 1

ReaderInv(p) == pc[p] = "in_read" => p \in lock.readers /\ HasClone(p) /\ Latest # NoRoot

WriterInv(p) ==
    /\ pc[p] \in Writes /\ p \in lock.writer => HasClone(p)
    /\ pc[p] = "update_leaves" =>
          /\ p \in lock.writer /\ HasClone(p) /\ Latest # NoRoot
          /\ Len(tx[p].batch) <= Len(unseq)
          /\ tx[p].batch = SubSeq(unseq, 1, Len(tx[p].batch))
    /\ pc[p] = "sign" =>
          /\ p \in lock.writer /\ Latest # NoRoot
          /\ tx[p].root = Latest /\ tx[p].writeRevision = Latest.rev + 1
          /\ tx[p].batch \in Seq(Item)
          /\ tx[p].store = Sequenced(store, Latest.size, tx[p].batch)

ProcInv(p) == ReaderInv(p) /\ WriterInv(p)

\* While dump_tree runs nobody else does, and its tree is new when it stores the first root.
DumpAlone ==
    /\ dump.step # "off" => \A p \in Proc \ {Driver} : pc[p] = "idle"
    /\ dump.step = "off" => pc[Driver] = "idle"
    /\ dump.step = "start" => lock = Free /\ pc[Driver] = "idle"
    /\ pc[Driver] = "queue" => dump.step = "queue"
    /\ \A p \in Proc : pc[p] = "zero" => p = Driver /\ dump.step = "create"
    /\ dump.step = "start" \/ pc[Driver] = "zero" => DOMAIN store.sth = {} /\ currentSTH = 0

\* Every stored leaf is in the map of hashes, and so is every leaf of the batch that a
\* transaction is about to store.
Found(l, i) == l \in DOMAIN h2s /\ i \in h2s[l]

Indices ==
    /\ \A i \in DOMAIN store.seq : Found(store.seq[i], i)
    /\ \A p \in Proc : pc[p] = "sign" =>
          \A i \in 1 .. Len(tx[p].batch) : Found(tx[p].batch[i], Latest.size + i - 1)

\* What was acknowledged and not dropped is the given sequence, and of the latest leaves
\* none was dropped.
KeptOf(a) == {i \in 1 .. Len(a) : ~a[i].dropped}

InLine(a, all, late) ==
    /\ Cardinality(KeptOf(a)) = Len(all)
    /\ \A i \in KeptOf(a) : a[i].leaf = all[Rank(KeptOf(a), i)]
    /\ late <= Len(a)
    /\ Len(a) - late + 1 .. Len(a) \subseteq KeptOf(a)

\* The log, the batch that is on its way and the queue.
Ordered(b) == InLine(acked, (Latest.hash \o b) \o unseq, Len(b) + Len(unseq))

OrderInv ==
    /\ \A p \in Proc : pc[p] = "sign" => Ordered(tx[p].batch)
    /\ (\A p \in Proc : pc[p] # "sign") => Ordered(<< >>)

MemoryInv ==
    /\ Types /\ Exclusive /\ DumpAlone
    /\ StoreInv(store, currentSTH)
    /\ \A p \in Proc : ReaderInv(p) /\ WriterInv(p)
    /\ Indices /\ OrderInv

-------------------------------------------------------------------------------
\* Sets of numbers, their ranks and what Remaining leaves of a queue.

\* A non-empty set of naturals has a least element.
LEMMA Least ==
    ASSUME NEW Z \in SUBSET Nat, Z # {}
    PROVE  \E o \in Z : \A p \in Z : o <= p
<1>1. PICK o \in Z : \A p \in Z : ~(<<p, o>> \in OpToRel(<, Nat))
  <2>1. IsWellFoundedOn(OpToRel(<, Nat), Nat)
    BY NatLessThanWellFounded
  <2> QED BY <2>1, WFMin
<1>2. ASSUME NEW p \in Z PROVE o <= p
  <2>1. ~(p < o)
    BY <1>1 DEF OpToRel
  <2> QED BY <2>1
<1> QED BY <1>2

\* A non-empty set of numbers up to n has a greatest element.
LEMMA Greatest ==
    ASSUME NEW n \in Nat, NEW Z \in SUBSET (0 .. n), Z # {}
    PROVE  Max(Z) \in Z /\ \A p \in Z : p <= Max(Z)
<1> DEFINE W == {k \in 0 .. n : n - k \in Z}
<1>1. W \in SUBSET Nat /\ W # {}
  <2>1. PICK z \in Z : TRUE
    OBVIOUS
  <2>2. n - z \in 0 .. n /\ n - (n - z) = z
    OBVIOUS
  <2>3. n - z \in W
    BY <2>2
  <2>4. W \subseteq Nat
    OBVIOUS
  <2> HIDE DEF W
  <2> QED BY <2>3, <2>4
<1>2. PICK o \in W : \A p \in W : o <= p
  BY <1>1, Least
<1>3. PICK m \in Z : m = n - o
  BY <1>2
<1>4. ASSUME NEW p \in Z PROVE p <= m
  <2>1. n - p \in 0 .. n /\ n - (n - p) = p
    OBVIOUS
  <2>2. n - p \in W
    BY <2>1
  <2> QED BY <2>2, <1>2, <1>3
<1>5. \A p \in Z : m >= p
  BY <1>4
<1>6. Max(Z) \in Z /\ \A p \in Z : Max(Z) >= p
  BY <1>5 DEF Max
<1> QED BY <1>6

\* Places of an interval.
LEMMA PickedInterval ==
    ASSUME NEW f, NEW a \in Int, NEW b \in Int, a <= b + 1
    PROVE  Picked(f, a .. b) = [i \in 1 .. b - a + 1 |-> f[a + i - 1]]
<1>1. Cardinality(a .. b) = b - a + 1
  BY FS_Interval
<1>2. ASSUME NEW k \in a .. b PROVE Rank(a .. b, k) = k - a + 1
  <2>1. {j \in a .. b : j <= k} = a .. k
    OBVIOUS
  <2>2. Cardinality(a .. k) = k - a + 1
    BY FS_Interval
  <2> QED BY <2>1, <2>2 DEF Rank
<1>3. ASSUME NEW i \in 1 .. b - a + 1
      PROVE  (CHOOSE k \in a .. b : Rank(a .. b, k) = i) = a + i - 1
  <2>1. a + i - 1 \in a .. b
    OBVIOUS
  <2>2. Rank(a .. b, a + i - 1) = i
    BY <1>2, <2>1
  <2>3. \A k \in a .. b : Rank(a .. b, k) = i => k = a + i - 1
    BY <1>2
  <2> DEFINE c == CHOOSE k \in a .. b : Rank(a .. b, k) = i
  <2>4. c \in a .. b /\ Rank(a .. b, c) = i
    BY <2>1, <2>2, Zenon
  <2> HIDE DEF c
  <2>5. c = a + i - 1
    BY <2>3, <2>4
  <2> QED BY <2>5, Zenon DEF c
<1>4. Picked(f, a .. b) = [i \in 1 .. b - a + 1 |->
                               f[CHOOSE k \in a .. b : Rank(a .. b, k) = i]]
  BY <1>1 DEF Picked
<1> DEFINE c(i) == CHOOSE k \in a .. b : Rank(a .. b, k) = i
<1>5. Picked(f, a .. b) = [i \in 1 .. b - a + 1 |-> f[c(i)]]
  BY <1>4
<1>6. \A i \in 1 .. b - a + 1 : c(i) = a + i - 1
  BY <1>3
<1> HIDE DEF c
<1> QED BY <1>5, <1>6

\* A longer prefix has at least the same places of an element.
LEMMA PlacesGrow ==
    ASSUME NEW q, NEW x, NEW m \in Nat, NEW n \in Nat, m <= n
    PROVE  /\ IsFiniteSet(Places(q, m, x)) /\ IsFiniteSet(Places(q, n, x))
           /\ Cardinality(Places(q, m, x)) \in Nat /\ Cardinality(Places(q, n, x)) \in Nat
           /\ Cardinality(Places(q, m, x)) <= Cardinality(Places(q, n, x))
           /\ \A i \in m + 1 .. n : q[i] = x =>
                 Cardinality(Places(q, m, x)) < Cardinality(Places(q, n, x))
<1> DEFINE P == Places(q, m, x)
           Q == Places(q, n, x)
<1>1. IsFiniteSet(1 .. n) /\ Q \in SUBSET (1 .. n) /\ P \in SUBSET Q
  BY FS_Interval DEF Places
<1>2. IsFiniteSet(Q)
  BY <1>1, FS_Subset
<1>3. IsFiniteSet(P) /\ Cardinality(P) <= Cardinality(Q) /\ (Cardinality(P) = Cardinality(Q) => P = Q)
  BY <1>1, <1>2, FS_Subset
<1>4. Cardinality(P) \in Nat /\ Cardinality(Q) \in Nat
  BY <1>2, <1>3, FS_CardinalityType
<1>5. ASSUME NEW i \in m + 1 .. n, q[i] = x PROVE P # Q
  BY <1>5 DEF Places
<1> QED BY <1>2, <1>3, <1>4, <1>5

\* When the batch is the front of the queue, the rest of the queue remains.
LEMMA RemainingRest ==
    ASSUME NEW S, NEW q \in Seq(S), NEW n \in 0 .. Len(q)
    PROVE  /\ Remaining(q, SubSeq(q, 1, n)) \in Seq(S)
           /\ Len(Remaining(q, SubSeq(q, 1, n))) = Len(q) - n
           /\ \A i \in 1 .. Len(q) - n : Remaining(q, SubSeq(q, 1, n))[i] = q[n + i]
<1> DEFINE b == SubSeq(q, 1, n)
           keep == {i \in 1 .. Len(q) : Cardinality(Places(q, i, q[i]))
                                          > Cardinality(Places(b, Len(b), q[i]))}
<1>1. Len(b) = n /\ \A i \in 1 .. n : b[i] = q[i]
  BY SubSeqProperties
<1>2. \A x : Places(b, Len(b), x) = Places(q, n, x)
  BY <1>1 DEF Places
<1>3. ASSUME NEW i \in 1 .. Len(q)
      PROVE  i \in keep <=> i > n
  <2>1. CASE i <= n
    <3>1. Cardinality(Places(q, i, q[i])) <= Cardinality(Places(q, n, q[i]))
          /\ Cardinality(Places(q, i, q[i])) \in Nat /\ Cardinality(Places(q, n, q[i])) \in Nat
      BY <2>1, PlacesGrow
    <3> QED BY <2>1, <3>1, <1>2
  <2>2. CASE i > n
    <3>1. Cardinality(Places(q, n, q[i])) < Cardinality(Places(q, i, q[i]))
          /\ Cardinality(Places(q, i, q[i])) \in Nat /\ Cardinality(Places(q, n, q[i])) \in Nat
      BY <2>2, PlacesGrow
    <3> QED BY <2>2, <3>1, <1>2
  <2> QED BY <2>1, <2>2
<1>4. keep = n + 1 .. Len(q)
  BY <1>3
<1>5. Remaining(q, b) = Picked(q, n + 1 .. Len(q))
  BY <1>4 DEF Remaining
<1>6. Picked(q, n + 1 .. Len(q)) = [i \in 1 .. Len(q) - (n + 1) + 1 |-> q[n + 1 + i - 1]]
  BY PickedInterval
<1>7. Remaining(q, b) = [i \in 1 .. Len(q) - n |-> q[n + i]]
  BY <1>5, <1>6
<1> QED BY <1>7

\* The ranks of the elements of a finite set of numbers.
LEMMA RankGrows ==
    ASSUME NEW n \in Nat, NEW K \in SUBSET (1 .. n), NEW k \in K
    PROVE  /\ IsFiniteSet(K) /\ Cardinality(K) \in Nat
           /\ Rank(K, k) \in 1 .. Cardinality(K)
           /\ \A l \in K : k < l => Rank(K, k) < Rank(K, l)
<1> DEFINE B(l) == {j \in K : j <= l}
<1>1. IsFiniteSet(K) /\ Cardinality(K) \in Nat
  <2>1. IsFiniteSet(1 .. n)
    BY FS_Interval
  <2>2. IsFiniteSet(K)
    BY <2>1, FS_Subset
  <2> QED BY <2>2, FS_CardinalityType
<1>2. ASSUME NEW l \in K
      PROVE  IsFiniteSet(B(l)) /\ Cardinality(B(l)) \in Nat /\ Cardinality(B(l)) <= Cardinality(K)
  <2>1. B(l) \in SUBSET K
    OBVIOUS
  <2> QED BY <1>1, <2>1, FS_Subset, FS_CardinalityType
<1>3. Cardinality(B(k)) # 0
  <2>1. k \in B(k)
    OBVIOUS
  <2> QED BY <2>1, <1>2, FS_EmptySet
<1>4. ASSUME NEW l \in K, k < l
      PROVE  Cardinality(B(k)) < Cardinality(B(l))
  <2>1. B(k) \in SUBSET B(l)
    <3>1. ASSUME NEW j \in B(k) PROVE j \in B(l)
      <4>1. j \in K /\ j <= k
        OBVIOUS
      <4>2. j \in Int /\ k \in Int /\ l \in Int
        BY <4>1
      <4> QED BY <1>4, <4>1, <4>2
    <3> QED BY <3>1
  <2>2. l \in B(l) /\ l \notin B(k)
    BY <1>4
  <2>3. IsFiniteSet(B(l)) /\ Cardinality(B(k)) \in Nat /\ Cardinality(B(l)) \in Nat
    BY <1>2
  <2> HIDE DEF B
  <2>4. Cardinality(B(k)) <= Cardinality(B(l)) /\ Cardinality(B(k)) # Cardinality(B(l))
    BY <2>1, <2>2, <2>3, FS_Subset
  <2> QED BY <2>3, <2>4
<1>5. \A l : Rank(K, l) = Cardinality(B(l))
  BY DEF Rank
<1> HIDE DEF B
<1> QED BY <1>1, <1>2, <1>3, <1>4, <1>5

\* Every rank up to the size of the set is that of an element.
LEMMA RankOnto ==
    ASSUME NEW n \in Nat, NEW K \in SUBSET (1 .. n), NEW i \in 1 .. Cardinality(K)
    PROVE  \E k \in K : Rank(K, k) = i
<1> DEFINE Z == {k \in K : Rank(K, k) >= i}
           B(l) == {j \in K : j <= l}
<1>1. IsFiniteSet(K) /\ Cardinality(K) \in Nat
  <2>1. IsFiniteSet(1 .. n)
    BY FS_Interval
  <2>2. IsFiniteSet(K)
    BY <2>1, FS_Subset
  <2> QED BY <2>2, FS_CardinalityType
<1>2. Z # {}
  <2>1. K # {} /\ K \in SUBSET (0 .. n)
    BY <1>1, FS_EmptySet
  <2>2. PICK m \in K : \A p \in K : p <= m
    BY <2>1, Greatest
  <2>3. B(m) = K
    BY <2>2
  <2>4. Rank(K, m) = Cardinality(K)
    BY <2>3 DEF Rank
  <2> QED BY <2>4, <1>1
<1>3. PICK k \in Z : \A l \in Z : k <= l
  <2>1. Z \in SUBSET Nat
    <3>1. K \in SUBSET Nat
      OBVIOUS
    <3> QED BY <3>1
  <2> HIDE DEF Z
  <2> QED BY <1>2, <2>1, Least
<1>4. k \in K /\ Rank(K, k) >= i /\ Rank(K, k) \in Nat
  <2>1. k \in K /\ Rank(K, k) >= i
    BY <1>3
  <2>2. Rank(K, k) \in 1 .. Cardinality(K)
    BY <2>1, RankGrows
  <2> QED BY <1>1, <2>1, <2>2
<1>5. Rank(K, k) = i
  <2>1. SUFFICES ASSUME Rank(K, k) > i PROVE FALSE
    BY <1>4
  <2> DEFINE A == {j \in K : j < k}
  <2>2. A = B(k) \ {k} /\ k \in B(k)
    <3>1. ASSUME NEW j \in K PROVE j < k <=> j <= k /\ j # k
      BY <1>4
    <3>2. k <= k
      BY <1>4
    <3> QED BY <3>1, <3>2, <1>4
  <2>3. IsFiniteSet(B(k))
    BY <1>1, FS_Subset
  <2>4. Cardinality(A) = Cardinality(B(k)) - 1 /\ IsFiniteSet(A)
    <3>1. PICK T : T = B(k)
      OBVIOUS
    <3>2. A = T \ {k} /\ k \in T /\ IsFiniteSet(T)
      BY <2>2, <2>3, <3>1
    <3> HIDE DEF A, B
    <3>3. Cardinality(A) = Cardinality(T) - 1 /\ IsFiniteSet(A)
      BY <3>2, FS_RemoveElement
    <3> QED BY <3>1, <3>3
  <2>5. Cardinality(B(k)) = Rank(K, k)
    BY DEF Rank
  <2>6. A # {} /\ A \in SUBSET (0 .. n)
    <3>1. Cardinality(A) # 0
      BY <2>1, <2>4, <2>5, <1>4
    <3>2. A # {}
      BY <3>1, FS_EmptySet
    <3>3. A \in SUBSET (0 .. n)
      <4>1. K \in SUBSET (0 .. n)
        OBVIOUS
      <4> QED BY <4>1
    <3> QED BY <3>2, <3>3
  <2>7. PICK m \in A : \A p \in A : p <= m
    BY <2>6, Greatest
  <2>8. m \in K /\ m < k /\ B(m) = A
    <3>1. m \in K /\ m < k
      BY <2>7
    <3>2. ASSUME NEW p \in K PROVE p \in A <=> p \in B(m)
      BY <2>7, <3>1
    <3> QED BY <3>1, <3>2
  <2>9. Rank(K, m) = Cardinality(A)
    BY <2>8 DEF Rank
  <2>10. m \in Z
    BY <2>1, <2>4, <2>5, <2>8, <2>9, <1>4
  <2> QED BY <2>8, <2>10, <1>3
<1> QED BY <1>4, <1>5

-------------------------------------------------------------------------------
\* Roots and the stores that back them.

\* A new revision does not change what the revisions before it read.
LEMMA SubtreesKept ==
    ASSUME NEW s, NEW s2, NEW rev \in Nat, NEW new \in Nat, rev < new, NEW h,
           s2.subtrees = ReplaceOrInsert(s.subtrees, new, h)
    PROVE  getSubtrees(s2, rev) = getSubtrees(s, rev)
<1> DEFINE revs == {r \in DOMAIN s.subtrees : r \in 0 .. rev}
           revs2 == {r \in DOMAIN s2.subtrees : r \in 0 .. rev}
<1>1. DOMAIN s2.subtrees = DOMAIN s.subtrees \cup {new}
      /\ \A r \in DOMAIN s.subtrees : r # new => s2.subtrees[r] = s.subtrees[r]
  BY DEF ReplaceOrInsert
<1>2. new \notin 0 .. rev
  OBVIOUS
<1>3. revs2 = revs
  BY <1>1, <1>2
<1>4. getSubtrees(s, rev) = IF revs = {} THEN << >> ELSE s.subtrees[Max(revs)]
  BY DEF getSubtrees
<1>5. getSubtrees(s2, rev) = IF revs2 = {} THEN << >> ELSE s2.subtrees[Max(revs2)]
  BY DEF getSubtrees
<1>6. revs \in SUBSET (0 .. rev) /\ revs \in SUBSET DOMAIN s.subtrees
  OBVIOUS
<1> HIDE DEF revs, revs2
<1>7. ASSUME revs # {} PROVE Max(revs) \in DOMAIN s.subtrees /\ Max(revs) # new
  BY <1>2, <1>6, <1>7, Greatest
<1> QED BY <1>1, <1>3, <1>4, <1>5, <1>7

\* A new revision reads its own nodes.
LEMMA SubtreesNew ==
    ASSUME NEW s, NEW s2, NEW new \in Nat, NEW h,
           s2.subtrees = ReplaceOrInsert(s.subtrees, new, h)
    PROVE  getSubtrees(s2, new) = h
<1> DEFINE revs2 == {r \in DOMAIN s2.subtrees : r \in 0 .. new}
<1>1. new \in revs2 /\ revs2 \in SUBSET (0 .. new) /\ s2.subtrees[new] = h
  BY DEF ReplaceOrInsert
<1>2. getSubtrees(s2, new) = IF revs2 = {} THEN << >> ELSE s2.subtrees[Max(revs2)]
  BY DEF getSubtrees
<1> HIDE DEF revs2
<1>3. Max(revs2) \in revs2 /\ \A r \in revs2 : r <= Max(revs2)
  BY <1>1, Greatest
<1>4. Max(revs2) \in 0 .. new /\ new <= Max(revs2)
  BY <1>1, <1>3
<1>5. Max(revs2) = new
  BY <1>4
<1> QED BY <1>1, <1>2, <1>5

\* A revision without nodes of its own reads those of the one before.
LEMMA SubtreesSame ==
    ASSUME NEW s, NEW s2, NEW rev \in Nat, DOMAIN s.subtrees \subseteq 0 .. rev,
           NEW new \in Nat, rev <= new, s2.subtrees = s.subtrees
    PROVE  getSubtrees(s2, new) = getSubtrees(s, rev)
<1>1. {r \in DOMAIN s2.subtrees : r \in 0 .. new} = {r \in DOMAIN s.subtrees : r \in 0 .. rev}
  OBVIOUS
<1> QED BY <1>1 DEF getSubtrees

\* The first root of a tree.
LEMMA FirstRoot ==
    ASSUME NEW s, NEW cur, StoreInv(s, cur), DOMAIN s.sth = {}, NEW time \in Nat
    PROVE  StoreInv(StoreSignedLogRoot(s, InitRoot(time)), time)
<1> DEFINE root == InitRoot(time)
           new == StoreSignedLogRoot(s, root)
<1>1. s = EmptyStore
  BY DEF StoreInv
<1>2. new = [seq |-> << >>, sth |-> ReplaceOrInsert(<< >>, time, root), subtrees |-> << >>]
  BY <1>1 DEF StoreSignedLogRoot, EmptyStore, InitRoot
<1>3. DOMAIN new.sth = {time} /\ new.sth[time] = root
  BY <1>2 DEF ReplaceOrInsert
<1>4. IsRoot(root) /\ root.size = 0 /\ root.rev = 0 /\ root.hash = << >>
  BY DEF IsRoot, InitRoot
<1>5. DOMAIN new.seq = {} /\ DOMAIN new.subtrees = {}
  BY <1>2
<1>6. getSubtrees(new, 0) = << >>
  BY <1>5 DEF getSubtrees
<1>7. Backs(new, root)
  BY <1>4, <1>6 DEF Backs
<1>8. Top(new, time) = root
  BY <1>3 DEF Top
<1>9. new = [seq |-> new.seq, sth |-> new.sth, subtrees |-> new.subtrees]
  BY <1>2
<1>10. DOMAIN new.seq = 0 .. root.size - 1 /\ DOMAIN new.subtrees \subseteq 0 .. root.rev
  BY <1>4, <1>5
<1> HIDE DEF new, root
<1>11. DOMAIN new.sth # {} /\ time \in DOMAIN new.sth
  BY <1>3
<1>12. ASSUME NEW t \in DOMAIN new.sth
       PROVE  Backs(new, new.sth[t]) /\ new.sth[t].size <= root.size /\ new.sth[t].rev <= root.rev
  BY <1>3, <1>4, <1>7
<1>13. StoreInv(new, time)
  BY <1>8, <1>9, <1>10, <1>11, <1>12 DEF StoreInv
<1> QED BY <1>13 DEF new, root

\* What a pass stores.
PassRoot(root, batch, time) ==
    [size |-> Len(root.hash \o batch), rev |-> root.rev + 1, time |-> time,
     hash |-> root.hash \o batch]

Flushed(s, root, batch) ==
    IF batch = << >> THEN s
    ELSE [s EXCEPT !.subtrees = ReplaceOrInsert(@, root.rev + 1, root.hash \o batch)]

PassStore(s, root, batch, time) ==
    StoreSignedLogRoot(Flushed(Sequenced(s, root.size, batch), root, batch),
                       PassRoot(root, batch, time))

\* The fields of the store that a pass commits.
LEMMA PassFields ==
    ASSUME NEW s, NEW cur, StoreInv(s, cur), NEW root, root = Top(s, cur), DOMAIN s.sth # {},
           NEW batch \in Seq(Item), NEW time \in Nat
    PROVE  LET new == PassStore(s, root, batch, time)
           IN  /\ new = [seq |-> new.seq, sth |-> new.sth, subtrees |-> new.subtrees]
               /\ DOMAIN new.seq = 0 .. root.size + Len(batch) - 1
               /\ \A i \in 0 .. root.size - 1 : new.seq[i] = s.seq[i]
               /\ \A i \in 1 .. Len(batch) : new.seq[root.size + i - 1] = batch[i]
               /\ new.sth = ReplaceOrInsert(s.sth, time, PassRoot(root, batch, time))
               /\ batch = << >> => new.subtrees = s.subtrees
               /\ batch # << >> => new.subtrees = ReplaceOrInsert(s.subtrees, root.rev + 1, root.hash \o batch)
<1> DEFINE s1 == Sequenced(s, root.size, batch)
           s2 == Flushed(s1, root, batch)
           new == StoreSignedLogRoot(s2, PassRoot(root, batch, time))
           seq == [i \in DOMAIN s.seq \cup root.size .. root.size + Len(batch) - 1 |->
                          IF i < root.size THEN s.seq[i] ELSE batch[i - root.size + 1]]
<1>1. s = [seq |-> s.seq, sth |-> s.sth, subtrees |-> s.subtrees]
      /\ DOMAIN s.seq = 0 .. root.size - 1 /\ root.size \in Nat
  BY DEF StoreInv, Backs, IsRoot, Top
<1>2. s1 = [seq |-> seq, sth |-> s.sth, subtrees |-> s.subtrees]
  BY <1>1 DEF Sequenced
<1>3. seq = [i \in 0 .. root.size + Len(batch) - 1 |->
                 IF i < root.size THEN s.seq[i] ELSE batch[i - root.size + 1]]
  <2>1. 0 .. root.size - 1 \cup root.size .. root.size + Len(batch) - 1
           = 0 .. root.size + Len(batch) - 1
    BY <1>1
  <2> QED BY <1>1, <2>1
<1> HIDE DEF seq, s1
<1>4. s2 = IF batch = << >> THEN [seq |-> seq, sth |-> s.sth, subtrees |-> s.subtrees]
           ELSE [seq |-> seq, sth |-> s.sth,
                 subtrees |-> ReplaceOrInsert(s.subtrees, root.rev + 1, root.hash \o batch)]
  BY <1>2 DEF Flushed
<1> HIDE DEF s2
<1>5. new = [seq |-> seq, sth |-> ReplaceOrInsert(s.sth, time, PassRoot(root, batch, time)),
             subtrees |-> IF batch = << >> THEN s.subtrees
                 ELSE ReplaceOrInsert(s.subtrees, root.rev + 1, root.hash \o batch)]
  BY <1>4 DEF StoreSignedLogRoot, PassRoot
<1>6. new = PassStore(s, root, batch, time)
  BY DEF PassStore, s1, s2
<1> HIDE DEF new
<1>7. new.seq = seq /\ new.sth = ReplaceOrInsert(s.sth, time, PassRoot(root, batch, time))
      /\ new = [seq |-> new.seq, sth |-> new.sth, subtrees |-> new.subtrees]
      /\ new.subtrees = IF batch = << >> THEN s.subtrees
                 ELSE ReplaceOrInsert(s.subtrees, root.rev + 1, root.hash \o batch)
  BY <1>5
<1>8. DOMAIN seq = 0 .. root.size + Len(batch) - 1
      /\ (\A i \in 0 .. root.size - 1 : seq[i] = s.seq[i])
      /\ (\A i \in 1 .. Len(batch) : seq[root.size + i - 1] = batch[i])
  <2>1. DOMAIN seq = 0 .. root.size + Len(batch) - 1
    BY <1>1, <1>3
  <2>2. ASSUME NEW i \in 0 .. root.size - 1 PROVE seq[i] = s.seq[i]
    BY <1>1, <1>3
  <2>3. ASSUME NEW i \in 1 .. Len(batch) PROVE seq[root.size + i - 1] = batch[i]
    <3> DEFINE k == root.size + i - 1
    <3>1. k \in 0 .. root.size + Len(batch) - 1 /\ ~(k < root.size) /\ k - root.size + 1 = i
      BY <1>1
    <3> HIDE DEF k
    <3>2. seq[k] = batch[i]
      BY <1>3, <3>1
    <3> QED BY <3>2 DEF k
  <2> QED BY <2>1, <2>2, <2>3
<1> QED BY <1>6, <1>7, <1>8

\* A pass keeps what every earlier root was signed for, and its own root is backed.
LEMMA PassKeepsStore ==
    ASSUME NEW s, NEW cur \in Nat, StoreInv(s, cur), NEW root, root = Top(s, cur),
           DOMAIN s.sth # {}, NEW batch \in Seq(Item), NEW time \in Nat
    PROVE  StoreInv(PassStore(s, root, batch, time), time)
<1> DEFINE new == PassStore(s, root, batch, time)
           new_root == PassRoot(root, batch, time)
           hash == root.hash \o batch
<1>1. cur \in DOMAIN s.sth /\ root = s.sth[cur] /\ Backs(s, root)
  BY DEF StoreInv, Top
<1>2. root.hash \in Seq(Item) /\ root.size = Len(root.hash) /\ root.size \in Nat /\ root.rev \in Nat
  BY <1>1 DEF Backs, IsRoot
<1>3. hash \in Seq(Item) /\ Len(hash) = root.size + Len(batch)
      /\ (\A i \in 1 .. root.size : hash[i] = root.hash[i])
      /\ (\A i \in 1 .. Len(batch) : hash[root.size + i] = batch[i])
  BY <1>2
<1>4. IsRoot(new_root) /\ new_root.size = root.size + Len(batch) /\ new_root.rev = root.rev + 1
      /\ new_root.hash = hash
  BY <1>2, <1>3 DEF IsRoot, PassRoot
<1>5. /\ new = [seq |-> new.seq, sth |-> new.sth, subtrees |-> new.subtrees]
      /\ DOMAIN new.seq = 0 .. root.size + Len(batch) - 1
      /\ \A i \in 0 .. root.size - 1 : new.seq[i] = s.seq[i]
      /\ \A i \in 1 .. Len(batch) : new.seq[root.size + i - 1] = batch[i]
      /\ new.sth = ReplaceOrInsert(s.sth, time, new_root)
      /\ batch = << >> => new.subtrees = s.subtrees
      /\ batch # << >> => new.subtrees = ReplaceOrInsert(s.subtrees, root.rev + 1, hash)
  BY PassFields
<1>6. DOMAIN s.subtrees \subseteq 0 .. root.rev /\ getSubtrees(s, root.rev) = root.hash
  BY <1>1 DEF StoreInv, Backs
<1> HIDE DEF new, new_root
<1>7. getSubtrees(new, root.rev + 1) = hash
  <2>1. CASE batch = << >>
    <3>1. hash = root.hash
      BY <1>2, <2>1
    <3>2. getSubtrees(new, root.rev + 1) = getSubtrees(s, root.rev)
      BY <1>2, <1>5, <1>6, <2>1, SubtreesSame
    <3> QED BY <1>6, <3>1, <3>2
  <2>2. CASE batch # << >>
    <3>1. root.rev + 1 \in Nat
      BY <1>2
    <3>2. new.subtrees = ReplaceOrInsert(s.subtrees, root.rev + 1, hash)
      BY <1>5, <2>2
    <3> HIDE DEF hash
    <3> QED BY <3>1, <3>2, SubtreesNew
  <2> QED BY <2>1, <2>2
<1>8. ASSUME NEW rev \in Nat, rev <= root.rev
      PROVE  getSubtrees(new, rev) = getSubtrees(s, rev)
  <2>1. CASE batch = << >>
    BY <1>5, <2>1 DEF getSubtrees
  <2>2. CASE batch # << >>
    <3>1. root.rev + 1 \in Nat /\ rev < root.rev + 1
      BY <1>2, <1>8
    <3>2. new.subtrees = ReplaceOrInsert(s.subtrees, root.rev + 1, hash)
      BY <1>5, <2>2
    <3>3. PICK next : next = root.rev + 1
      OBVIOUS
    <3>4. next \in Nat /\ rev < next /\ new.subtrees = ReplaceOrInsert(s.subtrees, next, hash)
      BY <3>1, <3>2, <3>3
    <3> HIDE DEF hash
    <3> QED BY <3>4, SubtreesKept
  <2> QED BY <2>1, <2>2
<1>9. Backs(new, new_root)
  <2>1. ASSUME NEW i \in 1 .. new_root.size
        PROVE  i - 1 \in DOMAIN new.seq /\ new.seq[i - 1] = new_root.hash[i]
    <3> HIDE DEF hash
    <3>1. i \in Nat /\ i >= 1 /\ i <= root.size + Len(batch) /\ Len(batch) \in Nat
      BY <1>2, <1>4
    <3>2. CASE i <= root.size
      <4>1. i - 1 \in 0 .. root.size - 1 /\ i \in 1 .. root.size
        BY <1>2, <3>1, <3>2
      <4>2. s.seq[i - 1] = root.hash[i]
        BY <1>1, <4>1 DEF Backs
      <4>3. new.seq[i - 1] = s.seq[i - 1] /\ i - 1 \in DOMAIN new.seq
        BY <1>2, <1>5, <3>1, <4>1
      <4>4. new_root.hash[i] = root.hash[i]
        BY <1>3, <1>4, <4>1
      <4> QED BY <4>2, <4>3, <4>4
    <3>3. CASE i > root.size
      <4>1. PICK j \in 1 .. Len(batch) : i = root.size + j
        <5>1. i - root.size \in 1 .. Len(batch) /\ i = root.size + (i - root.size)
          BY <1>2, <3>1, <3>3
        <5> QED BY <5>1
      <4>2. new_root.hash[i] = batch[j]
        BY <1>3, <1>4, <4>1
      <4>3. new.seq[root.size + j - 1] = batch[j] /\ i - 1 \in DOMAIN new.seq
        <5>1. i - 1 \in 0 .. root.size + Len(batch) - 1
          BY <1>2, <3>1
        <5> QED BY <1>5, <4>1, <5>1
      <4>4. i - 1 = root.size + j - 1
        BY <1>2, <4>1
      <4> QED BY <4>2, <4>3, <4>4
    <3> QED BY <1>2, <3>1, <3>2, <3>3
  <2> QED BY <1>4, <1>7, <2>1 DEF Backs
<1>10. DOMAIN new.sth = DOMAIN s.sth \cup {time} /\ new.sth[time] = new_root
       /\ \A t \in DOMAIN s.sth : t # time => new.sth[t] = s.sth[t]
  BY <1>5 DEF ReplaceOrInsert
<1>11. ASSUME NEW t \in DOMAIN s.sth
       PROVE  /\ Backs(new, s.sth[t])
              /\ s.sth[t].size <= new_root.size /\ s.sth[t].rev <= new_root.rev
  <2> DEFINE r == s.sth[t]
  <2>1. Backs(s, r) /\ r.size <= root.size /\ r.rev <= root.rev
    BY <1>1 DEF StoreInv
  <2>2. IsRoot(r) /\ r.rev \in Nat /\ r.size \in Nat
    BY <2>1 DEF Backs, IsRoot
  <2> HIDE DEF r
  <2>3. getSubtrees(new, r.rev) = r.hash
    BY <1>8, <2>1, <2>2 DEF Backs
  <2>4. ASSUME NEW i \in 1 .. r.size
        PROVE  i - 1 \in DOMAIN new.seq /\ new.seq[i - 1] = r.hash[i]
    <3>1. i - 1 \in 0 .. root.size - 1 /\ i - 1 \in 0 .. root.size + Len(batch) - 1
      BY <1>2, <2>1, <2>2
    <3>2. s.seq[i - 1] = r.hash[i]
      BY <2>1 DEF Backs
    <3> QED BY <1>5, <3>1, <3>2
  <2>5. Backs(new, r)
    BY <2>2, <2>3, <2>4 DEF Backs
  <2>6. r.size <= new_root.size /\ r.rev <= new_root.rev
    BY <1>2, <1>4, <2>1, <2>2
  <2> QED BY <2>5, <2>6 DEF r
<1>12. Top(new, time) = new_root
  BY <1>10 DEF Top
<1>13. DOMAIN new.subtrees \subseteq 0 .. new_root.rev
  <2>1. DOMAIN new.subtrees \subseteq DOMAIN s.subtrees \cup {root.rev + 1}
    BY <1>5 DEF ReplaceOrInsert
  <2>2. 0 .. root.rev \subseteq 0 .. new_root.rev /\ root.rev + 1 \in 0 .. new_root.rev
    BY <1>2, <1>4
  <2> QED BY <1>6, <2>1, <2>2
<1>14. ASSUME NEW t \in DOMAIN new.sth
       PROVE  /\ Backs(new, new.sth[t])
              /\ new.sth[t].size <= new_root.size /\ new.sth[t].rev <= new_root.rev
  <2>1. CASE t = time
    <3>1. new_root.size \in Nat /\ new_root.rev \in Nat
      BY <1>2, <1>4
    <3> QED BY <1>9, <1>10, <2>1, <3>1
  <2>2. CASE t # time
    BY <1>10, <1>11, <2>2
  <2> QED BY <2>1, <2>2
<1>15. DOMAIN new.seq = 0 .. new_root.size - 1
  <2>1. DOMAIN new.seq = 0 .. root.size + Len(batch) - 1
    BY <1>5
  <2>2. new_root.size = root.size + Len(batch)
    BY <1>4
  <2> QED BY <1>2, <2>1, <2>2
<1>16. DOMAIN new.sth # {} /\ time \in DOMAIN new.sth
  BY <1>10
<1> QED BY <1>5, <1>12, <1>13, <1>14, <1>15, <1>16 DEF StoreInv, new

-------------------------------------------------------------------------------
\* What a step may do to the control of processes.

\* The latest root of the invariant is the one that a transaction fetches.
LEMMA LatestIsFetched == Latest = fetchLatestRoot(store)
BY DEF Latest, Top, fetchLatestRoot

\* The transaction that a process begins with.
Fresh == [store |-> store, root |-> Latest, batch |-> << >>,
          writeRevision |-> IF Latest = NoRoot THEN -1 ELSE Latest.rev + 1]

\* beginInternal gives a process a clone of the tree and its latest root.
LEMMA BegunFresh ==
    ASSUME NEW p \in Proc, Begun(p)
    PROVE  tx' = [tx EXCEPT ![p] = Fresh] /\ Transaction(Fresh)
<1>1. Transaction(Fresh)
  BY DEF Transaction, Fresh
<1>2. tx' = [tx EXCEPT ![p] = Fresh]
  BY LatestIsFetched DEF Begun, Fresh
<1> QED BY <1>1, <1>2

\* All that a step does to the control of processes: one process moves.
LEMMA OneMoves ==
    ASSUME Types, [Next]_vars
    PROVE  \/ pc' = pc /\ tx' = tx
           \/ \E p \in Proc, l \in Labels :
                 /\ pc' = [pc EXCEPT ![p] = l]
                 /\ \/ tx' = tx
                    \/ \E t : Transaction(t) /\ tx' = [tx EXCEPT ![p] = t]
<1>d. Driver \in Proc /\ Transaction(NoTX)
  BY DEF Proc, Transaction, NoTX
<1>l. "idle" \in Labels /\ "create" \in Labels /\ "update" \in Labels /\ "count" \in Labels
      /\ "read" \in Labels /\ "in_read" \in Labels /\ "update_leaves" \in Labels /\ "sign" \in Labels
      /\ "zero" \in Labels /\ "pass" \in Labels /\ "queue" \in Labels /\ "init" \in Labels
  BY DEF Labels, Writes
<1> DEFINE Goal == \/ pc' = pc /\ tx' = tx
           \/ \E p \in Proc, l \in Labels :
                 /\ pc' = [pc EXCEPT ![p] = l]
                 /\ \/ tx' = tx
                    \/ \E t : Transaction(t) /\ tx' = [tx EXCEPT ![p] = t]
<1>1. ASSUME NEW p \in Proc, Done(p) PROVE Goal
  BY <1>1, <1>d, <1>l DEF Done
<1>2. ASSUME NEW p \in Proc, Call(p) PROVE Goal
  <2>1. Ops(p) \subseteq Labels
    BY <1>l DEF Ops, Labels, Writes, Proc
  <2> QED BY <1>2, <2>1 DEF Call, CallTX
<1>3. ASSUME NEW p \in Proc, CallAdmin(p) PROVE Goal
  <2>1. tx' = tx /\ \/ pc' = [pc EXCEPT ![p] = "create"]
                     \/ pc' = [pc EXCEPT ![p] = "update"]
                     \/ pc' = [pc EXCEPT ![p] = "count"]
    BY <1>3 DEF CallAdmin
  <2> QED BY <1>l, <2>1
<1>4. ASSUME NEW p \in Proc, Begun(p) PROVE \E t : Transaction(t) /\ tx' = [tx EXCEPT ![p] = t]
  BY <1>4, BegunFresh
<1>5. ASSUME NEW p \in Proc, BeginWrite(p) PROVE Goal
  <2>1. CASE ReturnLocked(p)
    BY <1>1, <2>1 DEF ReturnLocked
  <2>2. CASE Begun(p) /\ pc' = pc
    <3>1. pc' = [pc EXCEPT ![p] = pc[p]] /\ pc[p] \in Labels
      BY <2>2 DEF Types
    <3> QED BY <1>4, <2>2, <3>1
  <2> QED BY <1>5, <2>1, <2>2 DEF BeginWrite
<1>6. ASSUME NEW p \in Proc, BeginRead(p) PROVE Goal
  BY <1>1, <1>4, <1>6, <1>l DEF BeginRead, ReturnLocked
<1>7. ASSUME NEW p \in Proc, beginTreeTX(p) PROVE Goal
  BY <1>7 DEF beginTreeTX
<1>8. ASSUME NEW p \in Proc, Read(p) \/ createTree(p) PROVE Goal
  BY <1>1, <1>8 DEF Read, createTree, Signed, Commit
<1>9. ASSUME NEW p \in Proc, InitLog(p) PROVE Goal
  BY <1>1, <1>9 DEF InitLog, Signed, Commit, Rollback
<1>10. ASSUME NEW p \in Proc, QueueLeaves(p) PROVE Goal
  BY <1>1, <1>10 DEF QueueLeaves, Commit, ReturnLocked
<1>11. ASSUME NEW p \in Proc, DequeueLeaves(p) PROVE Goal
  <2>1. ASSUME NEW b PROVE [tx EXCEPT ![p].batch = b] = [tx EXCEPT ![p] = [tx[p] EXCEPT !.batch = b]]
                           /\ Transaction([tx[p] EXCEPT !.batch = b])
    BY DEF Types, TxType, Transaction
  <2> QED BY <1>1, <1>11, <1>l, <2>1 DEF DequeueLeaves, Commit, Rollback
<1>12. ASSUME NEW p \in Proc, UpdateSequencedLeaves(p) PROVE Goal
  <2>1. ASSUME NEW b PROVE [tx EXCEPT ![p].store = b] = [tx EXCEPT ![p] = [tx[p] EXCEPT !.store = b]]
                           /\ Transaction([tx[p] EXCEPT !.store = b])
    BY DEF Types, TxType, Transaction
  <2> QED BY <1>12, <1>l, <2>1 DEF UpdateSequencedLeaves
<1>13. ASSUME NEW p \in Proc, SignAndStore(p) PROVE Goal
  BY <1>1, <1>13 DEF SignAndStore, StoreRoot, Signed, Commit, Rollback
<1>14. ASSUME NEW p \in Proc, CreateTree(p) \/ UpdateTree(p) \/ GetUnsequencedCounts(p) PROVE Goal
  BY <1>14, <1>l DEF CreateTree, UpdateTree, GetUnsequencedCounts
<1>15. ASSUME Dump PROVE Goal
  BY <1>15, <1>d, <1>l DEF Dump, DumpStart, Main, Fatal, Loop, AfterLeaf, Run, CallTX
<1>16. ASSUME Tick \/ UNCHANGED vars PROVE Goal
  BY <1>16 DEF Tick, vars
<1> QED BY <1>2, <1>3, <1>5, <1>6, <1>7, <1>8, <1>9, <1>10, <1>11, <1>12, <1>13, <1>14, <1>15, <1>16
        DEF Next, Step

-------------------------------------------------------------------------------
\* Locks and types.

\* A step keeps the types of labels and transactions.
LEMMA TxTypes ==
    ASSUME Types, [Next]_vars
    PROVE  pc' \in [Proc -> Labels] /\ TxType'
<1>1. pc \in [Proc -> Labels] /\ TxType
  BY DEF Types
<1>2. CASE pc' = pc /\ tx' = tx
  BY <1>1, <1>2 DEF TxType
<1>3. ASSUME NEW p \in Proc, NEW l \in Labels, pc' = [pc EXCEPT ![p] = l],
             tx' = tx \/ \E t : Transaction(t) /\ tx' = [tx EXCEPT ![p] = t]
      PROVE  pc' \in [Proc -> Labels] /\ TxType'
  <2>1. pc' \in [Proc -> Labels]
    BY <1>1, <1>3
  <2>2. CASE tx' = tx
    BY <1>1, <2>1, <2>2 DEF TxType
  <2>3. ASSUME NEW t, Transaction(t), tx' = [tx EXCEPT ![p] = t] PROVE TxType'
    BY <1>1, <2>3 DEF TxType
  <2> QED BY <1>3, <2>1, <2>2, <2>3
<1> QED BY <1>2, <1>3, OneMoves

\* All that a step does to the lock of the tree.
LEMMA LockMoves ==
    ASSUME [Next]_vars
    PROVE  \/ lock' = lock
           \/ \E p \in Proc :
                 \/ lock' = Wait(lock, p)
                 \/ CanLock(lock) /\ lock' = Lock(lock, p)
                 \/ CanRLock(lock) /\ lock' = RLock(lock, p)
                 \/ lock' = Unlock(lock, p)
                 \/ lock' = [lock EXCEPT !.waiting = @ \ {p}]
<1>1. ASSUME NEW p \in Proc, Call(p) \/ CallAdmin(p)
      PROVE  lock' = lock \/ lock' = Wait(lock, p)
  BY <1>1 DEF Call, CallTX, CallAdmin
<1>2. ASSUME NEW p \in Proc, BeginWrite(p) PROVE CanLock(lock) /\ lock' = Lock(lock, p)
  BY <1>2 DEF BeginWrite
<1>3. ASSUME NEW p \in Proc, beginTreeTX(p) PROVE lock' = Wait(lock, p)
  BY <1>3 DEF beginTreeTX
<1>4. ASSUME NEW p \in Proc, BeginRead(p) PROVE CanRLock(lock) /\ lock' = RLock(lock, p)
  BY <1>4 DEF BeginRead
<1>5. ASSUME NEW p \in Proc, Read(p) \/ InitLog(p) \/ createTree(p) \/ SignAndStore(p)
      PROVE  lock' = Unlock(lock, p)
  BY <1>5 DEF Read, InitLog, createTree, SignAndStore, StoreRoot, Signed, Commit, Rollback
<1>6. ASSUME NEW p \in Proc, QueueLeaves(p) \/ DequeueLeaves(p)
      PROVE  lock' = lock \/ lock' = Unlock(lock, p)
  BY <1>6 DEF QueueLeaves, DequeueLeaves, Commit, Rollback
<1>7. ASSUME NEW p \in Proc, UpdateSequencedLeaves(p) \/ CreateTree(p) \/ GetUnsequencedCounts(p)
      PROVE  lock' = lock
  BY <1>7 DEF UpdateSequencedLeaves, CreateTree, GetUnsequencedCounts
<1>8. ASSUME NEW p \in Proc, UpdateTree(p) PROVE lock' = [lock EXCEPT !.waiting = @ \ {p}]
  BY <1>8 DEF UpdateTree
<1>9. ASSUME Dump \/ Tick \/ UNCHANGED vars PROVE lock' = lock
  BY <1>9 DEF Dump, DumpStart, Main, Fatal, Loop, AfterLeaf, Run, CallTX, Tick, vars
<1> QED BY <1>1, <1>2, <1>3, <1>4, <1>5, <1>6, <1>7, <1>8, <1>9 DEF Next, Step

\* All that a step does to the lock of the map of trees.
LEMMA MuMoves ==
    ASSUME [Next]_vars
    PROVE  \/ mu' = mu
           \/ \E p \in Proc :
                 \/ mu' = Wait(mu, p) \/ mu' = RLock(mu, p) \/ mu' = Unlock(mu, p)
                 \/ mu' = [mu EXCEPT !.waiting = @ \ {p}]
<1>1. ASSUME NEW p \in Proc, CallAdmin(p)
      PROVE  mu' = mu \/ mu' = Wait(mu, p) \/ mu' = RLock(mu, p)
  BY <1>1 DEF CallAdmin
<1>2. ASSUME NEW p \in Proc, Call(p) \/ BeginWrite(p) \/ beginTreeTX(p) \/ BeginRead(p)
                             \/ Read(p) \/ InitLog(p) \/ createTree(p)
      PROVE  mu' = mu
  BY <1>2 DEF Call, CallTX, BeginWrite, beginTreeTX, BeginRead, Read, InitLog, createTree
<1>3. ASSUME NEW p \in Proc, QueueLeaves(p) \/ DequeueLeaves(p) \/ UpdateSequencedLeaves(p)
                             \/ SignAndStore(p) \/ UpdateTree(p)
      PROVE  mu' = mu
  BY <1>3 DEF QueueLeaves, DequeueLeaves, UpdateSequencedLeaves, SignAndStore, UpdateTree
<1>4. ASSUME NEW p \in Proc, CreateTree(p) PROVE mu' = [mu EXCEPT !.waiting = @ \ {p}]
  BY <1>4 DEF CreateTree
<1>5. ASSUME NEW p \in Proc, GetUnsequencedCounts(p) PROVE mu' = Unlock(mu, p)
  BY <1>5 DEF GetUnsequencedCounts
<1>6. ASSUME Dump \/ Tick \/ UNCHANGED vars PROVE mu' = mu
  BY <1>6 DEF Dump, DumpStart, Main, Fatal, Loop, AfterLeaf, Run, CallTX, Tick, vars
<1> QED BY <1>1, <1>2, <1>3, <1>4, <1>5, <1>6 DEF Next, Step

\* The operations of a lock, field by field.
LEMMA MutexOps ==
    ASSUME NEW l \in Mutexes, NEW p \in Proc
    PROVE  /\ Wait(l, p) \in Mutexes /\ Lock(l, p) \in Mutexes /\ RLock(l, p) \in Mutexes
           /\ Unlock(l, p) \in Mutexes /\ [l EXCEPT !.waiting = @ \ {p}] \in Mutexes
           /\ Wait(l, p).writer = l.writer /\ Wait(l, p).readers = l.readers
           /\ Lock(l, p).writer = {p} /\ Lock(l, p).readers = l.readers
           /\ RLock(l, p).writer = l.writer /\ RLock(l, p).readers = l.readers \cup {p}
           /\ Unlock(l, p).writer = l.writer \ {p} /\ Unlock(l, p).readers = l.readers \ {p}
           /\ [l EXCEPT !.waiting = @ \ {p}].writer = l.writer
           /\ [l EXCEPT !.waiting = @ \ {p}].readers = l.readers
<1>1. /\ Wait(l, p) \in Mutexes /\ Wait(l, p).writer = l.writer
      /\ Wait(l, p).readers = l.readers
  BY DEF Mutexes, Wait
<1>2. Lock(l, p) \in Mutexes /\ Lock(l, p).writer = {p} /\ Lock(l, p).readers = l.readers
  BY DEF Mutexes, Lock
<1>3. /\ RLock(l, p) \in Mutexes /\ RLock(l, p).writer = l.writer
      /\ RLock(l, p).readers = l.readers \cup {p}
  BY DEF Mutexes, RLock
<1>4. /\ Unlock(l, p) \in Mutexes /\ Unlock(l, p).writer = l.writer \ {p}
      /\ Unlock(l, p).readers = l.readers \ {p}
  BY DEF Mutexes, Unlock
<1>5. /\ [l EXCEPT !.waiting = @ \ {p}] \in Mutexes
      /\ [l EXCEPT !.waiting = @ \ {p}].writer = l.writer
      /\ [l EXCEPT !.waiting = @ \ {p}].readers = l.readers
  BY DEF Mutexes
<1> QED BY <1>1, <1>2, <1>3, <1>4, <1>5

\* A step keeps the types of the locks.
LEMMA LockTypes ==
    ASSUME Types, [Next]_vars
    PROVE  mu' \in Mutexes /\ lock' \in Mutexes
<1>1. mu \in Mutexes /\ lock \in Mutexes
  BY DEF Types
<1>2. \A l \in Mutexes, p \in Proc :
         /\ Wait(l, p) \in Mutexes /\ Lock(l, p) \in Mutexes /\ RLock(l, p) \in Mutexes
         /\ Unlock(l, p) \in Mutexes /\ [l EXCEPT !.waiting = @ \ {p}] \in Mutexes
  BY MutexOps
<1>3. mu' \in Mutexes
  <2>1. CASE mu' = mu
    BY <1>1, <2>1
  <2>2. ASSUME NEW p \in Proc,
               \/ mu' = Wait(mu, p) \/ mu' = RLock(mu, p) \/ mu' = Unlock(mu, p)
               \/ mu' = [mu EXCEPT !.waiting = @ \ {p}]
        PROVE  mu' \in Mutexes
    BY <1>1, <1>2, <2>2
  <2> QED BY <2>1, <2>2, MuMoves
<1>4. lock' \in Mutexes
  <2>1. CASE lock' = lock
    BY <1>1, <2>1
  <2>2. ASSUME NEW p \in Proc,
               \/ lock' = Wait(lock, p) \/ lock' = Lock(lock, p) \/ lock' = RLock(lock, p)
               \/ lock' = Unlock(lock, p) \/ lock' = [lock EXCEPT !.waiting = @ \ {p}]
        PROVE  lock' \in Mutexes
    BY <1>1, <1>2, <2>2
  <2> QED BY <2>1, <2>2, LockMoves
<1> QED BY <1>3, <1>4

\* A step keeps the lock exclusive: a writer enters when nobody is inside.
LEMMA ExclusiveKept ==
    ASSUME Types, Exclusive, [Next]_vars
    PROVE  Exclusive'
<1>1. lock \in Mutexes
  BY DEF Types
<1>2. CASE lock' = lock
  BY <1>2 DEF Exclusive
<1>3. ASSUME NEW p \in Proc, CanLock(lock), lock' = Lock(lock, p)
      PROVE  Exclusive'
  <2>1. lock'.writer = {p} /\ lock'.readers = {}
    BY <1>1, <1>3, MutexOps DEF CanLock
  <2> QED BY <2>1 DEF Exclusive
<1>4. ASSUME NEW p \in Proc, CanRLock(lock), lock' = RLock(lock, p)
      PROVE  Exclusive'
  <2>1. lock'.writer = {}
    BY <1>1, <1>4, MutexOps DEF CanRLock
  <2> QED BY <2>1 DEF Exclusive
<1>5. ASSUME NEW p \in Proc,
             lock' = Wait(lock, p) \/ lock' = Unlock(lock, p) \/ lock' = [lock EXCEPT !.waiting = @ \ {p}]
      PROVE  Exclusive'
  <2>1. lock'.writer \subseteq lock.writer /\ lock'.readers \subseteq lock.readers
    <3>1. CASE lock' = Wait(lock, p)
      BY <1>1, <3>1, MutexOps
    <3>2. CASE lock' = Unlock(lock, p)
      <4>1. lock'.writer = lock.writer \ {p} /\ lock'.readers = lock.readers \ {p}
        BY <1>1, <3>2, MutexOps
      <4> QED BY <4>1
    <3>3. CASE lock' = [lock EXCEPT !.waiting = @ \ {p}]
      BY <1>1, <3>3, MutexOps
    <3> QED BY <1>5, <3>1, <3>2, <3>3
  <2> QED BY <2>1 DEF Exclusive
<1> QED BY <1>2, <1>3, <1>4, <1>5, LockMoves

\* A step keeps the types of the counters, and no root is from the future.
LEMMA ClockTypes ==
    ASSUME Types, [Next]_vars
    PROVE  ClockType'
<1>1. trees \in Nat /\ now \in 1 .. MaxTime /\ currentSTH \in 0 .. now /\ faults \in 0 .. MaxFaults
      /\ MaxTime \in Nat /\ MaxFaults \in Nat
  BY SizesAssumption DEF Types, ClockType
<1> DEFINE Same == now' = now /\ currentSTH' = currentSTH
<1>2. ASSUME NEW a \in 0 .. now PROVE Max({currentSTH, a}) \in 0 .. now
  <2>1. {currentSTH, a} \in SUBSET (0 .. now) /\ {currentSTH, a} # {} /\ now \in Nat
    BY <1>1
  <2> QED BY <2>1, Greatest
<1>3. ASSUME NEW p \in Proc, Call(p) \/ CallAdmin(p) \/ BeginWrite(p) \/ beginTreeTX(p) \/ BeginRead(p)
                             \/ Read(p) \/ QueueLeaves(p) \/ DequeueLeaves(p)
                             \/ UpdateSequencedLeaves(p)
      PROVE  Same /\ trees' = trees /\ faults' = faults
  BY <1>3 DEF Call, CallTX, CallAdmin, BeginWrite, beginTreeTX, BeginRead, Read, QueueLeaves,
       DequeueLeaves, UpdateSequencedLeaves, content
<1>4. ASSUME NEW p \in Proc, UpdateTree(p) \/ GetUnsequencedCounts(p) \/ CreateTree(p)
      PROVE  Same /\ faults' = faults /\ (trees' = trees \/ trees' = trees + 1)
  BY <1>4 DEF UpdateTree, GetUnsequencedCounts, CreateTree, content
<1>5. ASSUME NEW p \in Proc, InitLog(p) \/ createTree(p) \/ SignAndStore(p)
      PROVE  /\ now' = now /\ trees' = trees
             /\ faults' = faults \/ (faults < MaxFaults /\ faults' = faults + 1)
             /\ currentSTH' = currentSTH \/ \E a \in 0 .. now : currentSTH' = Max({currentSTH, a})
  <2>1. 0 \in 0 .. now /\ now \in 0 .. now
    BY <1>1
  <2>2. InitRoot(now).time = now /\ InitRoot(0).time = 0
    BY DEF InitRoot
  <2>3. CASE InitLog(p)
    BY <2>1, <2>2, <2>3 DEF InitLog, Signed
  <2>4. CASE createTree(p)
    BY <2>1, <2>2, <2>4 DEF createTree, Signed
  <2>5. CASE SignAndStore(p)
    BY <2>1, <2>5 DEF SignAndStore, StoreRoot, Signed
  <2> QED BY <1>5, <2>3, <2>4, <2>5
<1>6. ASSUME Dump PROVE Same /\ faults' = faults /\ trees' \in {trees, 1}
  <2>1. CASE DumpStart
    BY <2>1 DEF DumpStart, content
  <2>2. CASE Fatal
    BY <2>2 DEF Fatal, content
  <2>3. CASE Main
    BY <2>3 DEF Main, Loop, AfterLeaf, Run, CallTX, content
  <2> QED BY <1>6, <2>1, <2>2, <2>3 DEF Dump
<1>7. ASSUME Tick PROVE now < MaxTime /\ now' = now + 1 /\ currentSTH' = currentSTH /\ faults' = faults /\ trees' = trees
  BY <1>7 DEF Tick, content
<1>8. CASE UNCHANGED vars
  BY <1>1, <1>8 DEF vars, ClockType
<1>9. ASSUME NEW p \in Proc, InitLog(p) \/ createTree(p) \/ SignAndStore(p)
      PROVE  ClockType'
  <2>1. currentSTH' \in 0 .. now
    BY <1>1, <1>2, <1>5, <1>9
  <2>2. now' = now /\ trees' = trees /\ faults' \in 0 .. MaxFaults
    BY <1>1, <1>5, <1>9
  <2> QED BY <1>1, <2>1, <2>2 DEF ClockType
<1>10. CASE Tick
  BY <1>1, <1>7, <1>10 DEF ClockType
<1>11. ASSUME Same, faults' = faults, trees' \in {trees, 1, trees + 1} PROVE ClockType'
  BY <1>1, <1>11 DEF ClockType
<1>12. CASE Dump
  BY <1>6, <1>11, <1>12
<1> HIDE DEF Same
<1> QED BY <1>3, <1>4, <1>8, <1>9, <1>10, <1>11, <1>12 DEF Next, Step

-------------------------------------------------------------------------------
\* What a step may do to the tree.

\* There is no latest root exactly as long as no root is stored.
LEMMA NoRootYet ==
    ASSUME StoreInv(store, currentSTH)
    PROVE  /\ Latest = NoRoot <=> DOMAIN store.sth = {}
           /\ Latest # NoRoot => IsRoot(Latest)
           /\ Latest.hash \in Seq(Item)
<1>1. CASE DOMAIN store.sth = {}
  BY <1>1 DEF Latest, Top, NoRoot
<1>2. CASE DOMAIN store.sth # {}
  <2>1. Latest = store.sth[currentSTH] /\ currentSTH \in DOMAIN store.sth
    BY <1>2 DEF StoreInv, Latest, Top
  <2>2. IsRoot(Latest)
    BY <2>1 DEF StoreInv, Backs
  <2>3. Latest.rev # -1 /\ NoRoot.rev = -1
    BY <2>2 DEF IsRoot, NoRoot
  <2> QED BY <1>2, <2>2, <2>3 DEF IsRoot
<1> QED BY <1>1, <1>2

\* A step leaves the stored roots alone, or stores the first one or that of a pass.
Signs(p) ==
    /\ p \in lock.writer
    /\ \/ /\ pc[p] \in {"init", "zero"} /\ DOMAIN store.sth = {}
          /\ currentSTH' \in 0 .. now
          /\ store' = StoreSignedLogRoot(store, InitRoot(currentSTH'))
       \/ /\ pc[p] = "sign" /\ DOMAIN store.sth # {}
          /\ currentSTH' = now
          /\ store' = PassStore(store, Latest, tx[p].batch, now)
          /\ UNCHANGED <<unseq, h2s, acked>>
    /\ lock' = Unlock(lock, p) /\ Done(p)

Stays == store' = store /\ currentSTH' = currentSTH

\* No stored root is later than the clock, so a new one becomes the latest.
LEMMA LaterTime ==
    ASSUME Types
    PROVE  Max({currentSTH, now}) = now /\ (currentSTH = 0 => Max({currentSTH, 0}) = 0)
<1>1. now \in Nat /\ currentSTH \in 0 .. now
  BY DEF Types, ClockType
<1> DEFINE Z == {currentSTH, now}
<1>2. Z \in SUBSET (0 .. now) /\ now \in Z /\ Z # {}
  BY <1>1
<1> HIDE DEF Z
<1>3. Max(Z) \in 0 .. now /\ now <= Max(Z)
  BY <1>1, <1>2, Greatest
<1>4. Max(Z) = now
  BY <1>1, <1>3
<1>5. {0, 0} \in SUBSET (0 .. 0) /\ {0, 0} # {}
  OBVIOUS
<1>6. Max({0, 0}) \in {0, 0}
  BY <1>5, Greatest
<1> QED BY <1>4, <1>6 DEF Z

\* What the second half of IntegrateBatch commits, told from the tree and not from the clone.
LEMMA PassStored ==
    ASSUME NEW p \in Proc, Types, WriterInv(p), StoreInv(store, currentSTH),
           pc[p] = "sign", StoreRoot(p)
    PROVE  /\ p \in lock.writer /\ DOMAIN store.sth # {} /\ currentSTH' = now
           /\ store' = PassStore(store, Latest, tx[p].batch, now)
           /\ lock' = Unlock(lock, p) /\ Done(p)
<1>1. /\ p \in lock.writer /\ Latest # NoRoot
      /\ tx[p].root = Latest /\ tx[p].writeRevision = Latest.rev + 1
      /\ tx[p].store = Sequenced(store, Latest.size, tx[p].batch)
  BY DEF WriterInv
<1>2. DOMAIN store.sth # {}
  BY <1>1, NoRootYet
<1> DEFINE hash == Latest.hash \o tx[p].batch
           root == [size |-> Len(hash), rev |-> Latest.rev + 1, time |-> now, hash |-> hash]
           flushed == IF tx[p].batch = << >> THEN tx[p].store
                      ELSE [tx[p].store EXCEPT !.subtrees = ReplaceOrInsert(@, Latest.rev + 1, hash)]
<1>3. Signed(p, flushed, root)
  BY <1>1 DEF StoreRoot
<1>4. root = PassRoot(Latest, tx[p].batch, now) /\ root.time = now
  BY DEF PassRoot
<1>5. flushed = Flushed(tx[p].store, Latest, tx[p].batch)
  BY DEF Flushed
<1> HIDE DEF root, flushed
<1>6. currentSTH' = Max({currentSTH, now}) /\ store' = StoreSignedLogRoot(flushed, root)
      /\ lock' = Unlock(lock, p) /\ Done(p)
  BY <1>3, <1>4 DEF Signed, Commit
<1>7. store' = PassStore(store, Latest, tx[p].batch, now)
  BY <1>1, <1>4, <1>5, <1>6 DEF PassStore
<1> QED BY <1>1, <1>2, <1>6, <1>7, LaterTime

\* Only the first root and a pass change the tree: everyone else who commits puts
\* back what is there already.
LEMMA StoreMoves ==
    ASSUME Types, DumpAlone, StoreInv(store, currentSTH),
           \A p \in Proc : ReaderInv(p) /\ WriterInv(p), [Next]_vars
    PROVE  Stays \/ \E p \in Proc : Signs(p)
<1>1. ASSUME NEW p \in Proc, Call(p) \/ CallAdmin(p) \/ BeginWrite(p) \/ beginTreeTX(p) \/ BeginRead(p)
                             \/ UpdateSequencedLeaves(p)
      PROVE  Stays
  BY <1>1 DEF Call, CallTX, CallAdmin, BeginWrite, beginTreeTX, BeginRead, UpdateSequencedLeaves,
       content, Stays
<1>2. ASSUME NEW p \in Proc, UpdateTree(p) \/ GetUnsequencedCounts(p) \/ CreateTree(p)
      PROVE  Stays
  BY <1>2 DEF UpdateTree, GetUnsequencedCounts, CreateTree, content, Stays
<1>3. ASSUME NEW p \in Proc, Read(p) PROVE Stays
  BY <1>3 DEF Read, Commit, ReaderInv, HasClone, Stays
<1>4. ASSUME NEW p \in Proc, QueueLeaves(p) PROVE Stays
  <2>1. tx[p].store = store
    BY <1>4 DEF QueueLeaves, WriterInv, HasClone, Writes
  <2> QED BY <1>4, <2>1 DEF QueueLeaves, Commit, Stays
<1>5. ASSUME NEW p \in Proc, DequeueLeaves(p) PROVE Stays
  <2>1. tx[p].store = store
    BY <1>5 DEF DequeueLeaves, WriterInv, HasClone, Writes
  <2> QED BY <1>5, <2>1 DEF DequeueLeaves, Commit, Rollback, Stays
<1>6. ASSUME NEW p \in Proc, InitLog(p) PROVE Stays \/ Signs(p)
  <2>1. HasClone(p) /\ p \in lock.writer /\ pc[p] = "init"
    BY <1>6 DEF InitLog, WriterInv, Writes
  <2>2. CASE tx[p].root = NoRoot /\ Signed(p, tx[p].store, InitRoot(now))
    <3>1. DOMAIN store.sth = {} /\ tx[p].store = store
      BY <2>1, <2>2, NoRootYet DEF HasClone
    <3>2. InitRoot(now).time = now
      BY DEF InitRoot
    <3>3. currentSTH' = now /\ now \in 0 .. now
      BY <2>2, <3>2, LaterTime DEF Signed, Types, ClockType
    <3> QED BY <2>1, <2>2, <3>1, <3>3 DEF Signed, Commit, Signs
  <2>3. CASE UNCHANGED <<store, currentSTH>>
    BY <2>3 DEF Stays
  <2> QED BY <1>6, <2>2, <2>3 DEF InitLog
<1>7. ASSUME NEW p \in Proc, createTree(p) PROVE Signs(p)
  <2>1. HasClone(p) /\ p \in lock.writer /\ pc[p] = "zero"
    BY <1>7 DEF createTree, WriterInv, Writes
  <2>2. p = Driver /\ DOMAIN store.sth = {} /\ currentSTH = 0
    BY <2>1 DEF DumpAlone
  <2>3. InitRoot(0).time = 0
    BY DEF InitRoot
  <2>4. currentSTH' = 0 /\ 0 \in 0 .. now
    BY <1>7, <2>2, <2>3, LaterTime DEF createTree, Signed, Types, ClockType
  <2> QED BY <1>7, <2>1, <2>2, <2>4 DEF createTree, Signed, Commit, Signs, HasClone
<1>8. ASSUME NEW p \in Proc, SignAndStore(p) PROVE Stays \/ Signs(p)
  <2>1. CASE StoreRoot(p) /\ UNCHANGED acked
    BY <1>8, <2>1, PassStored DEF SignAndStore, Signs
  <2>2. CASE UNCHANGED <<store, currentSTH>>
    BY <2>2 DEF Stays
  <2> QED BY <1>8, <2>1, <2>2 DEF SignAndStore
<1>9. ASSUME Dump PROVE Stays
  <2>1. CASE DumpStart
    BY <2>1 DEF DumpStart, content, Stays
  <2>2. CASE Fatal
    BY <2>2 DEF Fatal, content, Stays
  <2>3. CASE Main
    BY <2>3 DEF Main, Loop, AfterLeaf, Run, CallTX, content, Stays
  <2> QED BY <1>9, <2>1, <2>2, <2>3 DEF Dump
<1>10. ASSUME Tick \/ UNCHANGED vars PROVE Stays
  BY <1>10 DEF Tick, vars, content, Stays
<1> QED BY <1>1, <1>2, <1>3, <1>4, <1>5, <1>6, <1>7, <1>8, <1>9, <1>10 DEF Next, Step

\* A step keeps every stored root backed.
LEMMA StoreKept ==
    ASSUME Types, StoreInv(store, currentSTH), \A p \in Proc : WriterInv(p),
           Stays \/ \E p \in Proc : Signs(p)
    PROVE  StoreInv(store, currentSTH)'
<1>1. CASE Stays
  BY <1>1 DEF Stays
<1>2. ASSUME NEW p \in Proc, Signs(p) PROVE StoreInv(store', currentSTH')
  <2>1. CASE DOMAIN store.sth = {} /\ currentSTH' \in 0 .. now
             /\ store' = StoreSignedLogRoot(store, InitRoot(currentSTH'))
    BY <2>1, FirstRoot
  <2>2. CASE /\ pc[p] = "sign" /\ DOMAIN store.sth # {} /\ currentSTH' = now
             /\ store' = PassStore(store, Latest, tx[p].batch, now)
    <3>1. tx[p].batch \in Seq(Item) /\ now \in Nat /\ currentSTH \in Nat
      BY <2>2 DEF WriterInv, Types, ClockType
    <3> QED BY <2>2, <3>1, PassKeepsStore DEF Latest
  <2> QED BY <1>2, <2>1, <2>2 DEF Signs
<1>3. ASSUME NEW p \in Proc, Signs(p) PROVE StoreInv(store, currentSTH)'
  BY <1>2, <1>3
<1> QED BY <1>1, <1>3

-------------------------------------------------------------------------------
\* dump_tree.

\* A process that acts has been called; a process other than the driver is called only
\* when dump_tree does not run.
Called == {"create", "update", "count", "init", "queue", "read", "pass"}

\* Who is called, and for what.
LEMMA Callers ==
    ASSUME NEW p \in Proc, Call(p) \/ CallAdmin(p)
    PROVE  /\ p # Driver /\ dump.step = "off" /\ dump' = dump
           /\ \E l \in Called : pc' = [pc EXCEPT ![p] = l]
<1>1. Ops(Driver) = {}
  BY SizesAssumption DEF Ops
<1>2. Ops(p) \subseteq Called
  BY SizesAssumption DEF Ops, Called, Proc
<1>3. CASE Call(p)
  <2>1. PICK op \in Ops(p) : CallTX(p, op) /\ dump.step = "off" /\ dump' = dump
    BY <1>3 DEF Call
  <2> QED BY <1>1, <1>2, <2>1 DEF CallTX
<1>4. CASE CallAdmin(p)
  <2>1. dump.step = "off" /\ dump' = dump
    BY <1>4 DEF CallAdmin
  <2>2. PICK l \in Ops(p) : pc' = [pc EXCEPT ![p] = l]
    BY <1>4 DEF CallAdmin
  <2> QED BY <1>1, <1>2, <2>1, <2>2
<1> QED BY <1>3, <1>4

\* Who acts, and where it goes on.
LEMMA Actors ==
    ASSUME NEW p \in Proc, BeginWrite(p) \/ Step(p)
    PROVE  /\ pc[p] # "idle" /\ dump' = dump
           /\ \/ pc' = pc
              \/ \E l \in {"idle", "in_read", "update_leaves", "sign"} : pc' = [pc EXCEPT ![p] = l]
<1>1. ASSUME Done(p)
      PROVE  pc' = [pc EXCEPT ![p] = "idle"]
  BY <1>1 DEF Done
<1>2. CASE BeginWrite(p) \/ beginTreeTX(p) \/ BeginRead(p)
  BY <1>1, <1>2 DEF BeginWrite, beginTreeTX, BeginRead, ReturnLocked, Writes
<1>3. CASE Read(p) \/ InitLog(p) \/ createTree(p)
  BY <1>1, <1>3 DEF Read, InitLog, createTree, Signed, Commit, Rollback
<1>4. CASE QueueLeaves(p)
  BY <1>1, <1>4 DEF QueueLeaves, ReturnLocked, Commit
<1>5. CASE DequeueLeaves(p)
  BY <1>1, <1>5 DEF DequeueLeaves, Commit, Rollback
<1>6. CASE UpdateSequencedLeaves(p) \/ SignAndStore(p)
  BY <1>1, <1>6 DEF UpdateSequencedLeaves, SignAndStore, StoreRoot, Signed, Commit, Rollback
<1>7. CASE CreateTree(p) \/ UpdateTree(p) \/ GetUnsequencedCounts(p)
  BY <1>7 DEF CreateTree, UpdateTree, GetUnsequencedCounts
<1> QED BY <1>2, <1>3, <1>4, <1>5, <1>6, <1>7 DEF Step

\* What Main does next.
LEMMA Continues ==
    ASSUME Types, Main
    PROVE  \E want : \E step \in {"sequence", "queue", "last", "print"}, next \in Nat :
              /\ dump' = [dump EXCEPT !.step = step, !.want = want, !.next = next]
              /\ step = "queue" => next < dump.size
              /\ pc[Driver] = "idle" /\ GetTree(IF step = "queue" THEN "queue"
                                                ELSE IF step = "print" THEN "read" ELSE "pass")
              /\ pc' = [pc EXCEPT ![Driver] = IF step = "queue" THEN "queue"
                                              ELSE IF step = "print" THEN "read" ELSE "pass"]
              /\ dump.step \in {"create", "sequence", "queue", "last"}
              /\ UNCHANGED <<content, trees, mu, lock, tx, now, faults, misuse>>
<1> DEFINE Goes(step, want, next) ==
              /\ dump' = [dump EXCEPT !.step = step, !.want = want, !.next = next]
              /\ pc[Driver] = "idle" /\ GetTree(IF step = "queue" THEN "queue"
                                                ELSE IF step = "print" THEN "read" ELSE "pass")
              /\ pc' = [pc EXCEPT ![Driver] = IF step = "queue" THEN "queue"
                                              ELSE IF step = "print" THEN "read" ELSE "pass"]
              /\ UNCHANGED <<content, trees, mu, lock, tx, now, faults, misuse>>
           Goal == \E want : \E step \in {"sequence", "queue", "last", "print"}, next \in Nat :
                       Goes(step, want, next) /\ (step = "queue" => next < dump.size)
<1>1. dump.next \in Nat /\ dump.next + 1 \in Nat
  BY DEF Types, DumpType
<1>2. ASSUME NEW step, NEW want, NEW next, Run(step, want, next) PROVE Goes(step, want, next)
  BY <1>2 DEF Run, CallTX
<1> HIDE DEF Goes
<1>3. ASSUME NEW next \in Nat, Loop(next) PROVE Goal
  <2>1. CASE next < dump.size
    BY <1>2, <1>3, <2>1 DEF Loop
  <2>2. CASE ~(next < dump.size)
    BY <1>2, <1>3, <2>2 DEF Loop
  <2> QED BY <2>1, <2>2
<1>r. ASSUME NEW step \in {"sequence", "last", "print"}, NEW want, NEW next \in Nat,
             Run(step, want, next)
      PROVE  Goal
  <2>1. Goes(step, want, next) /\ step # "queue" /\ step \in {"sequence", "queue", "last", "print"}
    BY <1>2, <1>r
  <2> QED BY <2>1
<1> HIDE DEF Goal
<1>4. ASSUME AfterLeaf(dump.next) PROVE Goal
  BY <1>1, <1>r, <1>3, <1>4 DEF AfterLeaf
<1>5. Goal
  BY <1>1, <1>r, <1>3, <1>4 DEF Main
<1>6. dump.step \in {"create", "sequence", "queue", "last"}
  BY DEF Main
<1>7. PICK want : \E step \in {"sequence", "queue", "last", "print"}, next \in Nat :
                 Goes(step, want, next) /\ (step = "queue" => next < dump.size)
  BY <1>5 DEF Goal
<1>8. PICK step \in {"sequence", "queue", "last", "print"}, next \in Nat :
                 Goes(step, want, next) /\ (step = "queue" => next < dump.size)
  BY <1>7
<1> QED BY <1>6, <1>8 DEF Goes

\* A step keeps the types of dump_tree's progress.
LEMMA DumpTypes ==
    ASSUME Types, [Next]_vars
    PROVE  DumpType'
<1>1. DumpType
  BY DEF Types
<1>2. ASSUME dump' = dump PROVE DumpType'
  BY <1>1, <1>2 DEF DumpType
<1>3. CASE DumpStart
  BY <1>1, <1>3 DEF DumpStart, DumpType
<1>4. CASE Main
  BY <1>1, <1>4, Continues DEF DumpType
<1>5. CASE Fatal
  BY <1>1, <1>5 DEF Fatal, DumpType
<1>6. CASE Tick \/ UNCHANGED vars
  BY <1>2, <1>6 DEF Tick, vars
<1> QED BY <1>2, <1>3, <1>4, <1>5, <1>6, Callers, Actors DEF Next, Dump

\* A step keeps dump_tree alone.
LEMMA DumpAloneKept ==
    ASSUME Types, DumpAlone, [Next]_vars, Stays \/ \E p \in Proc : Signs(p)
    PROVE  DumpAlone'
<1>1. pc \in [Proc -> Labels] /\ DumpType
  BY DEF Types
<1>2. ASSUME dump.step = "start" PROVE \A p \in Proc : pc[p] = "idle"
  BY <1>2 DEF DumpAlone
<1>3. ASSUME NEW p \in Proc, Signs(p) PROVE pc[p] # "idle" /\ pc' = [pc EXCEPT ![p] = "idle"]
  BY <1>3 DEF Signs, Done
<1>4. ASSUME NEW p \in Proc, Signs(p)
      PROVE  dump.step # "start" /\ pc'[Driver] # "zero"
  <2>1. dump.step # "start"
    BY <1>2, <1>3, <1>4
  <2>2. CASE p = Driver
    BY <1>1, <1>3, <1>4, <2>1, <2>2 DEF Proc
  <2>3. CASE p # Driver
    <3>1. dump.step = "off"
      BY <1>3, <1>4, <2>3 DEF DumpAlone
    <3>2. pc[Driver] = "idle"
      BY <3>1 DEF DumpAlone
    <3>3. pc'[Driver] = "idle"
      BY <1>1, <1>3, <1>4, <2>3, <3>2 DEF Proc
    <3> QED BY <2>1, <3>3
  <2> QED BY <2>2, <2>3
<1> DEFINE Part6 == dump'.step = "start" \/ pc'[Driver] = "zero"
                       => DOMAIN store'.sth = {} /\ currentSTH' = 0
<1>5. ASSUME dump' = dump, pc' = pc, lock' = lock, Stays PROVE DumpAlone'
  BY <1>5 DEF DumpAlone, Stays
<1>6. ASSUME NEW p \in Proc, Call(p) \/ CallAdmin(p) PROVE DumpAlone'
  <2>1. /\ p # Driver /\ dump.step = "off" /\ dump' = dump
        /\ \E l \in Called : pc' = [pc EXCEPT ![p] = l]
    BY <1>6, Callers
  <2> QED BY <1>1, <2>1 DEF DumpAlone, Called, Proc
<1>7. ASSUME NEW p \in Proc, BeginWrite(p) \/ Step(p) PROVE DumpAlone'
  <2>1. /\ pc[p] # "idle" /\ dump' = dump
        /\ \/ pc' = pc
           \/ \E l \in {"idle", "in_read", "update_leaves", "sign"} : pc' = [pc EXCEPT ![p] = l]
    BY <1>7, Actors
  <2>2. dump.step # "start" /\ (dump.step = "off" => p # Driver) /\ (dump.step # "off" => p = Driver)
    BY <1>2, <2>1 DEF DumpAlone
  <2>3. Part6
    <3>1. ASSUME pc'[Driver] = "zero" PROVE pc[Driver] = "zero"
      BY <1>1, <2>1, <3>1 DEF Proc
    <3>2. ASSUME pc'[Driver] = "zero" PROVE Stays
      BY <1>4, <3>2
    <3>3. dump'.step # "start"
      BY <2>1, <2>2
    <3> QED BY <3>1, <3>2, <3>3 DEF Stays, DumpAlone
  <2> HIDE DEF Part6
  <2>4. dump'.step # "off" => \A q \in Proc \ {Driver} : pc'[q] = "idle"
    BY <1>1, <2>1, <2>2 DEF DumpAlone
  <2>5. dump'.step = "off" => pc'[Driver] = "idle"
    <3>1. SUFFICES ASSUME dump.step = "off" PROVE pc'[Driver] = "idle"
      BY <2>1
    <3>2. p # Driver /\ pc[Driver] = "idle" /\ Driver \in Proc
      BY <2>2, <3>1 DEF DumpAlone, Proc
    <3> QED BY <1>1, <2>1, <3>2
  <2>6. dump'.step # "start" /\ (pc'[Driver] = "queue" => dump'.step = "queue")
    BY <1>1, <2>1, <2>2 DEF DumpAlone, Proc
  <2>7. \A q \in Proc : pc'[q] = "zero" => q = Driver /\ dump'.step = "create"
    BY <1>1, <2>1, <2>2 DEF DumpAlone
  <2> QED BY <2>3, <2>4, <2>5, <2>6, <2>7 DEF DumpAlone, Part6
<1>8. CASE DumpStart
  <2>1. /\ dump.step = "start" /\ dump' = [dump EXCEPT !.step = "create"]
        /\ pc' = [pc EXCEPT ![Driver] = "zero"] /\ store' = store /\ currentSTH' = currentSTH
    BY <1>8 DEF DumpStart, content
  <2>2. dump'.step = "create"
    BY <1>1, <2>1 DEF DumpType
  <2> QED BY <1>1, <2>1, <2>2 DEF DumpAlone, Proc
<1>9. CASE Main
  <2>1. PICK step \in {"sequence", "queue", "last", "print"} : \E want : \E next \in Nat :
           /\ dump' = [dump EXCEPT !.step = step, !.want = want, !.next = next]
           /\ pc[Driver] = "idle"
           /\ pc' = [pc EXCEPT ![Driver] = IF step = "queue" THEN "queue"
                                           ELSE IF step = "print" THEN "read" ELSE "pass"]
           /\ dump.step \in {"create", "sequence", "queue", "last"}
    BY <1>9, Continues
  <2>2. dump'.step = step
    BY <1>1, <2>1 DEF DumpType
  <2>3. Driver \in Proc
    BY DEF Proc
  <2>4. pc'[Driver] = IF step = "queue" THEN "queue" ELSE IF step = "print" THEN "read" ELSE "pass"
    BY <1>1, <2>1, <2>3
  <2>5. \A q \in Proc \ {Driver} : pc'[q] = "idle"
    BY <1>1, <2>1 DEF DumpAlone
  <2> QED BY <2>2, <2>4, <2>5 DEF DumpAlone
<1>10. CASE Fatal
  <2>1. /\ dump.step \in {"sequence", "last"} /\ dump' = [dump EXCEPT !.step = "fatal"]
        /\ pc[Driver] = "idle" /\ pc' = pc
    BY <1>10 DEF Fatal
  <2>2. dump'.step = "fatal"
    BY <1>1, <2>1 DEF DumpType
  <2> QED BY <2>1, <2>2 DEF DumpAlone
<1>11. CASE Tick \/ UNCHANGED vars
  BY <1>5, <1>11 DEF Tick, vars, content, Stays
<1> QED BY <1>6, <1>7, <1>8, <1>9, <1>10, <1>11 DEF Next, Dump

-------------------------------------------------------------------------------
\* The transactions of all processes.

\* The front of the queue that a pass takes.
LEMMA PrefixType ==
    ASSUME NEW S, NEW q \in Seq(S), NEW b, Len(b) <= Len(q), b = SubSeq(q, 1, Len(b))
    PROVE  b \in Seq(S) /\ Len(b) \in 0 .. Len(q)
PROOF
<1> DEFINE n == Len(b)
<1> QED OBVIOUS

\* A pass takes at least one leaf if there is one, and no more than there are.
LEMMA DequeueLimit ==
    ASSUME Types, DumpAlone, NEW p \in Proc, pc[p] = "pass"
    PROVE  Limit(p) \in Nat \ {0} /\ Min({Limit(p), Len(unseq)}) \in 0 .. Len(unseq)
<1>1. Limit(p) \in Nat \ {0}
  <2>1. CASE p = Driver
    <3>1. dump.step # "off"
      BY <2>1 DEF DumpAlone
    <3>2. dump.batch \in DumpBatches
      BY <3>1 DEF Types, DumpType
    <3> QED BY <2>1, <3>2, SizesAssumption DEF Limit
  <2>2. CASE p # Driver
    BY <2>2, SizesAssumption DEF Limit
  <2> QED BY <2>1, <2>2
<1> DEFINE Z == {Limit(p), Len(unseq)}
<1>2. Z \in SUBSET Nat /\ Z # {} /\ Len(unseq) \in Z
  BY <1>1 DEF Types, QueueType
<1> HIDE DEF Z
<1>3. \E o \in Z : \A x \in Z : o <= x
  BY <1>2, Least
<1>4. Min(Z) \in Z /\ \A x \in Z : Min(Z) <= x
  BY <1>3 DEF Min
<1>5. Min(Z) \in Nat /\ Min(Z) <= Len(unseq) /\ Len(unseq) \in Nat
  BY <1>2, <1>4
<1> QED BY <1>1, <1>5 DEF Z

\* A process that holds the lock disturbs nobody, and one that only moves on neither.
LEMMA OthersKept ==
    ASSUME Exclusive, \A q \in Proc : ProcInv(q), NEW p \in Proc,
           \A q \in Proc \ {p} : pc'[q] = pc[q] /\ tx'[q] = tx[q],
           \/ /\ Stays /\ (unseq' = unseq \/ p \in lock.writer)
              /\ lock.readers \ {p} \subseteq lock'.readers
              /\ lock'.writer \ {p} = lock.writer \ {p}
           \/ p \in lock.writer /\ lock'.writer \subseteq {p}
    PROVE  \A q \in Proc \ {p} : ProcInv(q)'
<1> SUFFICES ASSUME NEW q \in Proc \ {p} PROVE ProcInv(q)'
  OBVIOUS
<1>1. ReaderInv(q) /\ WriterInv(q) /\ pc'[q] = pc[q] /\ tx'[q] = tx[q]
  BY DEF ProcInv
<1>2. CASE p \in lock.writer /\ lock'.writer \subseteq {p}
  <2>1. q \notin lock.readers /\ q \notin lock.writer /\ q \notin lock'.writer
    BY <1>2 DEF Exclusive
  <2>2. pc[q] # "in_read" /\ pc[q] # "update_leaves" /\ pc[q] # "sign"
    BY <1>1, <2>1 DEF ReaderInv, WriterInv
  <2> QED BY <1>1, <2>1, <2>2 DEF ProcInv, ReaderInv, WriterInv
<1>3. CASE /\ Stays /\ (unseq' = unseq \/ p \in lock.writer)
           /\ lock.readers \ {p} \subseteq lock'.readers
           /\ lock'.writer \ {p} = lock.writer \ {p}
  <2>1. Latest' = Latest /\ store' = store
    BY <1>3 DEF Stays, Latest
  <2>2. HasClone(q)' <=> HasClone(q)
    BY <1>1, <2>1 DEF HasClone
  <2>3. ReaderInv(q)'
    BY <1>1, <1>3, <2>1, <2>2 DEF ReaderInv
  <2>4. q \in lock.writer <=> q \in lock'.writer
    BY <1>3
  <2>5. q \in lock.writer => unseq' = unseq
    BY <1>3 DEF Exclusive
  <2>6. WriterInv(q)'
    BY <1>1, <2>1, <2>2, <2>4, <2>5 DEF WriterInv
  <2> QED BY <2>3, <2>6 DEF ProcInv
<1> QED BY <1>2, <1>3

\* Where a process has nothing to keep.
LEMMA NothingToKeep ==
    ASSUME NEW p \in Proc, pc'[p] \notin {"in_read", "update_leaves", "sign"},
           pc'[p] \in Writes => p \notin lock'.writer
    PROVE  ProcInv(p)'
BY DEF ProcInv, ReaderInv, WriterInv

\* A process that is called disturbs nobody.
LEMMA CallersKept ==
    ASSUME Types, Exclusive, \A q \in Proc : ProcInv(q), NEW p \in Proc, Call(p) \/ CallAdmin(p)
    PROVE  \A q \in Proc : ProcInv(q)'
<1>1. pc \in [Proc -> Labels] /\ lock \in Mutexes
  BY DEF Types
<1>2. tx' = tx /\ unseq' = unseq /\ Stays
  BY DEF Call, CallAdmin, CallTX, content, Stays
<1>3. lock' = lock \/ lock' = Wait(lock, p)
  BY DEF Call, CallAdmin, CallTX
<1>4. lock'.writer = lock.writer /\ lock'.readers = lock.readers
  <2>1. CASE lock' = lock
    BY <2>1
  <2>2. CASE lock' = Wait(lock, p)
    BY <1>1, <2>2, MutexOps
  <2> QED BY <1>3, <2>1, <2>2
<1>5. PICK l \in Called : pc' = [pc EXCEPT ![p] = l]
  BY Callers
<1>6. \A q \in Proc \ {p} : ProcInv(q)'
  BY <1>1, <1>2, <1>4, <1>5, OthersKept
<1>7. pc'[p] \notin {"in_read", "update_leaves", "sign"} /\ (pc'[p] \in Writes => p \notin lock'.writer)
  <2>1. CASE Call(p)
    <3>1. lock.writer = {}
      BY <2>1 DEF Call, CallTX, GetTree, CanRLock
    <3> QED BY <1>1, <1>4, <1>5, <3>1 DEF Called
  <2>2. CASE CallAdmin(p)
    <3>1. pc'[p] \in {"create", "update", "count"}
      BY <1>1, <2>2 DEF CallAdmin
    <3> QED BY <3>1 DEF Writes
  <2> QED BY <2>1, <2>2
<1> QED BY <1>6, <1>7, NothingToKeep

\* A process that begins gets the latest store and disturbs nobody.
LEMMA BeginnersKept ==
    ASSUME Types, Exclusive, \A q \in Proc : ProcInv(q), NEW p \in Proc,
           BeginWrite(p) \/ beginTreeTX(p) \/ BeginRead(p)
    PROVE  \A q \in Proc : ProcInv(q)'
<1>1. pc \in [Proc -> Labels] /\ lock \in Mutexes /\ TxType
  BY DEF Types
<1>2. unseq' = unseq /\ Stays
  BY DEF BeginWrite, beginTreeTX, BeginRead, content, Stays
<1>3. Latest' = Latest /\ store' = store
  BY <1>2 DEF Stays, Latest
<1>4. CASE beginTreeTX(p)
  <2>1. pc' = pc /\ tx' = tx /\ pc[p] \in Writes /\ p \notin lock.writer /\ lock' = Wait(lock, p)
    BY <1>4 DEF beginTreeTX
  <2>2. lock'.writer = lock.writer /\ lock'.readers = lock.readers
    BY <1>1, <2>1, MutexOps
  <2>3. \A q \in Proc \ {p} : ProcInv(q)'
    BY <1>2, <2>1, <2>2, OthersKept
  <2>4. ProcInv(p)'
    BY <2>1, <2>2, NothingToKeep DEF Writes
  <2> QED BY <2>3, <2>4
<1>5. ASSUME ReturnLocked(p) PROVE /\ \A q \in Proc \ {p} : pc'[q] = pc[q] /\ tx'[q] = tx[q]
                                   /\ pc'[p] = "idle"
  BY <1>1, <1>5 DEF ReturnLocked, Done, TxType
<1>6. ASSUME Begun(p) PROVE /\ \A q \in Proc \ {p} : tx'[q] = tx[q]
                            /\ tx'[p] = Fresh
  BY <1>1, <1>6, BegunFresh DEF TxType
<1>7. ASSUME Begun(p) PROVE HasClone(p)'
  BY <1>3, <1>6, <1>7 DEF HasClone, Fresh
<1>8. CASE BeginWrite(p)
  <2>1. CanLock(lock) /\ lock' = Lock(lock, p) /\ pc[p] \in Writes
        /\ (ReturnLocked(p) \/ (Begun(p) /\ pc' = pc))
    BY <1>8 DEF BeginWrite
  <2>2. lock.writer = {} /\ lock.readers = {} /\ lock'.writer = {p} /\ lock'.readers = {}
    BY <1>1, <2>1, MutexOps DEF CanLock
  <2>3. \A q \in Proc \ {p} : ProcInv(q)'
    BY <1>2, <1>5, <1>6, <2>1, <2>2, OthersKept
  <2>4. CASE ReturnLocked(p)
    <3>1. pc'[p] = "idle"
      BY <1>5, <2>4
    <3>2. ProcInv(p)'
      BY <3>1, NothingToKeep DEF Writes
    <3> QED BY <2>3, <3>2
  <2>5. CASE Begun(p) /\ pc' = pc
    <3>1. HasClone(p)' /\ pc'[p] \in Writes
      BY <1>7, <2>1, <2>5
    <3>2. ProcInv(p)'
      BY <3>1 DEF ProcInv, ReaderInv, WriterInv, Writes
    <3> QED BY <2>3, <3>2
  <2> QED BY <2>1, <2>4, <2>5
<1>9. CASE BeginRead(p)
  <2>1. CanRLock(lock) /\ lock' = RLock(lock, p)
        /\ \/ ReturnLocked(p)
           \/ Begun(p) /\ pc' = [pc EXCEPT ![p] = "in_read"] /\ Latest # NoRoot
    BY <1>9, LatestIsFetched DEF BeginRead
  <2>2. lock.writer = {} /\ lock'.writer = {} /\ lock'.readers = lock.readers \cup {p}
    BY <1>1, <2>1, MutexOps DEF CanRLock
  <2>3. \A q \in Proc \ {p} : pc'[q] = pc[q] /\ tx'[q] = tx[q]
    BY <1>1, <1>5, <1>6, <2>1
  <2>4. \A q \in Proc \ {p} : ProcInv(q)'
    BY <1>2, <2>2, <2>3, OthersKept
  <2>5. CASE ReturnLocked(p)
    <3>1. pc'[p] = "idle"
      BY <1>5, <2>5
    <3>2. ProcInv(p)'
      BY <3>1, NothingToKeep DEF Writes
    <3> QED BY <2>4, <3>2
  <2>6. CASE Begun(p) /\ pc' = [pc EXCEPT ![p] = "in_read"] /\ Latest # NoRoot
    <3>1. HasClone(p)' /\ pc'[p] = "in_read" /\ Latest' # NoRoot /\ p \in lock'.readers
      BY <1>1, <1>3, <1>7, <2>2, <2>6
    <3>2. ProcInv(p)'
      BY <3>1 DEF ProcInv, ReaderInv, WriterInv, Writes
    <3> QED BY <2>4, <3>2
  <2> QED BY <2>1, <2>5, <2>6
<1> QED BY <1>4, <1>8, <1>9

\* What the process with the lock does.
LEMMA WritersKept ==
    ASSUME Types, Exclusive, DumpAlone, \A q \in Proc : ProcInv(q), NEW p \in Proc,
           InitLog(p) \/ createTree(p) \/ QueueLeaves(p) \/ DequeueLeaves(p)
           \/ UpdateSequencedLeaves(p) \/ SignAndStore(p)
    PROVE  \A q \in Proc : ProcInv(q)'
<1>1. pc \in [Proc -> Labels] /\ lock \in Mutexes /\ TxType /\ unseq \in Seq(Item)
  BY DEF Types, QueueType
<1>2. p \in lock.writer /\ WriterInv(p)
  BY DEF InitLog, createTree, QueueLeaves, DequeueLeaves, UpdateSequencedLeaves, SignAndStore,
         ProcInv, WriterInv
<1>3. lock' = lock \/ lock' = Unlock(lock, p)
  BY DEF InitLog, createTree, QueueLeaves, DequeueLeaves, UpdateSequencedLeaves, SignAndStore,
         StoreRoot, Signed, Commit, Rollback
<1>4. lock'.writer \subseteq {p}
  <2>1. lock.writer = {p}
    BY <1>2 DEF Exclusive
  <2>2. CASE lock' = lock
    BY <2>1, <2>2
  <2>3. CASE lock' = Unlock(lock, p)
    <3>1. lock'.writer = lock.writer \ {p}
      BY <1>1, <2>3, MutexOps
    <3> QED BY <2>1, <3>1
  <2> QED BY <1>3, <2>2, <2>3
<1>5. ASSUME Done(p) PROVE \A q \in Proc : ProcInv(q)'
  <2>1. \A q \in Proc \ {p} : pc'[q] = pc[q] /\ tx'[q] = tx[q]
    BY <1>1, <1>5 DEF Done, TxType
  <2>2. pc'[p] = "idle"
    BY <1>1, <1>5 DEF Done
  <2>3. \A q \in Proc \ {p} : ProcInv(q)'
    BY <1>2, <1>4, <2>1, OthersKept
  <2>4. ProcInv(p)'
    BY <2>2, NothingToKeep DEF Writes
  <2> QED BY <2>3, <2>4
<1>6. CASE InitLog(p) \/ createTree(p) \/ QueueLeaves(p) \/ SignAndStore(p)
  BY <1>5, <1>6 DEF InitLog, createTree, QueueLeaves, SignAndStore, StoreRoot, Signed, Commit,
         Rollback, ReturnLocked
<1>7. CASE DequeueLeaves(p)
  <2> DEFINE n == Min({Limit(p), Len(unseq)})
             batch == SubSeq(unseq, 1, n)
  <2>1. CASE tx[p].root # NoRoot /\ tx' = [tx EXCEPT ![p].batch = batch]
             /\ pc' = [pc EXCEPT ![p] = "update_leaves"] /\ UNCHANGED <<store, lock>>
    <3> HIDE DEF batch
    <3>1. /\ \A q \in Proc \ {p} : pc'[q] = pc[q] /\ tx'[q] = tx[q]
          /\ pc'[p] = "update_leaves"
          /\ tx'[p].batch = batch /\ tx'[p].store = tx[p].store /\ tx'[p].root = tx[p].root
          /\ tx'[p].writeRevision = tx[p].writeRevision
      BY <1>1, <2>1 DEF TxType, Transaction
    <3>2. \A q \in Proc \ {p} : ProcInv(q)'
      BY <1>2, <1>4, <3>1, OthersKept
    <3>3. HasClone(p) /\ store' = store /\ unseq' = unseq /\ currentSTH' = currentSTH
      <4>1. pc[p] = "pass" /\ unseq' = unseq /\ currentSTH' = currentSTH
        BY <1>7 DEF DequeueLeaves
      <4>2. HasClone(p)
        BY <1>2, <4>1 DEF WriterInv, Writes
      <4> QED BY <2>1, <4>1, <4>2
    <3>4. Latest' = Latest /\ Latest # NoRoot
      BY <2>1, <3>3 DEF Latest, HasClone
    <3>5. HasClone(p)'
      BY <3>1, <3>3, <3>4 DEF HasClone
    <3>6. Len(batch) <= Len(unseq) /\ batch = SubSeq(unseq, 1, Len(batch))
      <4>1. n \in 0 .. Len(unseq)
        BY <1>1, <1>7, DequeueLimit DEF DequeueLeaves
      <4> HIDE DEF n
      <4>2. Len(batch) = n
        BY <1>1, <4>1, SubSeqProperties DEF batch
      <4>3. batch = SubSeq(unseq, 1, Len(batch))
        BY <4>2 DEF batch
      <4> QED BY <1>1, <4>1, <4>2, <4>3
    <3>7. ProcInv(p)'
      BY <1>2, <2>1, <3>1, <3>3, <3>4, <3>5, <3>6 DEF ProcInv, ReaderInv, WriterInv, Writes
    <3> QED BY <3>2, <3>7
  <2>2. Done(p) \/ (tx[p].root # NoRoot /\ tx' = [tx EXCEPT ![p].batch = batch]
             /\ pc' = [pc EXCEPT ![p] = "update_leaves"] /\ UNCHANGED <<store, lock>>)
    BY <1>7 DEF DequeueLeaves, Commit, Rollback
  <2> QED BY <1>5, <2>1, <2>2
<1>8. CASE UpdateSequencedLeaves(p)
  <2>1. /\ pc[p] = "update_leaves" /\ HasClone(p) /\ Latest # NoRoot
        /\ Len(tx[p].batch) <= Len(unseq)
        /\ tx[p].batch = SubSeq(unseq, 1, Len(tx[p].batch))
    BY <1>2, <1>8 DEF UpdateSequencedLeaves, WriterInv
  <2> DEFINE new == Sequenced(tx[p].store, tx[p].root.size, tx[p].batch)
  <2>2. /\ pc' = [pc EXCEPT ![p] = "sign"] /\ tx' = [tx EXCEPT ![p].store = new]
        /\ store' = store /\ currentSTH' = currentSTH /\ lock' = lock
    BY <1>8 DEF UpdateSequencedLeaves
  <2>3. /\ \A q \in Proc \ {p} : pc'[q] = pc[q] /\ tx'[q] = tx[q]
        /\ pc'[p] = "sign"
        /\ tx'[p].batch = tx[p].batch /\ tx'[p].store = new /\ tx'[p].root = tx[p].root
        /\ tx'[p].writeRevision = tx[p].writeRevision
    BY <1>1, <2>2 DEF TxType, Transaction
  <2>4. \A q \in Proc \ {p} : ProcInv(q)'
    BY <1>2, <1>4, <2>3, OthersKept
  <2>5. Latest' = Latest
    BY <2>2 DEF Latest
  <2>6. new = Sequenced(store, Latest.size, tx[p].batch) /\ tx[p].root = Latest
        /\ tx[p].writeRevision = Latest.rev + 1
    BY <2>1 DEF HasClone
  <2>7. tx[p].batch \in Seq(Item)
    BY <1>1, <2>1, PrefixType
  <2> HIDE DEF new
  <2>8. ProcInv(p)'
    BY <1>2, <2>1, <2>2, <2>3, <2>5, <2>6, <2>7 DEF ProcInv, ReaderInv, WriterInv, Writes
  <2> QED BY <2>4, <2>8
<1> QED BY <1>6, <1>7, <1>8

\* What needs no lock, gives a reader's lock back, or is done with the lock at once.
LEMMA QuietKept ==
    ASSUME Types, Exclusive, DumpAlone, \A q \in Proc : ProcInv(q), NEW p \in Proc,
           Read(p) \/ CreateTree(p) \/ UpdateTree(p) \/ GetUnsequencedCounts(p)
    PROVE  \A q \in Proc : ProcInv(q)'
<1>1. pc \in [Proc -> Labels] /\ lock \in Mutexes /\ TxType
  BY DEF Types
<1>2. Stays /\ unseq' = unseq
  <2>1. CASE Read(p)
    BY <2>1 DEF Read, Commit, ProcInv, ReaderInv, HasClone, Stays
  <2>2. CASE CreateTree(p) \/ UpdateTree(p) \/ GetUnsequencedCounts(p)
    BY <2>2 DEF CreateTree, UpdateTree, GetUnsequencedCounts, content, Stays
  <2> QED BY <2>1, <2>2
<1>3. pc'[p] = "idle" /\ \A q \in Proc \ {p} : pc'[q] = pc[q] /\ tx'[q] = tx[q]
  <2>1. CASE Read(p)
    BY <1>1, <2>1 DEF Read, Commit, Done, TxType
  <2>2. CASE CreateTree(p) \/ UpdateTree(p) \/ GetUnsequencedCounts(p)
    BY <1>1, <2>2 DEF CreateTree, UpdateTree, GetUnsequencedCounts
  <2> QED BY <2>1, <2>2
<1>4. lock.readers \ {p} \subseteq lock'.readers /\ lock'.writer \ {p} = lock.writer \ {p}
  <2>1. CASE lock' = lock
    BY <2>1
  <2>2. CASE lock' = [lock EXCEPT !.waiting = @ \ {p}]
    <3>1. lock'.readers = lock.readers /\ lock'.writer = lock.writer
      BY <1>1, <2>2, MutexOps
    <3> QED BY <3>1
  <2>3. CASE lock' = Unlock(lock, p)
    <3>1. lock'.readers = lock.readers \ {p} /\ lock'.writer = lock.writer \ {p}
      BY <1>1, <2>3, MutexOps
    <3> QED BY <3>1
  <2> QED BY <2>1, <2>2, <2>3 DEF Read, Commit, CreateTree, UpdateTree, GetUnsequencedCounts
<1>5. \A q \in Proc \ {p} : ProcInv(q)'
  BY <1>2, <1>3, <1>4, OthersKept
<1>6. ProcInv(p)'
  BY <1>3, NothingToKeep DEF Writes
<1> QED BY <1>5, <1>6

\* dump_tree moves on only between transactions.
LEMMA DumpKept ==
    ASSUME Types, Exclusive, DumpAlone, \A q \in Proc : ProcInv(q), Dump
    PROVE  \A q \in Proc : ProcInv(q)'
<1>1. pc \in [Proc -> Labels] /\ Driver \in Proc
  BY DEF Types, Proc
<1>2. Stays /\ unseq' = unseq /\ lock' = lock /\ tx' = tx
  <2>1. CASE DumpStart
    BY <2>1 DEF DumpStart, content, Stays
  <2>2. CASE Fatal
    BY <2>2 DEF Fatal, content, Stays
  <2>3. CASE Main
    BY <2>3, Continues DEF content, Stays
  <2> QED BY <2>1, <2>2, <2>3 DEF Dump
<1>3. \A q \in Proc \ {Driver} : pc'[q] = pc[q]
  <2>1. CASE DumpStart \/ Fatal
    BY <1>1, <2>1 DEF DumpStart, Fatal
  <2>2. CASE Main
    BY <1>1, <2>2, Continues
  <2> QED BY <2>1, <2>2 DEF Dump
<1>4. \A q \in Proc \ {Driver} : ProcInv(q)'
  BY <1>1, <1>2, <1>3, OthersKept
<1>5. pc'[Driver] \notin {"in_read", "update_leaves", "sign"}
      /\ (pc'[Driver] \in Writes => Driver \notin lock'.writer)
  <2>1. CASE DumpStart
    <3>1. lock = Free /\ pc'[Driver] = "zero"
      BY <1>1, <2>1 DEF DumpStart, DumpAlone
    <3> QED BY <1>2, <3>1 DEF Free
  <2>2. CASE Fatal
    BY <1>1, <2>2 DEF Fatal, Writes
  <2>3. CASE Main
    <3>1. pc'[Driver] \in {"queue", "read", "pass"} /\ \E op : GetTree(op)
      BY <1>1, <2>3, Continues
    <3>2. lock.writer = {}
      BY <3>1 DEF GetTree, CanRLock
    <3> QED BY <1>2, <3>1, <3>2
  <2> QED BY <2>1, <2>2, <2>3 DEF Dump
<1>6. ProcInv(Driver)'
  BY <1>1, <1>5, NothingToKeep
<1> QED BY <1>4, <1>6

\* A step keeps what is known of every open transaction.
LEMMA ProcsKept ==
    ASSUME Types, Exclusive, DumpAlone, \A q \in Proc : ProcInv(q), [Next]_vars
    PROVE  \A q \in Proc : ProcInv(q)'
<1>1. CASE Tick \/ UNCHANGED vars
  <2>1. pc' = pc /\ tx' = tx /\ unseq' = unseq /\ lock' = lock /\ Stays
    BY <1>1 DEF Tick, vars, content, Stays
  <2>2. Latest' = Latest
    BY <2>1 DEF Latest, Stays
  <2>3. ASSUME NEW q \in Proc PROVE ProcInv(q)'
    <3>1. HasClone(q)' <=> HasClone(q)
      BY <2>1, <2>2 DEF HasClone, Stays
    <3> QED BY <2>1, <2>2, <3>1 DEF ProcInv, ReaderInv, WriterInv, Stays
  <2> QED BY <2>3
<1>2. CASE Dump
  BY <1>2, DumpKept
<1>3. ASSUME NEW p \in Proc, Call(p) \/ CallAdmin(p) PROVE \A q \in Proc : ProcInv(q)'
  BY <1>3, CallersKept
<1>4. ASSUME NEW p \in Proc, BeginWrite(p) \/ beginTreeTX(p) \/ BeginRead(p)
      PROVE  \A q \in Proc : ProcInv(q)'
  BY <1>4, BeginnersKept
<1>5. ASSUME NEW p \in Proc, InitLog(p) \/ createTree(p) \/ QueueLeaves(p) \/ DequeueLeaves(p)
                             \/ UpdateSequencedLeaves(p) \/ SignAndStore(p)
      PROVE  \A q \in Proc : ProcInv(q)'
  BY <1>5, WritersKept
<1>6. ASSUME NEW p \in Proc, Read(p) \/ CreateTree(p) \/ UpdateTree(p) \/ GetUnsequencedCounts(p)
      PROVE  \A q \in Proc : ProcInv(q)'
  BY <1>6, QuietKept
<1> QED BY <1>1, <1>2, <1>3, <1>4, <1>5, <1>6 DEF Next, Step

-------------------------------------------------------------------------------
\* The queue and the map of hashes change in few places only.
LEMMA QueueMoves ==
    ASSUME [Next]_vars
    PROVE  \/ UNCHANGED <<unseq, acked, h2s>>
           \/ \E p \in Proc : QueueLeaves(p) /\ p \in lock.writer /\ pc[p] = "queue"
                                 /\ h2s' = h2s /\ Done(p)
           \/ \E p \in Proc : UpdateSequencedLeaves(p)
           \/ \E p \in Proc : SignAndStore(p) /\ pc[p] = "sign" /\ Rollback(p) /\ Stays
                                 /\ acked' = Dropped(tx[p].batch) /\ UNCHANGED <<unseq, h2s>>
<1>1. ASSUME NEW p \in Proc, Call(p) \/ CallAdmin(p) \/ BeginWrite(p) \/ beginTreeTX(p) \/ BeginRead(p)
      PROVE  UNCHANGED <<unseq, acked, h2s>>
  BY <1>1 DEF Call, CallTX, CallAdmin, BeginWrite, beginTreeTX, BeginRead, content
<1>2. ASSUME NEW p \in Proc, Read(p) \/ InitLog(p) \/ createTree(p) \/ DequeueLeaves(p) \/ UpdateTree(p)
                             \/ GetUnsequencedCounts(p) \/ CreateTree(p)
      PROVE  UNCHANGED <<unseq, acked, h2s>>
  BY <1>2 DEF Read, InitLog, createTree, DequeueLeaves, UpdateTree, GetUnsequencedCounts, CreateTree,
       content
<1>3. ASSUME NEW p \in Proc, QueueLeaves(p)
      PROVE  p \in lock.writer /\ pc[p] = "queue" /\ h2s' = h2s /\ Done(p)
  BY <1>3 DEF QueueLeaves, ReturnLocked, Commit
<1>4. ASSUME NEW p \in Proc, SignAndStore(p)
      PROVE  \/ UNCHANGED <<unseq, acked, h2s>>
             \/ pc[p] = "sign" /\ Rollback(p) /\ Stays /\ acked' = Dropped(tx[p].batch)
                /\ UNCHANGED <<unseq, h2s>>
  BY <1>4 DEF SignAndStore, Stays
<1>5. ASSUME Dump \/ Tick \/ UNCHANGED vars PROVE UNCHANGED <<unseq, acked, h2s>>
  <2>1. CASE DumpStart
    BY <2>1 DEF DumpStart, content
  <2>2. CASE Fatal
    BY <2>2 DEF Fatal, content
  <2>3. CASE Main
    BY <2>3 DEF Main, Loop, AfterLeaf, Run, CallTX, content
  <2>4. CASE Tick \/ UNCHANGED vars
    BY <2>4 DEF Tick, vars, content
  <2> QED BY <1>5, <2>1, <2>2, <2>3, <2>4 DEF Dump
<1> QED BY <1>1, <1>2, <1>3, <1>4, <1>5 DEF Next, Step

\* A leaf that is queued is well formed.
LEMMA LeafIsItem ==
    ASSUME Types, DumpAlone, NEW p \in Proc, QueueLeaves(p)
    PROVE  \/ UNCHANGED <<unseq, acked>>
           \/ \E leaf \in Item : /\ unseq' = Append(unseq, leaf)
                                 /\ acked' = Append(acked, [leaf |-> leaf, dropped |-> FALSE])
<1> DEFINE Set == IF p = Driver THEN {dump.next} ELSE Leaf
<1>1. PICK leaf \in Set :
         IF leaf = BadLeaf THEN UNCHANGED <<unseq, acked>>
         ELSE unseq' = Append(unseq, leaf) /\ acked' = Append(acked, [leaf |-> leaf, dropped |-> FALSE])
  BY DEF QueueLeaves
<1>2. ASSUME leaf # BadLeaf PROVE leaf \in Item
  <2>1. CASE p # Driver
    BY <1>2, <2>1 DEF Item
  <2>2. CASE p = Driver
    <3>1. dump.step = "queue" /\ leaf = dump.next
      <4>1. pc[p] = "queue" /\ leaf \in {dump.next}
        BY <1>1, <2>2 DEF QueueLeaves
      <4> QED BY <2>2, <4>1 DEF DumpAlone
    <3>2. dump.size \in DumpSizes /\ dump.next \in Nat /\ dump.next < dump.size
      BY <3>1 DEF Types, DumpType
    <3>3. leaf \in 0 .. dump.size - 1
      <4>1. dump.size \in Nat
        BY <3>2, SizesAssumption
      <4>2. dump.next \in 0 .. dump.size - 1
        BY <3>2, <4>1
      <4> QED BY <3>1, <4>2
    <3> QED BY <3>2, <3>3 DEF Item
  <2> QED BY <2>1, <2>2
<1> QED BY <1>1, <1>2

\* What UpdateSequencedLeaves leaves of the queue.
LEMMA QueueRest ==
    ASSUME Types, NEW p \in Proc, ProcInv(p), UpdateSequencedLeaves(p)
    PROVE  LET n == Len(tx[p].batch)
           IN  /\ n \in 0 .. Len(unseq) /\ tx[p].batch \in Seq(Item)
               /\ tx[p].batch = SubSeq(unseq, 1, n)
               /\ unseq' \in Seq(Item) /\ Len(unseq') = Len(unseq) - n
               /\ \A i \in 1 .. Len(unseq) - n : unseq'[i] = unseq[n + i]
<1> DEFINE b == tx[p].batch
<1>1. unseq' = Remaining(unseq, b) /\ pc[p] = "update_leaves"
  BY DEF UpdateSequencedLeaves
<1>2. unseq \in Seq(Item) /\ Len(b) <= Len(unseq) /\ b = SubSeq(unseq, 1, Len(b))
  BY <1>1 DEF Types, QueueType, ProcInv, WriterInv
<1> HIDE DEF b
<1>3. b \in Seq(Item) /\ Len(b) \in 0 .. Len(unseq)
  BY <1>2, PrefixType
<1>4. /\ Remaining(unseq, SubSeq(unseq, 1, Len(b))) \in Seq(Item)
      /\ Len(Remaining(unseq, SubSeq(unseq, 1, Len(b)))) = Len(unseq) - Len(b)
      /\ \A i \in 1 .. Len(unseq) - Len(b) :
            Remaining(unseq, SubSeq(unseq, 1, Len(b)))[i] = unseq[Len(b) + i]
  BY <1>2, <1>3, RemainingRest
<1>5. /\ unseq' \in Seq(Item) /\ Len(unseq') = Len(unseq) - Len(b)
      /\ \A i \in 1 .. Len(unseq) - Len(b) : unseq'[i] = unseq[Len(b) + i]
  BY <1>1, <1>2, <1>4
<1> QED BY <1>2, <1>3, <1>5 DEF b

\* What a failed pass makes of the acknowledged leaves.
LEMMA DroppedType ==
    ASSUME Types, NEW batch
    PROVE  /\ Dropped(batch) \in Seq([leaf : Item, dropped : BOOLEAN])
           /\ Len(Dropped(batch)) = Len(acked)
           /\ \A i \in 1 .. Len(acked) :
                 /\ Dropped(batch)[i].leaf = acked[i].leaf
                 /\ Dropped(batch)[i].dropped
                       = (acked[i].dropped \/ i \in Len(acked) - Len(unseq) - Len(batch) + 1
                                                      .. Len(acked) - Len(unseq))
<1> DEFINE E == [leaf : Item, dropped : BOOLEAN]
           taken == Len(acked) - Len(unseq)
           d(i) == [acked[i] EXCEPT !.dropped = @ \/ i \in taken - Len(batch) + 1 .. taken]
<1>1. acked \in Seq(E)
  BY DEF Types, QueueType
<1>2. ASSUME NEW i \in 1 .. Len(acked)
      PROVE  /\ d(i) \in E /\ d(i).leaf = acked[i].leaf
             /\ d(i).dropped = (acked[i].dropped \/ i \in taken - Len(batch) + 1 .. taken)
  <2> HIDE DEF E
  <2>1. acked[i] \in E
    BY <1>1, ElementOfSeq
  <2> QED BY <2>1 DEF E
<1>3. Dropped(batch) = [i \in 1 .. Len(acked) |-> d(i)]
  BY DEF Dropped
<1>4. Len(acked) \in Nat
  BY <1>1
<1> HIDE DEF d
<1>5. Dropped(batch) \in Seq(E) /\ Len(Dropped(batch)) = Len(acked)
      /\ \A i \in 1 .. Len(acked) : Dropped(batch)[i] = d(i)
  BY <1>2, <1>3, <1>4
<1> QED BY <1>2, <1>5

\* A step keeps the types of the queue and of the acknowledged leaves.
LEMMA QueueTypes ==
    ASSUME Types, DumpAlone, \A q \in Proc : ProcInv(q), [Next]_vars
    PROVE  QueueType'
<1>1. QueueType
  BY DEF Types
<1>2. CASE UNCHANGED <<unseq, acked>>
  BY <1>1, <1>2 DEF QueueType
<1>3. ASSUME NEW p \in Proc, QueueLeaves(p) PROVE QueueType'
  <2>1. ASSUME NEW leaf \in Item, unseq' = Append(unseq, leaf),
               acked' = Append(acked, [leaf |-> leaf, dropped |-> FALSE])
        PROVE  QueueType'
    <3>1. [leaf |-> leaf, dropped |-> FALSE] \in [leaf : Item, dropped : BOOLEAN]
      OBVIOUS
    <3> QED BY <1>1, <2>1, <3>1 DEF QueueType
  <2> QED BY <1>2, <1>3, <2>1, LeafIsItem
<1>4. ASSUME NEW p \in Proc, UpdateSequencedLeaves(p) PROVE QueueType'
  <2>1. unseq' \in Seq(Item)
    BY <1>4, QueueRest
  <2>2. acked' = acked
    BY <1>4 DEF UpdateSequencedLeaves
  <2> QED BY <1>1, <2>1, <2>2 DEF QueueType
<1>5. ASSUME NEW p \in Proc, acked' = Dropped(tx[p].batch), unseq' = unseq PROVE QueueType'
  BY <1>1, <1>5, DroppedType DEF QueueType
<1> QED BY <1>2, <1>3, <1>4, <1>5, QueueMoves

\* A step keeps all types.
LEMMA TypesKept ==
    ASSUME Types, DumpAlone, \A q \in Proc : ProcInv(q), [Next]_vars
    PROVE  Types'
BY TxTypes, LockTypes, ClockTypes, DumpTypes, QueueTypes DEF Types

-------------------------------------------------------------------------------
\* The order of acknowledged leaves.

\* Ranks in a set that ends in an interval.
Splits(K, K1, u, v) ==
    /\ Cardinality(K1) \in Nat
    /\ Cardinality(K) = Cardinality(K1) + (v - u)
    /\ \A i \in K1 : Rank(K, i) = Rank(K1, i) /\ Rank(K1, i) \in 1 .. Cardinality(K1)
    /\ \A i \in u + 1 .. v : Rank(K, i) = Cardinality(K1) + (i - u)

LEMMA RankSplit ==
    ASSUME NEW t \in Nat, NEW u \in Nat, NEW v \in Nat, t <= u, u <= v, NEW K1 \in SUBSET (1 .. t),
           NEW K, K = K1 \cup (u + 1 .. v)
    PROVE  Splits(K, K1, u, v)
<1>1. IsFiniteSet(K1) /\ Cardinality(K1) \in Nat
  <2>1. IsFiniteSet(1 .. t)
    BY FS_Interval
  <2>2. IsFiniteSet(K1)
    BY <2>1, FS_Subset
  <2> QED BY <2>2, FS_CardinalityType
<1>2. ASSUME NEW w \in Nat, u <= w
      PROVE  Cardinality(K1 \cup (u + 1 .. w)) = Cardinality(K1) + (w - u)
  <2>1. IsFiniteSet(u + 1 .. w) /\ Cardinality(u + 1 .. w) = w - u
    <3> DEFINE f == u + 1
    <3>1. f \in Int /\ w \in Int
      OBVIOUS
    <3> HIDE DEF f
    <3>2. IsFiniteSet(f .. w) /\ Cardinality(f .. w) = IF f > w THEN 0 ELSE w - f + 1
      BY <3>1, FS_Interval
    <3>3. (IF f > w THEN 0 ELSE w - f + 1) = w - u
      BY <1>2 DEF f
    <3> QED BY <3>2, <3>3 DEF f
  <2>2. K1 \cap (u + 1 .. w) = {}
    OBVIOUS
  <2>3. Cardinality(K1 \cup (u + 1 .. w))
           = Cardinality(K1) + Cardinality(u + 1 .. w) - Cardinality(K1 \cap (u + 1 .. w))
    BY <1>1, <2>1, FS_Union
  <2>4. Cardinality(K1 \cap (u + 1 .. w)) = 0
    BY <2>2, FS_EmptySet
  <2> QED BY <1>1, <1>2, <2>1, <2>3, <2>4
<1>3. Cardinality(K) = Cardinality(K1) + (v - u)
  BY <1>2
<1>4. ASSUME NEW i \in K1 PROVE Rank(K, i) = Rank(K1, i) /\ Rank(K1, i) \in 1 .. Cardinality(K1)
  <2>1. {j \in K : j <= i} = {j \in K1 : j <= i}
    <3>1. i <= u /\ i \in Nat
      OBVIOUS
    <3>2. \A j \in u + 1 .. v : ~(j <= i)
      BY <3>1
    <3> QED BY <3>2
  <2>2. Rank(K1, i) \in 1 .. Cardinality(K1)
    BY RankGrows
  <2> QED BY <2>1, <2>2 DEF Rank
<1>5. ASSUME NEW i \in u + 1 .. v PROVE Rank(K, i) = Cardinality(K1) + (i - u)
  <2>1. {j \in K : j <= i} = K1 \cup (u + 1 .. i)
    <3>1. \A j \in K1 : j <= i
      OBVIOUS
    <3>2. \A j \in u + 1 .. v : j <= i <=> j \in u + 1 .. i
      OBVIOUS
    <3>3. u + 1 .. i \subseteq u + 1 .. v
      OBVIOUS
    <3> QED BY <3>1, <3>2, <3>3
  <2>2. Cardinality(K1 \cup (u + 1 .. i)) = Cardinality(K1) + (i - u)
    BY <1>2
  <2> QED BY <2>1, <2>2 DEF Rank
<1> QED BY <1>1, <1>3, <1>4, <1>5 DEF Splits

\* A leaf that is acknowledged is the last in line.
LEMMA LineAppend ==
    ASSUME NEW a \in Seq(Entry), NEW all \in Seq(Item), NEW late \in Nat, InLine(a, all, late),
           NEW leaf \in Item, NEW e, e = [leaf |-> leaf, dropped |-> FALSE]
    PROVE  InLine(Append(a, e), Append(all, leaf), late + 1)
<1> DEFINE n == Len(a)
           K == KeptOf(a)
           a2 == Append(a, e)
           K2 == KeptOf(a2)
           all2 == Append(all, leaf)
<1>1. n \in Nat /\ Len(a2) = n + 1 /\ (\A i \in 1 .. n : a2[i] = a[i]) /\ a2[n + 1] = e
  BY DEF Entry
<1>2. K \in SUBSET (1 .. n) /\ Cardinality(K) = Len(all) /\ late <= n
      /\ n - late + 1 .. n \subseteq K /\ \A i \in K : a[i].leaf = all[Rank(K, i)]
  BY DEF InLine, KeptOf
<1>3. K2 = K \cup (n + 1 .. n + 1)
  <2>1. ~e.dropped
    OBVIOUS
  <2>2. ASSUME NEW i \in 1 .. n + 1 PROVE i \in K2 <=> i \in K \cup {n + 1}
    BY <1>1, <2>1 DEF KeptOf
  <2>3. K2 \in SUBSET (1 .. n + 1) /\ K \cup {n + 1} \in SUBSET (1 .. n + 1)
    BY <1>1, <1>2 DEF KeptOf
  <2>4. n + 1 .. n + 1 = {n + 1}
    BY <1>1
  <2> QED BY <2>2, <2>3, <2>4
<1>4. Len(all2) = Len(all) + 1 /\ all2[Len(all) + 1] = leaf /\ \A i \in 1 .. Len(all) : all2[i] = all[i]
  OBVIOUS
<1> HIDE DEF n, K, a2, K2, all2
<1>5. /\ Cardinality(K2) = Cardinality(K) + ((n + 1) - n)
      /\ \A i \in K : Rank(K2, i) = Rank(K, i) /\ Rank(K, i) \in 1 .. Cardinality(K)
      /\ \A i \in n + 1 .. n + 1 : Rank(K2, i) = Cardinality(K) + (i - n)
  <2> DEFINE v == n + 1
  <2>1. n \in Nat /\ v \in Nat /\ n <= n /\ n <= v
    BY <1>1
  <2>2. K \in SUBSET (1 .. n)
    BY <1>2
  <2>4. K2 = K \cup (n + 1 .. v)
    BY <1>3
  <2> HIDE DEF v
  <2>3. Splits(K2, K, n, v)
    BY <2>1, <2>2, <2>4, RankSplit
  <2> QED BY <2>3 DEF v, Splits
<1>6. Cardinality(K2) = Len(all2)
  BY <1>1, <1>2, <1>4, <1>5
<1>7. ASSUME NEW i \in K2 PROVE a2[i].leaf = all2[Rank(K2, i)]
  <2>1. CASE i \in K
    BY <1>1, <1>2, <1>4, <1>5, <2>1
  <2>2. CASE i \in n + 1 .. n + 1
    <3>1. i = n + 1 /\ Rank(K2, i) = Len(all) + 1
      BY <1>1, <1>2, <1>5, <2>2
    <3> QED BY <1>1, <1>4, <3>1
  <2> QED BY <1>3, <2>1, <2>2
<1>8. (n + 1) - (late + 1) + 1 .. n + 1 \subseteq K2
  <2>1. (n + 1) - (late + 1) + 1 .. n + 1 \subseteq (n - late + 1 .. n) \cup (n + 1 .. n + 1)
    BY <1>1
  <2> QED BY <1>2, <1>3, <2>1
<1>9. late + 1 <= n + 1
  BY <1>1, <1>2
<1>10. InLine(a2, all2, late + 1)
  BY <1>1, <1>6, <1>7, <1>8, <1>9 DEF InLine, K2
<1> QED BY <1>10 DEF a2, all2

\* Ranks when the interval of a batch is taken out of a set that ends with it and a queue.
Drops(K, K2, c, t, m, k) ==
    /\ Cardinality(K2) = c + k
    /\ t + m + 1 .. t + (m + k) \subseteq K2
    /\ \A i \in K2 : \/ Rank(K, i) = Rank(K2, i) /\ Rank(K, i) \in 1 .. c
                     \/ \E j \in 1 .. k : Rank(K, i) = (c + m) + j /\ Rank(K2, i) = c + j

LEMMA DropRanks ==
    ASSUME NEW n \in Nat, NEW m \in Nat, NEW k \in Nat, NEW t \in Nat, NEW c \in Nat,
           n = t + (m + k),
           NEW K \in SUBSET (1 .. n), t + 1 .. n \subseteq K, Cardinality(K) = c + (m + k),
           NEW K2, K2 = K \ (t + 1 .. t + m)
    PROVE  Drops(K, K2, c, t, m, k)
<1> DEFINE K1 == {i \in K : i <= t}
           u == t + m
<1>1. u \in Nat /\ t <= t /\ t <= u /\ u <= n /\ t <= n /\ n - t = m + k /\ n - u = k
  OBVIOUS
<1>2. K1 \in SUBSET (1 .. t)
  <2>1. ASSUME NEW i \in K1 PROVE i \in 1 .. t
    <3>1. i \in 1 .. n /\ i <= t
      OBVIOUS
    <3> QED BY <3>1
  <2> QED BY <2>1
<1>3. K = K1 \cup (t + 1 .. n)
  <2>1. ASSUME NEW i \in K PROVE i \in K1 \/ i \in t + 1 .. n
    <3>1. i \in 1 .. n
      OBVIOUS
    <3> QED BY <3>1
  <2> QED BY <2>1
<1>4. K2 = K1 \cup (u + 1 .. n)
  <2>1. ASSUME NEW i \in K2 PROVE i \in K1 \/ i \in u + 1 .. n
    <3>1. i \in 1 .. n /\ i \in K /\ i \notin t + 1 .. u
      OBVIOUS
    <3> QED BY <1>1, <3>1
  <2>2. ASSUME NEW i \in K1 PROVE i \in K2
    <3>1. i \notin t + 1 .. u
      BY <1>1, <1>2
    <3> QED BY <3>1
  <2>3. ASSUME NEW i \in u + 1 .. n PROVE i \in K2
    <3>1. i \in t + 1 .. n /\ i \notin t + 1 .. u
      BY <1>1
    <3> QED BY <3>1
  <2> QED BY <2>1, <2>2, <2>3
<1> HIDE DEF K1, u
<1>5. /\ Cardinality(K1) \in Nat
      /\ Cardinality(K) = Cardinality(K1) + (n - t)
      /\ \A i \in K1 : Rank(K, i) = Rank(K1, i) /\ Rank(K1, i) \in 1 .. Cardinality(K1)
      /\ \A i \in t + 1 .. n : Rank(K, i) = Cardinality(K1) + (i - t)
  <2>1. Splits(K, K1, t, n)
    BY <1>1, <1>2, <1>3, RankSplit
  <2> QED BY <2>1 DEF Splits
<1>6. /\ Cardinality(K2) = Cardinality(K1) + (n - u)
      /\ \A i \in K1 : Rank(K2, i) = Rank(K1, i)
      /\ \A i \in u + 1 .. n : Rank(K2, i) = Cardinality(K1) + (i - u)
  <2>1. Splits(K2, K1, u, n)
    BY <1>1, <1>2, <1>4, RankSplit
  <2> QED BY <2>1 DEF Splits
<1>7. Cardinality(K1) = c
  BY <1>1, <1>5
<1>8. Cardinality(K2) = c + k
  BY <1>1, <1>6, <1>7
<1>9. ASSUME NEW i \in K1
      PROVE  Rank(K, i) = Rank(K2, i) /\ Rank(K, i) \in 1 .. c
  BY <1>5, <1>6, <1>7
<1>10. ASSUME NEW i \in u + 1 .. n
       PROVE  \E j \in 1 .. k : Rank(K, i) = (c + m) + j /\ Rank(K2, i) = c + j
  <2>1. i \in t + 1 .. n /\ i \in Nat
    BY <1>1
  <2>2. Rank(K, i) = c + (i - t) /\ Rank(K2, i) = c + (i - u)
    BY <1>5, <1>6, <1>7, <2>1
  <2>3. i - u \in 1 .. k /\ c + (i - t) = (c + m) + (i - u)
    BY <1>1, <2>1 DEF u
  <2> QED BY <2>2, <2>3
<1>11. t + m + 1 .. n \subseteq K2
  BY <1>4 DEF u
<1> QED BY <1>4, <1>8, <1>9, <1>10, <1>11 DEF Drops

\* A failed pass drops its batch, which is no longer in the queue, and nothing else.
LEMMA LineDrop ==
    ASSUME NEW a \in Seq(Entry), NEW a2 \in Seq(Entry), Len(a2) = Len(a),
           NEW h \in Seq(Item), NEW b \in Seq(Item), NEW q \in Seq(Item),
           InLine(a, (h \o b) \o q, Len(b) + Len(q)),
           \A i \in 1 .. Len(a) :
              /\ a2[i].leaf = a[i].leaf
              /\ a2[i].dropped = (a[i].dropped \/ i \in Len(a) - Len(q) - Len(b) + 1 .. Len(a) - Len(q))
    PROVE  InLine(a2, (h \o << >>) \o q, Len(<< >>) + Len(q))
<1> DEFINE n == Len(a)
           m == Len(b)
           k == Len(q)
           c == Len(h)
           t == n - k - m
           all == (h \o b) \o q
           all2 == (h \o << >>) \o q
           K == KeptOf(a)
           K2 == KeptOf(a2)
<1>1. n \in Nat /\ m \in Nat /\ k \in Nat /\ c \in Nat
  OBVIOUS
<1>2. Len(all) = c + (m + k) /\ Len(all2) = c + k
  OBVIOUS
<1>3. \A i \in 1 .. c : all[i] = h[i] /\ all2[i] = h[i]
  OBVIOUS
<1>4. \A i \in 1 .. k : all[(c + m) + i] = q[i] /\ all2[c + i] = q[i]
  OBVIOUS
<1>5. /\ Cardinality(K) = Len(all) /\ m + k <= n /\ n - (m + k) + 1 .. n \subseteq K
      /\ \A i \in K : a[i].leaf = all[Rank(K, i)]
  BY DEF InLine
<1>6. t \in Nat /\ n = t + (m + k) /\ n - (m + k) + 1 = t + 1 /\ n - k = t + m /\ n - k - m + 1 = t + 1
  BY <1>1, <1>5
<1>7. K \in SUBSET (1 .. n)
  BY DEF KeptOf
<1>8. ASSUME NEW i \in 1 .. n
      PROVE  /\ a2[i].leaf = a[i].leaf
             /\ a2[i].dropped = (a[i].dropped \/ i \in t + 1 .. t + m)
  BY <1>6
<1>9. K2 = K \ (t + 1 .. t + m)
  <2>1. K2 \in SUBSET (1 .. n)
    BY DEF KeptOf
  <2>2. ASSUME NEW i \in 1 .. n PROVE i \in K2 <=> i \in K /\ i \notin t + 1 .. t + m
    <3> HIDE DEF t, m
    <3> QED BY <1>8 DEF KeptOf
  <2> HIDE DEF K, K2, t, m, n
  <2> QED BY <1>7, <2>1, <2>2
<1>10. t + 1 .. n \subseteq K
  BY <1>5, <1>6
<1>11. Cardinality(K) = c + (m + k)
  BY <1>2, <1>5
<1> HIDE DEF n, m, k, c, t, all, all2, K, K2
<1>12. /\ Cardinality(K2) = c + k
       /\ t + m + 1 .. n \subseteq K2
       /\ \A i \in K2 : \/ Rank(K, i) = Rank(K2, i) /\ Rank(K, i) \in 1 .. c
                        \/ \E j \in 1 .. k : Rank(K, i) = (c + m) + j /\ Rank(K2, i) = c + j
  <2>1. Drops(K, K2, c, t, m, k)
    BY <1>1, <1>6, <1>7, <1>9, <1>10, <1>11, DropRanks
  <2> QED BY <1>6, <2>1 DEF Drops
<1>13. ASSUME NEW i \in K2 PROVE a2[i].leaf = all2[Rank(K2, i)]
  <2>1. i \in K /\ i \in 1 .. n
    BY <1>7, <1>9
  <2>2. a2[i].leaf = all[Rank(K, i)]
    BY <1>5, <1>8, <2>1
  <2>3. CASE Rank(K, i) = Rank(K2, i) /\ Rank(K, i) \in 1 .. c
    BY <1>3, <2>2, <2>3
  <2>4. ASSUME NEW j \in 1 .. k, Rank(K, i) = (c + m) + j, Rank(K2, i) = c + j
        PROVE  a2[i].leaf = all2[Rank(K2, i)]
    <3>1. all[(c + m) + j] = all2[c + j]
      BY <1>4
    <3> QED BY <2>2, <2>4, <3>1
  <2> QED BY <1>12, <2>3, <2>4
<1>14. n - k + 1 .. n \subseteq K2 /\ k <= n
  <2>1. n - k + 1 = t + m + 1 /\ k <= n
    BY <1>1, <1>6
  <2> QED BY <1>12, <2>1
<1>15. Len(<< >>) + k = k /\ Len(a2) = n
  BY <1>1 DEF n
<1>16. InLine(a2, all2, Len(<< >>) + k)
  BY <1>2, <1>12, <1>13, <1>14, <1>15 DEF InLine, K2
<1> QED BY <1>16 DEF all2, k

-------------------------------------------------------------------------------
\* Processes that sign.

\* No process comes to sign or leaves it, and one that is there keeps its transaction.
SignersStay ==
    \A q \in Proc : /\ pc'[q] = "sign" <=> pc[q] = "sign"
                    /\ pc[q] = "sign" => tx'[q] = tx[q]

\* Processes come to sign and leave it in two actions only.
LEMMA SignerMoves ==
    ASSUME Types, DumpAlone, [Next]_vars
    PROVE  \/ \E p \in Proc : UpdateSequencedLeaves(p) \/ SignAndStore(p)
           \/ SignersStay
<1>t. pc \in [Proc -> Labels] /\ TxType
  BY DEF Types
<1>1. ASSUME NEW p \in Proc, pc[p] # "sign", NEW l, l # "sign", pc' = [pc EXCEPT ![p] = l],
             tx' = tx \/ \E t : tx' = [tx EXCEPT ![p] = t]
      PROVE  SignersStay
  <2>1. ASSUME NEW q \in Proc, q # p PROVE pc'[q] = pc[q] /\ tx'[q] = tx[q]
    <3>1. pc'[q] = pc[q]
      BY <1>t, <1>1, <2>1
    <3>2. tx'[q] = tx[q]
      <4>1. CASE tx' = tx
        BY <4>1
      <4>2. ASSUME NEW t, tx' = [tx EXCEPT ![p] = t] PROVE tx'[q] = tx[q]
        BY <1>t, <2>1, <4>2 DEF TxType
      <4> QED BY <1>1, <4>1, <4>2
    <3> QED BY <3>1, <3>2
  <2>2. pc'[p] # "sign"
    BY <1>t, <1>1
  <2> QED BY <1>1, <2>1, <2>2 DEF SignersStay
<1>2. ASSUME NEW p \in Proc, pc[p] # "sign", Done(p) PROVE SignersStay
  BY <1>1, <1>2 DEF Done
<1>3. ASSUME pc' = pc, tx' = tx PROVE SignersStay
  BY <1>3 DEF SignersStay
<1>4. ASSUME NEW p \in Proc, Call(p) \/ CallAdmin(p) PROVE SignersStay
  <2>1. PICK l \in Called : pc' = [pc EXCEPT ![p] = l]
    BY <1>4, Callers
  <2>2. pc[p] = "idle" /\ tx' = tx
    BY <1>4 DEF Call, CallTX, CallAdmin
  <2> QED BY <1>1, <2>1, <2>2 DEF Called
<1>5. ASSUME NEW p \in Proc, BeginWrite(p) PROVE SignersStay
  <2>1. pc[p] # "sign"
    BY <1>5 DEF BeginWrite, Writes
  <2>2. CASE ReturnLocked(p)
    BY <1>2, <2>1, <2>2 DEF ReturnLocked
  <2>3. CASE Begun(p) /\ pc' = pc
    <3>1. tx' = [tx EXCEPT ![p] = Fresh] /\ pc' = [pc EXCEPT ![p] = pc[p]]
      BY <1>t, <2>3, BegunFresh
    <3> QED BY <1>1, <2>1, <3>1
  <2> QED BY <1>5, <2>2, <2>3 DEF BeginWrite
<1>6. ASSUME NEW p \in Proc, BeginRead(p) PROVE SignersStay
  <2>1. pc[p] # "sign"
    BY <1>6 DEF BeginRead
  <2>2. CASE ReturnLocked(p)
    BY <1>2, <2>1, <2>2 DEF ReturnLocked
  <2>3. CASE Begun(p) /\ pc' = [pc EXCEPT ![p] = "in_read"]
    BY <1>1, <2>1, <2>3, BegunFresh
  <2> QED BY <1>6, <2>2, <2>3 DEF BeginRead
<1>7. ASSUME NEW p \in Proc, beginTreeTX(p) PROVE SignersStay
  BY <1>3, <1>7 DEF beginTreeTX
<1>8. ASSUME NEW p \in Proc, Read(p) \/ InitLog(p) \/ createTree(p) PROVE SignersStay
  BY <1>2, <1>8 DEF Read, InitLog, createTree, Signed, Commit, Rollback
<1>9. ASSUME NEW p \in Proc, QueueLeaves(p) PROVE SignersStay
  BY <1>2, <1>9 DEF QueueLeaves, Commit, ReturnLocked
<1>10. ASSUME NEW p \in Proc, DequeueLeaves(p) PROVE SignersStay
  <2>1. pc[p] # "sign"
    BY <1>10 DEF DequeueLeaves
  <2>2. CASE Done(p)
    BY <1>2, <2>1, <2>2
  <2>3. ASSUME NEW b, tx' = [tx EXCEPT ![p].batch = b], pc' = [pc EXCEPT ![p] = "update_leaves"]
        PROVE  SignersStay
    BY <1>1, <2>1, <2>3
  <2> QED BY <1>10, <2>2, <2>3 DEF DequeueLeaves, Commit, Rollback
<1>11. ASSUME NEW p \in Proc, CreateTree(p) \/ UpdateTree(p) \/ GetUnsequencedCounts(p)
       PROVE  SignersStay
  <2>1. pc[p] # "sign" /\ pc' = [pc EXCEPT ![p] = "idle"] /\ tx' = tx
    BY <1>11 DEF CreateTree, UpdateTree, GetUnsequencedCounts
  <2> QED BY <1>1, <2>1
<1>12. ASSUME Dump PROVE SignersStay
  <2>1. Driver \in Proc
    BY DEF Proc
  <2>2. CASE Fatal
    BY <1>3, <2>2 DEF Fatal
  <2>3. CASE DumpStart
    <3>1. pc' = [pc EXCEPT ![Driver] = "zero"] /\ tx' = tx
      BY <2>3 DEF DumpStart
    <3>2. pc[Driver] # "sign"
      BY <2>3 DEF DumpStart, DumpAlone
    <3> QED BY <1>1, <2>1, <3>1, <3>2
  <2>4. CASE Main
    <3>1. PICK step \in {"sequence", "queue", "last", "print"} :
             /\ pc[Driver] = "idle" /\ tx' = tx
             /\ pc' = [pc EXCEPT ![Driver] = IF step = "queue" THEN "queue"
                                             ELSE IF step = "print" THEN "read" ELSE "pass"]
      BY <2>4, Continues
    <3> QED BY <1>1, <2>1, <3>1
  <2> QED BY <1>12, <2>2, <2>3, <2>4 DEF Dump
<1>13. ASSUME Tick \/ UNCHANGED vars PROVE SignersStay
  BY <1>3, <1>13 DEF Tick, vars
<1> QED BY <1>4, <1>5, <1>6, <1>7, <1>8, <1>9, <1>10, <1>11, <1>12, <1>13 DEF Next, Step

\* UpdateSequencedLeaves adds the indices of its batch and takes none away.
LEMMA IndexedGrows ==
    ASSUME NEW size \in Nat, NEW batch \in Seq(Item), h2s' = Indexed(size, batch)
    PROVE  /\ \A l, i : Found(l, i) => Found(l, i)'
           /\ \A i \in 1 .. Len(batch) : Found(batch[i], size + i - 1)'
<1> DEFINE New(l) == {size + i - 1 : i \in {j \in 1 .. Len(batch) : batch[j] = l}}
           Old(l) == IF l \in DOMAIN h2s THEN h2s[l] ELSE {}
<1>1. DOMAIN h2s' = DOMAIN h2s \cup Range(batch)
      /\ \A l \in DOMAIN h2s \cup Range(batch) : h2s'[l] = Old(l) \cup New(l)
  BY DEF Indexed
<1>2. ASSUME NEW l, NEW i, Found(l, i) PROVE l \in DOMAIN h2s' /\ i \in h2s'[l]
  <2>1. l \in DOMAIN h2s /\ i \in h2s[l]
    BY <1>2 DEF Found
  <2>2. Old(l) = h2s[l]
    BY <2>1
  <2> HIDE DEF Old, New
  <2> QED BY <1>1, <2>1, <2>2
<1>3. ASSUME NEW i \in 1 .. Len(batch) PROVE batch[i] \in DOMAIN h2s' /\ size + i - 1 \in h2s'[batch[i]]
  <2>1. batch[i] \in Range(batch)
    BY DEF Range
  <2>2. size + i - 1 \in New(batch[i])
    OBVIOUS
  <2> HIDE DEF Old, New
  <2> QED BY <1>1, <2>1, <2>2
<1> QED BY <1>2, <1>3 DEF Found

\* What a step makes of the latest root.
LEMMA LatestStays ==
    ASSUME Stays
    PROVE  Latest' = Latest
BY DEF Stays, Latest

\* The first root commits to nothing, like the root that is not there.
LEMMA LatestFirst ==
    ASSUME StoreInv(store, currentSTH), DOMAIN store.sth = {},
           store' = StoreSignedLogRoot(store, InitRoot(currentSTH'))
    PROVE  Latest'.hash = << >> /\ Latest.hash = << >> /\ DOMAIN store.seq = {} /\ store'.seq = store.seq
<1>1. store = EmptyStore
  BY DEF StoreInv
<1>2. InitRoot(currentSTH').time = currentSTH' /\ InitRoot(currentSTH').hash = << >>
  BY DEF InitRoot
<1>3. store' = [seq |-> << >>, sth |-> ReplaceOrInsert(<< >>, currentSTH', InitRoot(currentSTH')),
                subtrees |-> << >>]
  BY <1>1, <1>2 DEF StoreSignedLogRoot, EmptyStore
<1>4. currentSTH' \in DOMAIN store'.sth /\ store'.sth[currentSTH'] = InitRoot(currentSTH')
  BY <1>3 DEF ReplaceOrInsert
<1>5. Latest' = InitRoot(currentSTH')
  BY <1>4 DEF Latest, Top
<1>6. Latest = NoRoot
  BY NoRootYet
<1>7. NoRoot.hash = << >> /\ DOMAIN store.seq = {} /\ store'.seq = store.seq
  BY <1>1, <1>3 DEF NoRoot, EmptyStore
<1> QED BY <1>2, <1>5, <1>6, <1>7

\* The root of a pass commits to its batch as well, and the batch's leaves are stored.
LEMMA LatestPass ==
    ASSUME StoreInv(store, currentSTH), DOMAIN store.sth # {}, now \in Nat,
           NEW batch \in Seq(Item), currentSTH' = now, store' = PassStore(store, Latest, batch, now)
    PROVE  /\ Latest'.hash = Latest.hash \o batch
           /\ Latest.size \in Nat
           /\ DOMAIN store'.seq = 0 .. Latest.size + Len(batch) - 1
           /\ \A i \in 0 .. Latest.size - 1 : store'.seq[i] = store.seq[i]
           /\ \A i \in 1 .. Len(batch) : store'.seq[Latest.size + i - 1] = batch[i]
<1>1. /\ DOMAIN store'.seq = 0 .. Latest.size + Len(batch) - 1
      /\ \A i \in 0 .. Latest.size - 1 : store'.seq[i] = store.seq[i]
      /\ \A i \in 1 .. Len(batch) : store'.seq[Latest.size + i - 1] = batch[i]
      /\ store'.sth = ReplaceOrInsert(store.sth, now, PassRoot(Latest, batch, now))
  BY PassFields DEF Latest
<1>2. currentSTH' \in DOMAIN store'.sth /\ store'.sth[currentSTH'] = PassRoot(Latest, batch, now)
  BY <1>1 DEF ReplaceOrInsert
<1>3. Latest' = PassRoot(Latest, batch, now)
  BY <1>2 DEF Latest, Top
<1>4. Latest'.hash = Latest.hash \o batch
  BY <1>3 DEF PassRoot
<1>5. IsRoot(Latest)
  BY NoRootYet
<1>6. Latest.size \in Nat
  BY <1>5 DEF IsRoot
<1> QED BY <1>1, <1>4, <1>6

\* A process that signs is the only one, and has signed after the step.
LEMMA SignsAlone ==
    ASSUME Types, Exclusive, \A q \in Proc : ProcInv(q), NEW p \in Proc, pc[p] = "sign"
    PROVE  /\ \A q \in Proc : pc[q] = "sign" => q = p
           /\ Done(p) => \A q \in Proc : pc'[q] # "sign"
<1>1. ASSUME NEW q \in Proc, pc[q] = "sign" PROVE q = p
  <2>1. p \in lock.writer /\ q \in lock.writer
    BY <1>1 DEF ProcInv, WriterInv
  <2> QED BY <2>1 DEF Exclusive
<1>2. pc \in [Proc -> Labels]
  BY DEF Types
<1>3. ASSUME Done(p), NEW q \in Proc PROVE pc'[q] # "sign"
  BY <1>1, <1>2, <1>3 DEF Done
<1> QED BY <1>1, <1>3

\* The second half of IntegrateBatch stores the root of a pass or drops its batch.
LEMMA SignsOrDrops ==
    ASSUME Types, NEW p \in Proc, ProcInv(p), StoreInv(store, currentSTH), SignAndStore(p)
    PROVE  /\ pc[p] = "sign" /\ Done(p) /\ UNCHANGED <<unseq, h2s>>
           /\ \/ acked' = acked /\ Signs(p) /\ DOMAIN store.sth # {} /\ currentSTH' = now
                 /\ store' = PassStore(store, Latest, tx[p].batch, now)
              \/ acked' = Dropped(tx[p].batch) /\ Stays
<1>1. pc[p] = "sign" /\ UNCHANGED <<unseq, h2s>> /\ WriterInv(p)
  BY DEF SignAndStore, ProcInv
<1>2. CASE StoreRoot(p) /\ acked' = acked
  <2>1. /\ p \in lock.writer /\ DOMAIN store.sth # {} /\ currentSTH' = now
        /\ store' = PassStore(store, Latest, tx[p].batch, now)
        /\ lock' = Unlock(lock, p) /\ Done(p)
    BY <1>1, <1>2, PassStored
  <2> QED BY <1>1, <1>2, <2>1 DEF Signs
<1>3. CASE Rollback(p) /\ acked' = Dropped(tx[p].batch) /\ UNCHANGED <<store, currentSTH>>
  BY <1>1, <1>3 DEF Rollback, Stays
<1> QED BY <1>2, <1>3 DEF SignAndStore

\* A step in which no process signs.
LEMMA OtherSteps ==
    ASSUME Types, DumpAlone, StoreInv(store, currentSTH), \A q \in Proc : ProcInv(q),
           [Next]_vars, SignersStay
    PROVE  /\ h2s' = h2s
           /\ \/ Stays
              \/ /\ DOMAIN store.sth = {} /\ \A q \in Proc : pc[q] # "sign"
                 /\ store' = StoreSignedLogRoot(store, InitRoot(currentSTH'))
           /\ \/ UNCHANGED <<unseq, acked>>
              \/ Stays /\ \E p \in Proc : QueueLeaves(p)
<1>1. pc \in [Proc -> Labels]
  BY DEF Types
<1>2. ASSUME NEW p \in Proc, UpdateSequencedLeaves(p) PROVE FALSE
  <2>1. pc[p] = "update_leaves" /\ pc'[p] = "sign"
    BY <1>1, <1>2 DEF UpdateSequencedLeaves
  <2> QED BY <2>1 DEF SignersStay
<1>3. ASSUME NEW p \in Proc, pc[p] = "sign", Done(p) PROVE FALSE
  <2>1. pc'[p] = "idle"
    BY <1>1, <1>3 DEF Done
  <2> QED BY <1>3, <2>1 DEF SignersStay
<1>4. ASSUME NEW p \in Proc, Signs(p)
      PROVE  /\ DOMAIN store.sth = {} /\ pc[p] \in {"init", "zero"}
             /\ store' = StoreSignedLogRoot(store, InitRoot(currentSTH'))
  BY <1>3, <1>4 DEF Signs
<1>5. ASSUME DOMAIN store.sth = {}, NEW q \in Proc PROVE pc[q] # "sign"
  BY <1>5, NoRootYet DEF ProcInv, WriterInv
<1>6. Stays \/ \E p \in Proc : Signs(p)
  BY StoreMoves DEF ProcInv
<1>7. \/ UNCHANGED <<unseq, acked, h2s>>
      \/ h2s' = h2s /\ \E p \in Proc : QueueLeaves(p)
  BY <1>2, <1>3, QueueMoves DEF Rollback
<1>8. ASSUME NEW p \in Proc, QueueLeaves(p) PROVE Stays
  <2>1. tx[p].store = store
    BY <1>8 DEF QueueLeaves, ProcInv, WriterInv, HasClone, Writes
  <2> QED BY <1>8, <2>1 DEF QueueLeaves, Commit, Stays
<1> QED BY <1>4, <1>5, <1>6, <1>7, <1>8

\* A step keeps every stored leaf in the map of hashes.
LEMMA IndicesKept ==
    ASSUME Types, Exclusive, DumpAlone, StoreInv(store, currentSTH), \A q \in Proc : ProcInv(q),
           Indices, [Next]_vars
    PROVE  Indices'
<1>1. pc \in [Proc -> Labels] /\ TxType /\ now \in Nat
  BY DEF Types, ClockType
<1>2. ASSUME NEW p \in Proc, UpdateSequencedLeaves(p) PROVE Indices'
  <2>1. /\ pc[p] = "update_leaves" /\ pc' = [pc EXCEPT ![p] = "sign"] /\ store' = store
        /\ currentSTH' = currentSTH /\ h2s' = Indexed(tx[p].root.size, tx[p].batch)
        /\ tx' = [tx EXCEPT ![p].store = Sequenced(@, tx[p].root.size, tx[p].batch)]
    BY <1>2 DEF UpdateSequencedLeaves
  <2>2. tx[p].root = Latest /\ Latest # NoRoot
    BY <2>1 DEF ProcInv, WriterInv, HasClone
  <2>3. tx[p].batch \in Seq(Item)
    BY <1>2, QueueRest
  <2>4. Latest.size \in Nat
    BY <2>2, NoRootYet DEF IsRoot
  <2>5. /\ \A l, i : Found(l, i) => Found(l, i)'
        /\ \A i \in 1 .. Len(tx[p].batch) :
              tx[p].batch[i] \in DOMAIN h2s' /\ Latest.size + i - 1 \in h2s'[tx[p].batch[i]]
    <3> DEFINE b == tx[p].batch
               z == Latest.size
    <3>1. h2s' = Indexed(z, b) /\ z \in Nat /\ b \in Seq(Item)
      BY <2>1, <2>2, <2>3, <2>4
    <3>2. PICK c, y : c = b /\ y = z
      OBVIOUS
    <3>3. /\ \A l, i : Found(l, i) => Found(l, i)'
          /\ \A i \in 1 .. Len(c) : c[i] \in DOMAIN h2s' /\ y + i - 1 \in h2s'[c[i]]
      BY <3>1, <3>2, IndexedGrows DEF Found
    <3> QED BY <3>2, <3>3
  <2>6. Latest' = Latest
    BY <2>1, LatestStays DEF Stays
  <2>7. \A q \in Proc : tx'[q].batch = tx[q].batch
    BY <1>1, <2>1 DEF TxType, Transaction
  <2>8. \A q \in Proc : pc'[q] = "sign" => q = p \/ pc[q] = "sign"
    BY <1>1, <2>1
  <2>9. ASSUME NEW i \in DOMAIN store.seq
        PROVE  store.seq[i] \in DOMAIN h2s' /\ i \in h2s'[store.seq[i]]
    <3>1. Found(store.seq[i], i)
      BY DEF Indices
    <3> QED BY <2>5, <3>1 DEF Found
  <2>10. ASSUME NEW q \in Proc, pc'[q] = "sign", NEW i \in 1 .. Len(tx'[q].batch)
         PROVE  tx'[q].batch[i] \in DOMAIN h2s' /\ Latest'.size + i - 1 \in h2s'[tx'[q].batch[i]]
    <3>1. CASE q = p
      BY <2>5, <2>6, <2>7, <2>10, <3>1
    <3>2. CASE pc[q] = "sign"
      <4>1. Found(tx[q].batch[i], Latest.size + i - 1)
        BY <2>7, <2>10, <3>2 DEF Indices
      <4> QED BY <2>5, <2>6, <2>7, <4>1 DEF Found
    <3> QED BY <2>8, <2>10, <3>1, <3>2
  <2> QED BY <2>1, <2>9, <2>10 DEF Indices, Found
<1>3. ASSUME NEW p \in Proc, SignAndStore(p) PROVE Indices'
  <2>1. /\ pc[p] = "sign" /\ Done(p) /\ UNCHANGED <<unseq, h2s>>
        /\ \/ acked' = acked /\ Signs(p) /\ DOMAIN store.sth # {} /\ currentSTH' = now
              /\ store' = PassStore(store, Latest, tx[p].batch, now)
           \/ acked' = Dropped(tx[p].batch) /\ Stays
    BY <1>3, SignsOrDrops
  <2>2. \A q \in Proc : pc'[q] # "sign"
    BY <2>1, SignsAlone
  <2>3. \A i \in DOMAIN store.seq : Found(store.seq[i], i)
    BY DEF Indices
  <2>4. \A l, i : Found(l, i) => Found(l, i)'
    BY <2>1 DEF Found
  <2>5. CASE Stays
    BY <2>2, <2>3, <2>4, <2>5 DEF Stays, Indices
  <2>6. CASE DOMAIN store.sth # {} /\ currentSTH' = now
              /\ store' = PassStore(store, Latest, tx[p].batch, now)
    <3> DEFINE b == tx[p].batch
    <3>1. b \in Seq(Item) /\ Latest # NoRoot
      BY <2>1 DEF ProcInv, WriterInv
    <3>2. /\ Latest.size \in Nat
          /\ DOMAIN store'.seq = 0 .. Latest.size + Len(b) - 1
          /\ \A i \in 0 .. Latest.size - 1 : store'.seq[i] = store.seq[i]
          /\ \A i \in 1 .. Len(b) : store'.seq[Latest.size + i - 1] = b[i]
      BY <1>1, <2>6, <3>1, LatestPass
    <3>3. \A i \in 1 .. Len(b) : Found(b[i], Latest.size + i - 1)
      BY <2>1 DEF Indices
    <3>4. DOMAIN store.seq = 0 .. Latest.size - 1
      BY DEF StoreInv, Latest
    <3> HIDE DEF b
    <3>5. ASSUME NEW i \in DOMAIN store'.seq PROVE Found(store'.seq[i], i)
      <4>0. i \in 0 .. Latest.size + Len(b) - 1 /\ Len(b) \in Nat
        BY <3>1, <3>2
      <4>1. CASE i \in 0 .. Latest.size - 1
        BY <2>3, <3>2, <3>4, <4>1
      <4>2. CASE i \notin 0 .. Latest.size - 1
        <5>1. PICK j \in 1 .. Len(b) : j = i - Latest.size + 1
          BY <3>2, <4>0, <4>2
        <5>2. i = Latest.size + j - 1
          BY <3>2, <4>0, <5>1
        <5> QED BY <3>2, <3>3, <5>2
      <4> QED BY <4>1, <4>2
    <3> QED BY <2>2, <2>4, <3>5 DEF Indices
  <2> QED BY <2>1, <2>5, <2>6
<1>4. CASE SignersStay
  <2>1. /\ h2s' = h2s
        /\ \/ Stays
           \/ /\ DOMAIN store.sth = {} /\ \A q \in Proc : pc[q] # "sign"
              /\ store' = StoreSignedLogRoot(store, InitRoot(currentSTH'))
    BY <1>4, OtherSteps
  <2>2. \A l, i : Found(l, i) => Found(l, i)'
    BY <2>1 DEF Found
  <2>3. CASE Stays
    <3>1. Latest' = Latest /\ store' = store
      BY <2>3, LatestStays DEF Stays
    <3> QED BY <1>4, <2>2, <3>1 DEF Indices, SignersStay
  <2>4. CASE /\ DOMAIN store.sth = {} /\ \A q \in Proc : pc[q] # "sign"
             /\ store' = StoreSignedLogRoot(store, InitRoot(currentSTH'))
    <3>1. DOMAIN store'.seq = {}
      BY <2>4, LatestFirst
    <3>2. \A q \in Proc : pc'[q] # "sign"
      BY <1>4, <2>4 DEF SignersStay
    <3> QED BY <3>1, <3>2 DEF Indices
  <2> QED BY <2>1, <2>3, <2>4
<1> QED BY <1>2, <1>3, <1>4, SignerMoves

\* Concatenation of sequences of leaves is associative.
LEMMA ConcatItems ==
    ASSUME NEW s \in Seq(Item), NEW t \in Seq(Item), NEW u \in Seq(Item)
    PROVE  (s \o t) \o u = s \o (t \o u)
BY ConcatAssociative

\* The first n elements of a queue have been taken.
RestOf(q, n, r) == Len(r) = Len(q) - n /\ \A i \in 1 .. Len(q) - n : r[i] = q[n + i]

\* The log, a batch and the rest of the queue are the log and the queue.
SameLine(h, b, r, q) ==
    (h \o b) \o r = (h \o << >>) \o q /\ Len(b) + Len(r) = Len(<< >>) + Len(q)

\* The leaves of a batch move from the queue into the batch.
LEMMA LineMoves ==
    ASSUME NEW h \in Seq(Item), NEW q \in Seq(Item), NEW b \in Seq(Item), NEW r \in Seq(Item),
           Len(b) \in 0 .. Len(q), b = SubSeq(q, 1, Len(b)), RestOf(q, Len(b), r)
    PROVE  SameLine(h, b, r, q)
<1> DEFINE n == Len(b)
<1>0. Len(r) = Len(q) - n /\ \A i \in 1 .. Len(q) - n : r[i] = q[n + i]
  BY DEF RestOf
<1>1. n \in 0 .. Len(q) /\ Len(q) \in Nat /\ Len(h) \in Nat
  OBVIOUS
<1>2. \A i \in 1 .. n : b[i] = q[i]
  <2>1. \A i \in 1 .. n : SubSeq(q, 1, n)[i] = q[i]
    BY <1>1, SubSeqProperties
  <2> QED BY <2>1
<1>3. h \o << >> = h /\ Len(<< >>) = 0
  OBVIOUS
<1>4. b \o r = q
  <2>1. Len(b \o r) = Len(q) /\ b \o r \in Seq(Item)
    BY <1>0, <1>1
  <2>2. ASSUME NEW i \in 1 .. Len(q) PROVE (b \o r)[i] = q[i]
    <3>1. CASE i \in 1 .. n
      BY <1>1, <1>2, <3>1
    <3>2. CASE i \notin 1 .. n
      <4>0. i - n \in 1 .. Len(q) - n
        <5> HIDE DEF n
        <5> QED BY <1>1, <3>2
      <4>1. PICK j \in 1 .. Len(q) - n : j = i - n
        BY <4>0
      <4>2. i = n + j
        BY <1>1, <4>1
      <4>3. (b \o r)[n + j] = r[j]
        BY <1>0, <1>1, <4>1
      <4> QED BY <1>0, <4>2, <4>3
    <3> QED BY <3>1, <3>2
  <2> QED BY <2>1, <2>2, SeqEqual
<1>5. (h \o b) \o r = h \o (b \o r)
  BY ConcatItems, Zenon
<1> QED BY <1>0, <1>1, <1>3, <1>4, <1>5 DEF SameLine

\* Appending to the last of two sequences.
LEMMA ConcatAppend ==
    ASSUME NEW s \in Seq(Item), NEW q \in Seq(Item), NEW leaf \in Item
    PROVE  s \o Append(q, leaf) = Append(s \o q, leaf)
<1>1. Append(q, leaf) = q \o <<leaf>> /\ Append(s \o q, leaf) = (s \o q) \o <<leaf>>
  BY AppendIsConcat
<1>2. <<leaf>> \in Seq(Item)
  OBVIOUS
<1> QED BY <1>1, <1>2, ConcatAssociative

\* A batch that has been integrated is no longer among the latest leaves.
LEMMA LineLess ==
    ASSUME NEW a \in Seq(Entry), NEW h \in Seq(Item), NEW b \in Seq(Item), NEW q \in Seq(Item),
           InLine(a, (h \o b) \o q, Len(b) + Len(q))
    PROVE  InLine(a, ((h \o b) \o << >>) \o q, Len(<< >>) + Len(q))
<1>1. (h \o b) \o << >> = h \o b /\ h \o b \in Seq(Item)
  OBVIOUS
<1> DEFINE n == Len(a)
           m == Len(b)
           k == Len(q)
           K == KeptOf(a)
           all == (h \o b) \o q
<1>2. n \in Nat /\ m \in Nat /\ k \in Nat /\ Len(<< >>) + k = k
  OBVIOUS
<1>3. m + k <= n /\ n - (m + k) + 1 .. n \subseteq K /\ Cardinality(K) = Len(all)
      /\ \A i \in K : a[i].leaf = all[Rank(K, i)]
  BY DEF InLine
<1> HIDE DEF n, m, k, K, all
<1>4. k <= n /\ n - k + 1 .. n \subseteq n - (m + k) + 1 .. n
  BY <1>2, <1>3
<1>5. InLine(a, all, k)
  BY <1>3, <1>4 DEF InLine, K, n
<1> QED BY <1>1, <1>2, <1>5 DEF all, k

\* A step keeps the log, the batch under way and the queue in the order of
\* acknowledgement.
LEMMA OrderKept ==
    ASSUME Types, Exclusive, DumpAlone, StoreInv(store, currentSTH), \A q \in Proc : ProcInv(q),
           OrderInv, [Next]_vars
    PROVE  OrderInv'
<1>1. pc \in [Proc -> Labels] /\ TxType /\ now \in Nat /\ unseq \in Seq(Item) /\ acked \in Seq(Entry)
  BY DEF Types, ClockType, QueueType, Entry
<1>2. Latest.hash \in Seq(Item)
  BY NoRootYet
<1>3. \A q \in Proc : pc[q] = "sign" => tx[q].batch \in Seq(Item)
  BY DEF ProcInv, WriterInv
<1>4. ASSUME NEW p \in Proc, UpdateSequencedLeaves(p) PROVE OrderInv'
  <2>1. /\ pc[p] = "update_leaves" /\ pc' = [pc EXCEPT ![p] = "sign"] /\ Stays /\ acked' = acked
        /\ tx' = [tx EXCEPT ![p].store = Sequenced(@, tx[p].root.size, tx[p].batch)]
    BY <1>4 DEF UpdateSequencedLeaves, Stays
  <2>2. \A q \in Proc : pc[q] # "sign"
    <3>1. p \in lock.writer
      BY <2>1 DEF ProcInv, WriterInv
    <3>2. ASSUME NEW q \in Proc, pc[q] = "sign" PROVE FALSE
      <4>1. q \in lock.writer
        BY <3>2 DEF ProcInv, WriterInv
      <4> QED BY <2>1, <3>1, <3>2, <4>1 DEF Exclusive
    <3> QED BY <3>2
  <2>3. InLine(acked, (Latest.hash \o << >>) \o unseq, Len(<< >>) + Len(unseq))
    BY <2>2 DEF OrderInv, Ordered
  <2>4. PICK b : b = tx[p].batch
    OBVIOUS
  <2>5. /\ Len(b) \in 0 .. Len(unseq) /\ b \in Seq(Item) /\ b = SubSeq(unseq, 1, Len(b))
        /\ unseq' \in Seq(Item) /\ Len(unseq') = Len(unseq) - Len(b)
        /\ \A i \in 1 .. Len(unseq) - Len(b) : unseq'[i] = unseq[Len(b) + i]
    BY <1>4, <2>4, QueueRest
  <2>6. (Latest.hash \o b) \o unseq' = (Latest.hash \o << >>) \o unseq
        /\ Len(b) + Len(unseq') = Len(<< >>) + Len(unseq)
    <3>1. PICK h, r : h = Latest.hash /\ r = unseq'
      OBVIOUS
    <3>2. /\ Len(b) \in 0 .. Len(unseq) /\ b \in Seq(Item) /\ b = SubSeq(unseq, 1, Len(b))
          /\ r \in Seq(Item) /\ h \in Seq(Item)
      BY <1>2, <2>5, <3>1
    <3>3. RestOf(unseq, Len(b), r)
      BY <2>5, <3>1 DEF RestOf
    <3>4. SameLine(h, b, r, unseq)
      BY <1>1, <3>2, <3>3, LineMoves
    <3> QED BY <3>1, <3>4 DEF SameLine
  <2>7. InLine(acked', (Latest.hash \o b) \o unseq', Len(b) + Len(unseq'))
    BY <2>1, <2>3, <2>6
  <2>8. Latest' = Latest /\ tx'[p].batch = b
    BY <1>1, <2>1, <2>4, LatestStays DEF TxType, Transaction
  <2>9. pc'[p] = "sign" /\ \A q \in Proc : pc'[q] = "sign" => q = p
    BY <1>1, <2>1, <2>2
  <2> QED BY <2>7, <2>8, <2>9 DEF OrderInv, Ordered
<1>5. ASSUME NEW p \in Proc, SignAndStore(p) PROVE OrderInv'
  <2>1. /\ pc[p] = "sign" /\ Done(p) /\ unseq' = unseq
        /\ \/ acked' = acked /\ Signs(p) /\ DOMAIN store.sth # {} /\ currentSTH' = now
              /\ store' = PassStore(store, Latest, tx[p].batch, now)
           \/ acked' = Dropped(tx[p].batch) /\ Stays
    BY <1>5, SignsOrDrops
  <2>2. \A q \in Proc : pc'[q] # "sign"
    BY <2>1, SignsAlone
  <2>3. PICK b : b = tx[p].batch
    OBVIOUS
  <2>4. b \in Seq(Item) /\ InLine(acked, (Latest.hash \o b) \o unseq, Len(b) + Len(unseq))
    BY <1>3, <2>1, <2>3 DEF OrderInv, Ordered
  <2>5. InLine(acked', (Latest'.hash \o << >>) \o unseq, Len(<< >>) + Len(unseq))
    <3>1. CASE acked' = acked /\ DOMAIN store.sth # {} /\ currentSTH' = now
               /\ store' = PassStore(store, Latest, b, now)
      <4>1. Latest'.hash = Latest.hash \o b
        BY <1>1, <2>4, <3>1, LatestPass
      <4>2. InLine(acked, ((Latest.hash \o b) \o << >>) \o unseq, Len(<< >>) + Len(unseq))
        BY <1>1, <1>2, <2>4, LineLess
      <4> QED BY <3>1, <4>1, <4>2
    <3>2. CASE acked' = Dropped(b) /\ Stays
      <4>1. /\ acked' \in Seq(Entry) /\ Len(acked') = Len(acked)
            /\ \A i \in 1 .. Len(acked) :
                  /\ acked'[i].leaf = acked[i].leaf
                  /\ acked'[i].dropped
                        = (acked[i].dropped \/ i \in Len(acked) - Len(unseq) - Len(b) + 1
                                                       .. Len(acked) - Len(unseq))
        BY <3>2, DroppedType DEF Entry
      <4>2. InLine(acked', (Latest.hash \o << >>) \o unseq, Len(<< >>) + Len(unseq))
        BY <1>1, <1>2, <2>4, <4>1, LineDrop
      <4>3. Latest' = Latest
        BY <3>2, LatestStays
      <4> QED BY <4>2, <4>3
    <3> QED BY <2>1, <2>3, <3>1, <3>2
  <2> QED BY <2>1, <2>2, <2>5 DEF OrderInv, Ordered
<1>6. CASE SignersStay
  <2>1. /\ \/ Stays
           \/ /\ DOMAIN store.sth = {} /\ \A q \in Proc : pc[q] # "sign"
              /\ store' = StoreSignedLogRoot(store, InitRoot(currentSTH'))
        /\ \/ UNCHANGED <<unseq, acked>>
           \/ Stays /\ \E p \in Proc : QueueLeaves(p)
    BY <1>6, OtherSteps
  <2>2. Latest'.hash = Latest.hash
    BY <2>1, LatestStays, LatestFirst
  <2>3. ASSUME NEW b, b \in Seq(Item), Ordered(b)
        PROVE  InLine(acked', (Latest'.hash \o b) \o unseq', Len(b) + Len(unseq'))
    <3>1. CASE UNCHANGED <<unseq, acked>>
      BY <2>2, <2>3, <3>1 DEF Ordered
    <3>2. ASSUME NEW leaf \in Item, unseq' = Append(unseq, leaf),
                 acked' = Append(acked, [leaf |-> leaf, dropped |-> FALSE])
          PROVE  InLine(acked', (Latest'.hash \o b) \o unseq', Len(b) + Len(unseq'))
      <4> DEFINE all == (Latest.hash \o b) \o unseq
                 late == Len(b) + Len(unseq)
      <4>1. all \in Seq(Item) /\ late \in Nat /\ InLine(acked, all, late)
        BY <1>1, <1>2, <2>3 DEF Ordered
      <4>2. PICK e : e = [leaf |-> leaf, dropped |-> FALSE]
        OBVIOUS
      <4>3. (Latest.hash \o b) \o unseq' = Append(all, leaf)
        <5>1. Latest.hash \o b \in Seq(Item)
          BY <1>2, <2>3
        <5> QED BY <1>1, <3>2, <5>1, ConcatAppend
      <4>4. Len(b) + Len(unseq') = late + 1
        BY <1>1, <2>3, <3>2
      <4> HIDE DEF all, late
      <4>5. InLine(Append(acked, e), Append(all, leaf), late + 1)
        BY <1>1, <4>1, <4>2, LineAppend
      <4> QED BY <2>2, <3>2, <4>2, <4>3, <4>4, <4>5
    <3> QED BY <2>1, <3>1, <3>2, LeafIsItem
  <2>4. ASSUME NEW q \in Proc, pc'[q] = "sign" PROVE Ordered(tx[q].batch)'
    <3>1. pc[q] = "sign" /\ tx'[q] = tx[q]
      BY <1>6, <2>4 DEF SignersStay
    <3>2. PICK b : b = tx[q].batch
      OBVIOUS
    <3>3. b \in Seq(Item) /\ Ordered(b)
      BY <1>3, <3>1, <3>2 DEF OrderInv
    <3> QED BY <2>3, <3>1, <3>2, <3>3 DEF Ordered
  <2>5. ASSUME \A q \in Proc : pc'[q] # "sign" PROVE Ordered(<< >>)'
    <3>1. Ordered(<< >>) /\ << >> \in Seq(Item)
      BY <1>6, <2>5 DEF OrderInv, SignersStay
    <3> QED BY <2>3, <3>1 DEF Ordered
  <2> QED BY <2>4, <2>5 DEF OrderInv
<1> QED BY <1>4, <1>5, <1>6, SignerMoves

-------------------------------------------------------------------------------
\* The invariant and the theorems.

\* The invariant holds initially.
LEMMA MemoryStart ==
    ASSUME Init
    PROVE  MemoryInv
<1>1. ClockType
  <2>1. trees = 0 /\ now = 1 /\ currentSTH = 0 /\ faults = 0
    BY DEF Init
  <2>2. MaxTime \in Nat \ {0} /\ MaxFaults \in Nat
    BY SizesAssumption
  <2> QED BY <2>1, <2>2 DEF ClockType
<1>2. TxType
  BY DEF Init, TxType, Transaction, NoTX
<1>3. QueueType
  <2>1. unseq = << >> /\ acked = << >>
    BY DEF Init
  <2>2. \A S : << >> \in Seq(S)
    BY EmptySeq
  <2> QED BY <2>1, <2>2 DEF QueueType
<1>4. DumpType
  <2>1. CASE dump = NoDump
    BY <2>1 DEF NoDump, DumpType
  <2>2. ASSUME NEW size \in DumpSizes, NEW batch \in DumpBatches,
               dump = [NoDump EXCEPT !.size = size, !.batch = batch, !.step = "start"]
        PROVE  DumpType
    BY <2>2 DEF NoDump, DumpType
  <2> QED BY <2>1, <2>2 DEF Init
<1>5. pc \in [Proc -> Labels] /\ mu \in Mutexes /\ lock \in Mutexes /\ \A p \in Proc : pc[p] = "idle"
  BY DEF Init, Labels, Mutexes, Free
<1>6. Exclusive
  BY DEF Init, Exclusive, Free
<1>7. store = EmptyStore /\ currentSTH = 0
  BY DEF Init
<1>8. DOMAIN store.sth = {} /\ DOMAIN store.seq = {} /\ DOMAIN store.subtrees = {}
  BY <1>7 DEF EmptyStore
<1>9. Latest = NoRoot
  BY <1>8 DEF Latest, Top
<1>10. DumpAlone
  <2>1. Driver \in Proc /\ lock = Free
    BY DEF Proc, Init
  <2> QED BY <1>5, <1>7, <1>8, <2>1 DEF DumpAlone
<1>11. StoreInv(store, currentSTH)
  <2>1. Top(store, currentSTH).size = -1 /\ Top(store, currentSTH).rev = -1
    BY <1>9 DEF Latest, NoRoot
  <2>2. store = [seq |-> store.seq, sth |-> store.sth, subtrees |-> store.subtrees]
    BY <1>7 DEF EmptyStore
  <2>3. 0 .. -1 - 1 = {} /\ 0 .. -1 = {}
    OBVIOUS
  <2> QED BY <1>7, <1>8, <2>1, <2>2, <2>3 DEF StoreInv
<1>12. \A p \in Proc : ReaderInv(p) /\ WriterInv(p)
  BY <1>5 DEF ReaderInv, WriterInv, Writes
<1>13. Indices
  BY <1>5, <1>8 DEF Indices
<1>14. OrderInv
  <2>1. acked = << >> /\ unseq = << >> /\ Latest.hash = << >>
    BY <1>9 DEF Init, NoRoot
  <2>2. KeptOf(<< >>) = {}
    BY DEF KeptOf
  <2>3. (<< >> \o << >>) \o << >> = << >> /\ Len(<< >>) = 0 /\ 0 + 0 = 0
    OBVIOUS
  <2>4. 0 - 0 + 1 .. 0 = {}
    OBVIOUS
  <2>5. InLine(<< >>, << >>, 0)
    BY <2>2, <2>3, <2>4, FS_EmptySet DEF InLine
  <2>6. Ordered(<< >>)
    BY <2>1, <2>3, <2>5 DEF Ordered
  <2> QED BY <1>5, <2>6 DEF OrderInv
<1>15. Types
  BY <1>1, <1>2, <1>3, <1>4, <1>5 DEF Types
<1> QED BY <1>6, <1>10, <1>11, <1>12, <1>13, <1>14, <1>15 DEF MemoryInv

\* Every step keeps the invariant.
LEMMA MemoryStep ==
    ASSUME MemoryInv, [Next]_vars
    PROVE  MemoryInv'
<1>1. /\ Types /\ Exclusive /\ DumpAlone /\ StoreInv(store, currentSTH)
      /\ \A p \in Proc : ReaderInv(p) /\ WriterInv(p)
      /\ Indices /\ OrderInv
  BY DEF MemoryInv
<1>2. \A p \in Proc : ProcInv(p)
  BY <1>1 DEF ProcInv
<1>3. Stays \/ \E p \in Proc : Signs(p)
  BY <1>1, StoreMoves
<1>4. Types'
  BY <1>1, <1>2, TypesKept
<1>5. Exclusive'
  BY <1>1, ExclusiveKept
<1>6. DumpAlone'
  BY <1>1, <1>3, DumpAloneKept
<1>7. StoreInv(store, currentSTH)'
  BY <1>1, <1>3, StoreKept
<1>8. \A p \in Proc : ProcInv(p)'
  BY <1>1, <1>2, ProcsKept
<1>9. Indices'
  BY <1>1, <1>2, IndicesKept
<1>10. OrderInv'
  BY <1>1, <1>2, OrderKept
<1> QED BY <1>4, <1>5, <1>6, <1>7, <1>8, <1>9, <1>10 DEF MemoryInv, ProcInv

\* A backed root is what GetLeavesByRange and getSubtrees return for it.
LEMMA BacksAgrees ==
    ASSUME NEW s, NEW r, Backs(s, r)
    PROVE  Agrees(s, r)
<1>1. r.hash \in Seq(Item) /\ r.size = Len(r.hash) /\ r.size \in Nat
  BY DEF Backs, IsRoot
<1> DEFINE n == r.size
           top == 0 + n - 1
<1>2. top = n - 1 /\ top \in Int /\ 0 <= top + 1 /\ top - 0 + 1 = n
  BY <1>1
<1>3. DOMAIN s.seq \cap 0 .. top = 0 .. top
  <2>1. ASSUME NEW i \in 0 .. top PROVE i \in DOMAIN s.seq
    <3>1. i + 1 \in 1 .. r.size /\ i + 1 - 1 = i
      BY <1>1, <1>2
    <3> QED BY <3>1 DEF Backs
  <2> QED BY <2>1
<1>4. GetLeavesByRange(s, 0, n) = Picked(s.seq, 0 .. top)
  BY <1>3 DEF GetLeavesByRange
<1> HIDE DEF top
<1>5. Picked(s.seq, 0 .. top) = [i \in 1 .. top - 0 + 1 |-> s.seq[0 + i - 1]]
  BY <1>2, PickedInterval
<1>6. [i \in 1 .. n |-> s.seq[0 + i - 1]] = r.hash
  <2>1. ASSUME NEW i \in 1 .. n PROVE s.seq[0 + i - 1] = r.hash[i]
    <3>1. 0 + i - 1 = i - 1
      BY <1>1
    <3> QED BY <3>1 DEF Backs
  <2>2. r.hash = [i \in 1 .. n |-> r.hash[i]]
    BY <1>1
  <2> QED BY <2>1, <2>2
<1>7. GetLeavesByRange(s, 0, r.size) = r.hash
  BY <1>2, <1>4, <1>5, <1>6
<1> QED BY <1>7 DEF Agrees, Backs

\* The invariant implies that the store agrees with its roots.
LEMMA MemoryAgrees ==
    ASSUME MemoryInv
    PROVE  StoreAgrees
<1>1. /\ Types /\ Exclusive /\ StoreInv(store, currentSTH)
      /\ \A p \in Proc : ReaderInv(p) /\ WriterInv(p)
      /\ Indices
  BY DEF MemoryInv
<1>2. TypeOK
  <2>1. trees \in Nat /\ currentSTH \in 0 .. MaxTime /\ faults \in 0 .. MaxFaults
    <3>1. now \in 1 .. MaxTime /\ currentSTH \in 0 .. now
      BY <1>1 DEF Types, ClockType
    <3>2. currentSTH \in 0 .. MaxTime
      BY <3>1, SizesAssumption
    <3> QED BY <1>1, <3>2 DEF Types, ClockType
  <2>2. unseq \in Seq(Item)
    BY <1>1 DEF Types, QueueType
  <2>3. mu.waiting \cup mu.readers \cup lock.waiting \cup lock.readers \subseteq Proc
    BY <1>1 DEF Types, Mutexes
  <2>4. Cardinality(lock.writer) <= 1
    <3>1. CASE lock.writer = {}
      BY <3>1, FS_EmptySet
    <3>2. CASE lock.writer # {}
      <4>1. PICK p \in lock.writer : TRUE
        BY <3>2
      <4>2. lock.writer = {p}
        BY <1>1, <4>1 DEF Exclusive
      <4> QED BY <4>2, FS_Singleton
    <3> QED BY <3>1, <3>2
  <2> QED BY <2>1, <2>2, <2>3, <2>4 DEF TypeOK
<1>3. IndexedByHash
  BY <1>1 DEF Indices, Found, IndexedByHash
<1>4. \A t \in DOMAIN store.sth : Backs(store, store.sth[t])
  BY <1>1 DEF StoreInv
<1>5. \A t \in DOMAIN store.sth : Agrees(store, store.sth[t])
  BY <1>4, BacksAgrees
<1>6. ASSUME NEW p \in Proc, pc[p] = "in_read" PROVE Agrees(tx[p].store, tx[p].root)
  <2>1. tx[p].store = store /\ tx[p].root = Latest /\ Latest # NoRoot
    BY <1>1, <1>6 DEF ReaderInv, HasClone
  <2>2. currentSTH \in DOMAIN store.sth /\ Latest = store.sth[currentSTH]
    BY <2>1 DEF Latest, Top
  <2> QED BY <1>5, <2>1, <2>2
<1>7. store.sth # << >> => currentSTH \in DOMAIN store.sth
  BY <1>1 DEF StoreInv, EmptyStore
<1> QED BY <1>2, <1>3, <1>5, <1>6, <1>7 DEF StoreAgrees

\* The invariant implies that leaves are in order: the elements of the kept places
\* have the ranks 1, 2, ..., and their leaves are those of the log and the queue.
LEMMA MemoryInOrder ==
    ASSUME MemoryInv
    PROVE  InOrder
<1> DEFINE Kept == Picked(acked, KeptOf(acked))
<1> SUFFICES ASSUME lock.writer = {}
             PROVE  [i \in 1 .. Len(Kept) |-> Kept[i].leaf] = fetchLatestRoot(store).hash \o unseq
  <2>1. (1 .. Len(acked)) \ DroppedPlaces = KeptOf(acked)
    BY DEF DroppedPlaces, KeptOf
  <2>2. AckedWithout(DroppedPlaces) = [i \in 1 .. Len(Kept) |-> Kept[i].leaf]
    BY <2>1 DEF AckedWithout
  <2> HIDE DEF Kept
  <2> QED BY <2>2 DEF InOrder
<1>1. \A p \in Proc : pc[p] # "sign"
  BY DEF MemoryInv, WriterInv
<1>2. Latest.hash \in Seq(Item) /\ unseq \in Seq(Item) /\ acked \in Seq(Entry)
  BY NoRootYet DEF MemoryInv, Types, QueueType, Entry
<1>3. InLine(acked, (Latest.hash \o << >>) \o unseq, Len(<< >>) + Len(unseq))
  BY <1>1 DEF MemoryInv, OrderInv, Ordered
<1> DEFINE all == Latest.hash \o unseq
           K == KeptOf(acked)
<1>4. (Latest.hash \o << >>) \o unseq = all /\ all \in Seq(Item)
  BY <1>2
<1>5. Cardinality(K) = Len(all) /\ \A i \in K : acked[i].leaf = all[Rank(K, i)]
  BY <1>3, <1>4 DEF InLine
<1>6. K \in SUBSET (1 .. Len(acked)) /\ Len(acked) \in Nat
  BY <1>2 DEF KeptOf
<1>7. Kept = [i \in 1 .. Cardinality(K) |-> acked[CHOOSE k \in K : Rank(K, k) = i]]
  BY DEF Picked
<1> HIDE DEF K, all, Kept
<1>8. Len(all) \in Nat /\ all = [i \in 1 .. Len(all) |-> all[i]]
  BY <1>4
<1>9. Len(Kept) = Len(all)
  BY <1>5, <1>7, <1>8
<1>10. ASSUME NEW i \in 1 .. Len(all) PROVE Kept[i].leaf = all[i]
  <2>1. \E k \in K : Rank(K, k) = i
    <3>1. PICK n : n = Len(acked)
      OBVIOUS
    <3>2. n \in Nat /\ K \in SUBSET (1 .. n) /\ i \in 1 .. Cardinality(K)
      BY <1>5, <1>6, <1>10, <3>1
    <3> QED BY <3>2, RankOnto
  <2> DEFINE c == CHOOSE k \in K : Rank(K, k) = i
  <2>2. c \in K /\ Rank(K, c) = i
    BY <2>1, Zenon
  <2>3. Kept[i] = acked[c]
    BY <1>5, <1>7
  <2> HIDE DEF c
  <2> QED BY <1>5, <2>2, <2>3
<1>11. [i \in 1 .. Len(Kept) |-> Kept[i].leaf] = all
  BY <1>8, <1>9, <1>10
<1> QED BY <1>11, LatestIsFetched DEF all

\* The inductive invariant holds in every reachable state.
LEMMA MemoryInvariant == Spec => []MemoryInv
<1>1. Init => MemoryInv
  BY MemoryStart
<1>2. MemoryInv /\ [Next]_vars => MemoryInv'
  BY MemoryStep
<1> QED BY <1>1, <1>2, PTL DEF Spec

\* In every reachable state, for any number of frontends, sequencers, leaves, calls and
\* failed signatures, each stored root is backed by the leaves and the nodes of the tree,
\* an open reader's clone is too, and every stored leaf is in the map of hashes
\* (readOnlyLogTX, Commit and UpdateSequencedLeaves in storage/memory).
THEOREM StoreAlwaysAgrees == Spec => []StoreAgrees
<1>1. MemoryInv => StoreAgrees
  BY MemoryAgrees
<1> QED BY <1>1, MemoryInvariant, PTL

\* In every reachable state in which nobody holds the lock, the log followed by the queue
\* is what was acknowledged, in that order and once each; only leaves that were in the
\* batch of a pass whose signature failed may be missing (QueueLeaves, DequeueLeaves,
\* UpdateSequencedLeaves, Rollback).
THEOREM LeavesStayInOrder == Spec => []InOrder
<1>1. MemoryInv => InOrder
  BY MemoryInOrder
<1> QED BY <1>1, MemoryInvariant, PTL
===============================================================================
