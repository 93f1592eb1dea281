------------------------------ MODULE MapProofs --------------------------------
(***************************************************************************)
(* Proofs about MapSystem: with any number of writers, requests and failures *)
(* the leaves and the revisions of a map are those of the requests that were *)
(* published.  The Merkle nodes play no part: a request publishes its leaves *)
(* with its root, and the keys of table MapHead decide.                      *)
(***************************************************************************)
EXTENDS FunctionTheorems, MapSystem, FiniteSetTheorems, SequenceTheorems, TLAPS

Stored == 1..Len(history)

\* The positions of the leaves that a request inserts.
Inserted(leaves) == {i \in 1..Len(leaves) : Inserts(leaves[i])}

SetOnce(leaves, done) == \A i, j \in done : leaves[i].index = leaves[j].index => i = j

Row(l, rev) ==
    MapLeafRow(MapLeaf(l.index, l.value, HashLeaf(strategy, l.index, l.value), l.extra), rev)

\* One of the stored roots has the highest timestamp, no two have one revision, and
\* unless a root has revision -1 the revisions are numbered; with clocks that agree
\* the timestamps are numbered too.
RootsNumbered ==
    /\ db.MapHead = {history[n].root : n \in Stored}
    /\ \A n \in Stored :
        history[n].root.ts \in Nat /\ history[n].root.rev \in Int /\ history[n].root.rev >= -1
    /\ synced => \A n \in Stored : history[n].root.ts = n
    /\ Stored # {} => \E n \in Stored : \A k \in Stored : history[k].root.ts <= history[n].root.ts
    /\ \A m, n \in Stored : history[m].root.rev = history[n].root.rev => m = n
    /\ -1 \notin Revisions => \A n \in Stored : history[n].root.rev = n - 1

\* A request that was published has set each of its indices once, and the rows of
\* table MapLeaf are those of the published requests.
LeavesNumbered ==
    /\ \A n \in Stored :
        LET leaves == history[n].leaves
        IN  /\ Len(leaves) \in Nat
            /\ SetOnce(leaves, Inserted(leaves))
            /\ \A i \in Inserted(leaves) : Row(leaves[i], history[n].root.rev) \in db.MapLeaf
    /\ \A r \in db.MapLeaf : \E n \in Stored : \E i \in Inserted(history[n].leaves) :
           r = Row(history[n].leaves[i], history[n].root.rev)

\* What a request in progress has inserted so far.
Done(r) ==
    {i \in Inserted(r.leaves) : i < r.next \/ (i = r.next /\ r.op = "send")}

RequestInv(w) ==
    LET r == req[w]
    IN  r.op \in {"insert", "send", "wait"} =>
          /\ r = [op |-> r.op, leaves |-> r.leaves, meta |-> r.meta, next |-> r.next,
                  rev |-> r.rev, rows |-> r.rows]
          /\ Len(r.leaves) \in Nat /\ r.next \in Nat \ {0}
          /\ r.op = "wait" => r.next > Len(r.leaves)
          /\ r.rev \in Int /\ r.rev >= -1
          /\ -1 \notin Revisions => r.rev <= Len(history)
          /\ r.rows = {Row(r.leaves[i], r.rev) : i \in Done(r)}
          /\ SetOnce(r.leaves, Done(r))

\* The parts of the state that are records and sequences are.
Shapes ==
    /\ DOMAIN req = Writer
    /\ db = [Subtree |-> db.Subtree, MapLeaf |-> db.MapLeaf, MapHead |-> db.MapHead]
    /\ Len(history) \in Nat /\ history = [n \in 1..Len(history) |-> history[n]]

\* What clients send are sequences.
ClientInv ==
    /\ mapper = [pc |-> mapper.pc, seq |-> mapper.seq, domains |-> mapper.domains, empty |-> mapper.empty]
    /\ DOMAIN mapper.domains \subseteq Domains
    /\ test = [run |-> test.run, set |-> test.set, failed |-> test.failed]
    /\ test.run \in DOMAIN TestBatches /\ test.set \in Nat

HistoryInv ==
    /\ Shapes /\ ClientInv
    /\ RootsNumbered /\ LeavesNumbered
    /\ \A w \in Writer : RequestInv(w)

-----------------------------------------------------------------------------
\* Sequences.

LEMMA LenOf ==
    ASSUME NEW n \in Nat, NEW s, s = [i \in 1..n |-> s[i]]
    PROVE  Len(s) = n
<1> DEFINE S == {s[i] : i \in 1..n}
<1>1. s \in [1..n -> S]
  OBVIOUS
<1>2. s \in Seq(S)
  BY <1>1
<1> QED BY <1>1, <1>2

LEMMA AppendAny ==
    ASSUME NEW s, Len(s) \in Nat, s = [i \in 1..Len(s) |-> s[i]], NEW e, NEW t, t = Append(s, e)
    PROVE  /\ Len(t) = Len(s) + 1
           /\ t = [i \in 1..Len(t) |-> t[i]]
           /\ \A i \in 1..Len(s) : t[i] = s[i]
           /\ t[Len(s) + 1] = e
<1> DEFINE S == {s[i] : i \in 1..Len(s)} \cup {e}
<1>1. s \in [1..Len(s) -> S]
  OBVIOUS
<1>2. s \in Seq(S) /\ e \in S
  BY <1>1
<1> HIDE DEF S
<1>3. t \in Seq(S) /\ Len(t) = Len(s) + 1
  BY <1>2
<1>4. /\ \A i \in 1..Len(s) : t[i] = s[i]
      /\ t[Len(s) + 1] = e
  BY <1>2
<1>5. t = [i \in 1..Len(t) |-> t[i]]
  <2>1. t \in [1..Len(t) -> S]
    BY <1>3, LenProperties
  <2> QED BY <2>1
<1> QED BY <1>3, <1>4, <1>5

-----------------------------------------------------------------------------
\* Requests and tables.

\* The latest root is one of those stored, and with clocks that agree the last one.
LEMMA LatestRoot ==
    ASSUME Shapes, RootsNumbered
    PROVE  /\ Len(history) = 0 <=> db.MapHead = {}
           /\ Len(history) # 0 => \E n \in Stored : LatestSignedMapRoot(db) = history[n].root
           /\ Len(history) = 0 => LatestSignedMapRoot(db) = NoRoot
           /\ synced /\ Len(history) # 0 => LatestSignedMapRoot(db) = history[Len(history)].root
           /\ LatestSignedMapRoot(db).ts \in Nat
           /\ synced => LatestSignedMapRoot(db).ts = Len(history)
<1>1. Len(history) \in Nat
  BY DEF Shapes
<1>2. CASE Len(history) = 0
  <2>1. db.MapHead = {}
    BY <1>2 DEF RootsNumbered, Stored
  <2> QED BY <1>2, <2>1 DEF LatestSignedMapRoot, NoRoot, SignedMapRoot
<1>3. CASE Len(history) # 0
  <2> DEFINE latest == LatestSignedMapRoot(db)
  <2>1. Len(history) \in Stored
    BY <1>1, <1>3 DEF Stored
  <2>2. db.MapHead = {history[n].root : n \in Stored} /\ db.MapHead # {}
    BY <2>1 DEF RootsNumbered
  <2>3. \E r \in db.MapHead : \A q \in db.MapHead : q.ts <= r.ts
    <3>1. PICK n \in Stored : \A k \in Stored : history[k].root.ts <= history[n].root.ts
      BY <2>1 DEF RootsNumbered
    <3> QED BY <2>2, <3>1
  <2>4. latest = CHOOSE r \in db.MapHead : \A q \in db.MapHead : q.ts <= r.ts
    BY <2>2 DEF LatestSignedMapRoot
  <2>5. latest \in db.MapHead /\ \A q \in db.MapHead : q.ts <= latest.ts
    BY <2>3, <2>4
  <2>6. PICK n \in Stored : latest = history[n].root
    BY <2>2, <2>5
  <2>7. latest.ts \in Nat
    BY <2>6 DEF RootsNumbered
  <2>8. ASSUME synced PROVE latest = history[Len(history)].root /\ latest.ts = Len(history)
    <3>1. latest.ts = n /\ history[Len(history)].root.ts = Len(history)
      BY <2>1, <2>6, <2>8 DEF RootsNumbered
    <3>2. Len(history) <= n
      BY <2>1, <2>2, <2>5, <3>1
    <3>3. n = Len(history)
      BY <1>1, <3>2 DEF Stored
    <3> QED BY <2>6, <3>1, <3>3
  <2> QED BY <1>3, <2>2, <2>6, <2>7, <2>8
<1> QED BY <1>2, <1>3

\* A request writes at a revision behind one that it has read.
LEMMA WriteRevisionIs ==
    ASSUME Shapes, RootsNumbered
    PROVE  /\ WriteRevision(db) \in Int /\ WriteRevision(db) >= -1
           /\ -1 \notin Revisions => WriteRevision(db) <= Len(history)
<1>1. Len(history) \in Nat
  BY DEF Shapes
<1>2. CASE Len(history) = 0
  <2>1. WriteRevision(db) = -1
    BY <1>2, LatestRoot DEF WriteRevision
  <2> QED BY <1>2, <2>1
<1>3. CASE Len(history) # 0
  <2>1. PICK n \in Stored : LatestSignedMapRoot(db) = history[n].root
    BY <1>3, LatestRoot
  <2> DEFINE rev == history[n].root.rev
  <2>2. WriteRevision(db) = rev + 1
    BY <1>3, <2>1, LatestRoot DEF WriteRevision
  <2>3. rev \in Int /\ rev >= -1 /\ (-1 \notin Revisions => rev = n - 1)
    BY <2>1 DEF RootsNumbered
  <2>4. n \in Nat /\ n <= Len(history)
    BY <1>1, <2>1 DEF Stored
  <2> QED BY <1>1, <2>2, <2>3, <2>4
<1> QED BY <1>2, <1>3

\* A request that goes on as it was keeps its invariant when roots appear.
LEMMA RequestKept ==
    ASSUME Shapes, NEW v \in Writer, RequestInv(v), req'[v] = req[v], strategy' = strategy,
           Len(history') \in Nat, Len(history') >= Len(history),
           Revisions \subseteq Revisions'
    PROVE  RequestInv(v)'
<1>1. Len(history) \in Nat
  BY DEF Shapes
<1>2. SUFFICES ASSUME req[v].op \in {"insert", "send", "wait"} PROVE RequestInv(v)'
  BY DEF RequestInv
<1>3. req[v].rev \in Int /\ (-1 \notin Revisions => req[v].rev <= Len(history))
  BY <1>2 DEF RequestInv
<1>4. -1 \notin Revisions' => req[v].rev <= Len(history')
  BY <1>1, <1>3
<1> QED BY <1>2, <1>4 DEF RequestInv, Row

\* A step that stores no root and no leaf.
LEMMA QuietStep ==
    ASSUME HistoryInv, strategy' = strategy /\ synced' = synced, history' = history, DOMAIN req' = Writer,
           db' = [Subtree |-> db'.Subtree, MapLeaf |-> db.MapLeaf, MapHead |-> db.MapHead],
           ClientInv',
           \A v \in Writer : req'[v] = req[v] \/ RequestInv(v)'
    PROVE  HistoryInv'
<1>1. Shapes /\ RootsNumbered /\ LeavesNumbered /\ \A v \in Writer : RequestInv(v)
  BY DEF HistoryInv
<1>2. db'.MapHead = db.MapHead /\ db'.MapLeaf = db.MapLeaf
  OBVIOUS
<1>3. Shapes'
  BY <1>1, <1>2 DEF Shapes
<1>4. Revisions' = Revisions
  BY <1>2 DEF Revisions
<1>5. RootsNumbered'
  BY <1>1, <1>2, <1>4 DEF RootsNumbered, Stored
<1>6. LeavesNumbered'
  BY <1>1, <1>2 DEF LeavesNumbered, Stored, Row
<1>7. ASSUME NEW v \in Writer PROVE RequestInv(v)'
  <2>1. Len(history') \in Nat /\ Len(history') >= Len(history)
    BY <1>1 DEF Shapes
  <2>2. CASE req'[v] = req[v]
    BY <1>1, <1>4, <2>1, <2>2, RequestKept
  <2> QED BY <2>2
<1> QED BY <1>3, <1>5, <1>6, <1>7 DEF HistoryInv

\* A root is stored, with the leaves of its request.
Added(root, leaves) ==
    /\ Stored' = Stored \cup {Len(history) + 1}
    /\ \A n \in Stored : history'[n] = history[n]
    /\ history'[Len(history) + 1] = [root |-> root, leaves |-> leaves]
    /\ db'.MapHead = db.MapHead \cup {root}
    /\ db'.MapLeaf = db.MapLeaf \cup {Row(leaves[i], root.rev) : i \in Inserted(leaves)}

NewRoot(root) ==
    /\ root.ts \in Nat /\ root.rev \in Int /\ root.rev >= -1
    /\ synced => root.ts = Len(history) + 1
    /\ root.rev \notin Revisions
    /\ -1 \notin Revisions => root.rev <= Len(history)

LEMMA RevisionsGrow ==
    ASSUME RootsNumbered, NEW root, NEW leaves, Added(root, leaves)
    PROVE  Revisions' = Revisions \cup {root.rev} /\ Revisions = {history[n].root.rev : n \in Stored}
BY DEF Added, Revisions, RootsNumbered

LEMMA RootsStored ==
    ASSUME Len(history) \in Nat, synced' = synced, RootsNumbered,
           NEW root, NewRoot(root), NEW leaves, Added(root, leaves)
    PROVE  RootsNumbered'
<1> DEFINE new == Len(history) + 1
<1>1. \A n \in Stored : history'[n].root = history[n].root
  BY DEF Added
<1>2. history'[new].root = root /\ Stored' = Stored \cup {new} /\ new \notin Stored
  BY DEF Added, Stored
<1>3. root.ts \in Nat /\ root.rev \in Int /\ root.rev >= -1 /\ root.rev \notin Revisions
  BY DEF NewRoot
<1>4. Revisions' = Revisions \cup {root.rev} /\ Revisions = {history[n].root.rev : n \in Stored}
  BY RevisionsGrow
<1>5. db'.MapHead = {history'[n].root : n \in Stored'}
  <2>1. db'.MapHead = {history[n].root : n \in Stored} \cup {root}
    BY DEF Added, RootsNumbered
  <2> QED BY <1>1, <1>2, <2>1
<1>6. \A n \in Stored' :
        history'[n].root.ts \in Nat /\ history'[n].root.rev \in Int /\ history'[n].root.rev >= -1
  BY <1>1, <1>2, <1>3 DEF RootsNumbered
<1>9. synced' => \A n \in Stored' : history'[n].root.ts = n
  BY <1>1, <1>2 DEF RootsNumbered, NewRoot
<1>10. \E n \in Stored' : \A k \in Stored' : history'[k].root.ts <= history'[n].root.ts
  <2>1. \A n \in Stored : history[n].root.ts \in Nat
    BY DEF RootsNumbered
  <2>2. CASE Stored = {}
    BY <1>2, <1>3, <2>2
  <2>3. CASE Stored # {}
    <3>1. PICK n \in Stored : \A k \in Stored : history[k].root.ts <= history[n].root.ts
      BY <2>3 DEF RootsNumbered
    <3>2. CASE root.ts <= history[n].root.ts
      BY <1>1, <1>2, <3>1, <3>2
    <3>3. CASE history[n].root.ts <= root.ts
      <4>1. \A k \in Stored : history'[k].root.ts <= root.ts
        BY <1>1, <1>3, <2>1, <3>1, <3>3
      <4> QED BY <1>2, <1>3, <4>1
    <3> QED BY <1>3, <2>1, <3>2, <3>3
  <2> QED BY <2>2, <2>3
<1>7. \A m, n \in Stored' : history'[m].root.rev = history'[n].root.rev => m = n
  <2>1. \A n \in Stored : history'[n].root.rev # root.rev
    BY <1>1, <1>3, <1>4
  <2>2. \A m, n \in Stored : history[m].root.rev = history[n].root.rev => m = n
    BY DEF RootsNumbered
  <2>3. \A m, n \in Stored : history'[m].root.rev = history'[n].root.rev => m = n
    BY <1>1, <2>2
  <2> QED BY <1>2, <2>1, <2>3
<1>8. ASSUME -1 \notin Revisions' PROVE \A n \in Stored' : history'[n].root.rev = n - 1
  <2>1. -1 \notin Revisions /\ root.rev # -1
    BY <1>4, <1>8
  <2>2. \A n \in Stored : history[n].root.rev = n - 1
    BY <2>1 DEF RootsNumbered
  <2>3. \A n \in Stored : root.rev # n - 1
    BY <1>3, <1>4, <2>2
  <2>4. root.rev <= Len(history) /\ root.rev \in Nat
    BY <1>3, <2>1 DEF NewRoot
  <2>5. ~(root.rev < Len(history))
    <3>1. SUFFICES ASSUME root.rev < Len(history) PROVE FALSE
      OBVIOUS
    <3>2. root.rev + 1 \in Stored
      BY <2>4, <3>1 DEF Stored
    <3>3. root.rev # (root.rev + 1) - 1
      BY <2>3, <3>2
    <3> QED BY <2>4, <3>3
  <2>6. root.rev = new - 1
    BY <2>4, <2>5
  <2> QED BY <1>1, <1>2, <2>2, <2>6
<1> QED BY <1>5, <1>6, <1>7, <1>8, <1>9, <1>10 DEF RootsNumbered

LEMMA LeavesStored ==
    ASSUME Len(history) \in Nat, LeavesNumbered, strategy' = strategy,
           NEW root, NEW leaves, Len(leaves) \in Nat, SetOnce(leaves, Inserted(leaves)),
           Added(root, leaves)
    PROVE  LeavesNumbered'
<1> DEFINE new == Len(history) + 1
<1>1. \A n \in Stored : history'[n] = history[n]
  BY DEF Added
<1>2. /\ history'[new].root = root /\ history'[new].leaves = leaves
      /\ Stored' = Stored \cup {new}
  BY DEF Added
<1>3. db'.MapLeaf = db.MapLeaf \cup {Row(leaves[i], root.rev) : i \in Inserted(leaves)}
  BY DEF Added
<1>4. ASSUME NEW n \in Stored
      PROVE  /\ Len(history'[n].leaves) \in Nat
             /\ SetOnce(history'[n].leaves, Inserted(history'[n].leaves))
             /\ \A i \in Inserted(history'[n].leaves) :
                    Row(history'[n].leaves[i], history'[n].root.rev) \in db'.MapLeaf
  BY <1>1, <1>3 DEF LeavesNumbered
<1>5. ASSUME NEW r \in db'.MapLeaf
      PROVE  \E n \in Stored' : \E i \in Inserted(history'[n].leaves) :
                 r = Row(history'[n].leaves[i], history'[n].root.rev)
  <2>1. CASE r \in db.MapLeaf
    <3>1. PICK n \in Stored : \E i \in Inserted(history[n].leaves) :
              r = Row(history[n].leaves[i], history[n].root.rev)
      BY <2>1 DEF LeavesNumbered
    <3>2. history'[n] = history[n] /\ n \in Stored'
      BY <1>1, <1>2
    <3> QED BY <3>1, <3>2
  <2>2. CASE \E i \in Inserted(leaves) : r = Row(leaves[i], root.rev)
    BY <1>2, <2>2
  <2> QED BY <1>3, <2>1, <2>2
<1>6. \A n \in Stored' :
        /\ Len(history'[n].leaves) \in Nat
        /\ SetOnce(history'[n].leaves, Inserted(history'[n].leaves))
        /\ \A i \in Inserted(history'[n].leaves) :
               Row(history'[n].leaves[i], history'[n].root.rev) \in db'.MapLeaf
  BY <1>2, <1>3, <1>4
<1> QED BY <1>5, <1>6 DEF LeavesNumbered, Row

LEMMA StoreStep ==
    ASSUME HistoryInv, strategy' = strategy /\ synced' = synced, DOMAIN req' = Writer, ClientInv',
           \A v \in Writer : req'[v] = req[v] \/ RequestInv(v)',
           NEW root, NewRoot(root),
           NEW leaves, Len(leaves) \in Nat, SetOnce(leaves, Inserted(leaves)),
           db' = [Subtree |-> db.Subtree,
                  MapLeaf |-> db.MapLeaf \cup {Row(leaves[i], root.rev) : i \in Inserted(leaves)},
                  MapHead |-> db.MapHead \cup {root}],
           history' = Append(history, [root |-> root, leaves |-> leaves])
    PROVE  HistoryInv'
<1>1. Shapes /\ RootsNumbered /\ LeavesNumbered /\ \A v \in Writer : RequestInv(v)
  BY DEF HistoryInv
<1>2. Len(history) \in Nat /\ history = [n \in 1..Len(history) |-> history[n]]
  BY <1>1 DEF Shapes
<1>3. /\ Len(history') = Len(history) + 1 /\ history' = [n \in 1..Len(history') |-> history'[n]]
      /\ \A n \in 1..Len(history) : history'[n] = history[n]
      /\ history'[Len(history) + 1] = [root |-> root, leaves |-> leaves]
  BY <1>2, AppendAny
<1>4. Added(root, leaves)
  BY <1>2, <1>3 DEF Added, Stored
<1>5. Shapes'
  BY <1>2, <1>3 DEF Shapes
<1>6. RootsNumbered'
  BY <1>1, <1>2, <1>4, RootsStored
<1>7. LeavesNumbered'
  BY <1>1, <1>2, <1>4, LeavesStored
<1>8. ASSUME NEW v \in Writer PROVE RequestInv(v)'
  <2>1. CASE req'[v] = req[v]
    <3>1. Revisions \subseteq Revisions'
      BY <1>1, <1>4, RevisionsGrow
    <3> QED BY <1>1, <1>2, <1>3, <2>1, <3>1, RequestKept
  <2> QED BY <2>1
<1> QED BY <1>5, <1>6, <1>7, <1>8 DEF HistoryInv

-----------------------------------------------------------------------------
\* A request that sets leaves.

SetsLeaves(w) == req[w].op \in {"insert", "send", "wait"}

RowsOf(leaves, rev, indices) == {Row(leaves[i], rev) : i \in indices}

\* The request r has become the request q of the same leaves.
Continues(r, q) ==
    /\ q = [op |-> q.op, leaves |-> r.leaves, meta |-> r.meta, next |-> q.next,
            rev |-> r.rev, rows |-> q.rows]
    /\ q.op \in {"insert", "send", "wait"} /\ q.next \in Nat \ {0}
    /\ q.op = "wait" => q.next > Len(r.leaves)

LEMMA RequestGoesOn ==
    ASSUME Shapes, NEW w \in Writer, RequestInv(w), SetsLeaves(w), strategy' = strategy /\ synced' = synced,
           history' = history, Revisions' = Revisions,
           NEW r, r = req[w], NEW q, q = req'[w], Continues(r, q),
           q.rows = RowsOf(r.leaves, r.rev, Done(q)), SetOnce(r.leaves, Done(q))
    PROVE  RequestInv(w)'
<1>1. /\ Len(r.leaves) \in Nat /\ r.rev \in Int /\ r.rev >= -1
      /\ -1 \notin Revisions => r.rev <= Len(history)
  BY DEF RequestInv, SetsLeaves
<1>2. q.leaves = r.leaves /\ q.rev = r.rev
  BY DEF Continues
<1>3. q.rows = {Row(q.leaves[i], q.rev) : i \in Done(q)}
  BY <1>2 DEF RowsOf
<1> QED BY <1>1, <1>2, <1>3 DEF RequestInv, Row, Continues

LEMMA RequestEnds ==
    ASSUME NEW w \in Writer, req'[w].op \notin {"insert", "send", "wait"}
    PROVE  RequestInv(w)'
BY DEF RequestInv

\* What InsertLeaf, SendLeaf and CloseQueues do to a request.
LEMMA InsertLeafInv ==
    ASSUME HistoryInv, NEW w \in Writer, InsertLeaf(w), history' = history
    PROVE  RequestInv(w)' /\ DOMAIN req' = Writer /\ \A v \in Writer \ {w} : req'[v] = req[v]
<1>1. Shapes /\ RequestInv(w) /\ strategy' = strategy /\ synced' = synced /\ db' = db
  BY DEF HistoryInv, InsertLeaf
<1>2. Revisions' = Revisions /\ DOMAIN req = Writer
  BY <1>1 DEF Revisions, Shapes
<1>3. PICK r : r = req[w]
  OBVIOUS
<1>4. /\ r.op = "insert" /\ r.next <= Len(r.leaves) /\ r.next \in Nat \ {0} /\ Len(r.leaves) \in Nat
      /\ r = [op |-> r.op, leaves |-> r.leaves, meta |-> r.meta, next |-> r.next,
              rev |-> r.rev, rows |-> r.rows]
      /\ r.rows = {Row(r.leaves[i], r.rev) : i \in Done(r)}
      /\ SetOnce(r.leaves, Done(r))
  BY <1>1, <1>3 DEF InsertLeaf, RequestInv
<1>5. PICK l : l = r.leaves[r.next]
  OBVIOUS
<1>6. r.next \in 1..Len(r.leaves) /\ Done(r) = {i \in Inserted(r.leaves) : i < r.next}
  BY <1>4 DEF Done, Inserted
<1>7. CASE GiveUp(w)
  <2>1. req' = [req EXCEPT ![w] = [op |-> "answered", ok |-> FALSE, root |-> NoRoot]]
    BY <1>7 DEF GiveUp, Answer
  <2>2. req'[w].op = "answered"
    BY <1>2, <2>1
  <2> QED BY <1>2, <2>1, <2>2, RequestEnds
<1>8. CASE ~Inserts(l) /\ req' = [req EXCEPT ![w].next = @ + 1]
  <2>1. req'[w] = [op |-> "insert", leaves |-> r.leaves, meta |-> r.meta, next |-> r.next + 1,
                   rev |-> r.rev, rows |-> r.rows]
    BY <1>2, <1>3, <1>4, <1>8
  <2>2. Done(req'[w]) = {i \in Inserted(r.leaves) : i < r.next + 1}
    BY <1>4, <2>1 DEF Done, Inserted
  <2>3. Done(req'[w]) = Done(r)
    BY <1>4, <1>5, <1>6, <1>8, <2>2 DEF Inserted
  <2>4. RequestInv(w)'
    <3>1. PICK q : q = req'[w]
      OBVIOUS
    <3>2. q.rows = RowsOf(r.leaves, r.rev, Done(q)) /\ SetOnce(r.leaves, Done(q))
      <4>1. q.rows = r.rows
        BY <2>1, <3>1
      <4>2. Done(q) = Done(r)
        BY <2>3, <3>1
      <4> QED BY <1>4, <4>1, <4>2 DEF RowsOf
    <3>3. SetsLeaves(w)
      BY <1>3, <1>4 DEF SetsLeaves
    <3>4. Continues(r, q)
      BY <1>4, <2>1, <3>1 DEF Continues
    <3> QED BY <1>1, <1>2, <1>3, <3>1, <3>2, <3>3, <3>4, RequestGoesOn
  <2> QED BY <1>2, <1>8, <2>4
<1>9. CASE /\ Inserts(l) /\ ~LeafClash(db.MapLeaf \cup r.rows, l.index, r.rev)
           /\ req' = [req EXCEPT ![w].op = "send", ![w].rows = @ \cup {Row(l, r.rev)}]
  <2>1. req'[w] = [op |-> "send", leaves |-> r.leaves, meta |-> r.meta, next |-> r.next,
                   rev |-> r.rev, rows |-> r.rows \cup {Row(l, r.rev)}]
    BY <1>2, <1>3, <1>4, <1>9
  <2>2. Done(req'[w]) = {i \in Inserted(r.leaves) : i < r.next \/ i = r.next}
    BY <1>4, <2>1 DEF Done, Inserted
  <2>3. r.next \in Inserted(r.leaves)
    BY <1>5, <1>6, <1>9 DEF Inserted
  <2>4. Done(req'[w]) = Done(r) \cup {r.next}
    BY <1>6, <2>2, <2>3
  <2>5. r.rows \cup {Row(l, r.rev)} = {Row(r.leaves[i], r.rev) : i \in Done(req'[w])}
    BY <1>4, <1>5, <2>4
  <2>6. \A i \in Done(r) : r.leaves[i].index # l.index
    <3>1. \A i \in Done(r) : Row(r.leaves[i], r.rev).key = r.leaves[i].index
                             /\ Row(r.leaves[i], r.rev).rev = r.rev
      BY DEF Row, MapLeafRow, MapLeaf
    <3>2. \A q \in r.rows : ~(q.key = l.index /\ q.rev = r.rev)
      BY <1>9 DEF LeafClash
    <3> QED BY <1>4, <3>1, <3>2
  <2>7. SetOnce(r.leaves, Done(req'[w]))
    BY <1>4, <1>5, <2>4, <2>6 DEF SetOnce
  <2>8. RequestInv(w)'
    <3>1. PICK q : q = req'[w]
      OBVIOUS
    <3>2. q.rows = RowsOf(r.leaves, r.rev, Done(q)) /\ SetOnce(r.leaves, Done(q))
      BY <2>1, <2>5, <2>7, <3>1 DEF RowsOf
    <3>3. SetsLeaves(w)
      BY <1>3, <1>4 DEF SetsLeaves
    <3>4. Continues(r, q)
      BY <1>4, <2>1, <3>1 DEF Continues
    <3> QED BY <1>1, <1>2, <1>3, <3>1, <3>2, <3>3, <3>4, RequestGoesOn
  <2> QED BY <1>2, <1>9, <2>8
<1> QED BY <1>3, <1>5, <1>7, <1>8, <1>9 DEF InsertLeaf, Leaf, Row

LEMMA SendLeafInv ==
    ASSUME HistoryInv, NEW w \in Writer, SendLeaf(w) \/ CloseQueues(w), history' = history
    PROVE  RequestInv(w)' /\ DOMAIN req' = Writer /\ \A v \in Writer \ {w} : req'[v] = req[v]
<1>1. Shapes /\ RequestInv(w) /\ strategy' = strategy /\ synced' = synced /\ db' = db
  BY DEF HistoryInv, SendLeaf, CloseQueues
<1>2. Revisions' = Revisions /\ DOMAIN req = Writer
  BY <1>1 DEF Revisions, Shapes
<1>3. PICK r : r = req[w]
  OBVIOUS
<1>4. /\ SetsLeaves(w) /\ r.next \in Nat \ {0} /\ Len(r.leaves) \in Nat
      /\ r = [op |-> r.op, leaves |-> r.leaves, meta |-> r.meta, next |-> r.next,
              rev |-> r.rev, rows |-> r.rows]
      /\ r.rows = {Row(r.leaves[i], r.rev) : i \in Done(r)}
      /\ SetOnce(r.leaves, Done(r))
  BY <1>1, <1>3 DEF SendLeaf, CloseQueues, RequestInv, SetsLeaves
<1>5. CASE r.op = "send" /\ req' = [req EXCEPT ![w].op = "insert", ![w].next = @ + 1]
  <2>1. req'[w] = [op |-> "insert", leaves |-> r.leaves, meta |-> r.meta, next |-> r.next + 1,
                   rev |-> r.rev, rows |-> r.rows]
    BY <1>2, <1>3, <1>4, <1>5
  <2>2. Done(req'[w]) = {i \in Inserted(r.leaves) : i < r.next + 1}
    BY <1>4, <2>1 DEF Done, Inserted
  <2>3. Done(r) = {i \in Inserted(r.leaves) : i < r.next \/ i = r.next}
    BY <1>5 DEF Done
  <2>4. Done(req'[w]) = Done(r)
    BY <1>4, <2>2, <2>3 DEF Inserted
  <2>5. RequestInv(w)'
    <3>1. PICK q : q = req'[w]
      OBVIOUS
    <3>2. q.rows = RowsOf(r.leaves, r.rev, Done(q)) /\ SetOnce(r.leaves, Done(q))
      <4>1. q.rows = r.rows
        BY <2>1, <3>1
      <4>2. Done(q) = Done(r)
        BY <2>4, <3>1
      <4> QED BY <1>4, <4>1, <4>2 DEF RowsOf
    <3>3. Continues(r, q)
      BY <1>4, <2>1, <3>1 DEF Continues
    <3> QED BY <1>1, <1>2, <1>3, <1>4, <3>1, <3>2, <3>3, RequestGoesOn
  <2> QED BY <1>2, <1>5, <2>5
<1>6. CASE r.op = "insert" /\ r.next > Len(r.leaves) /\ req' = [req EXCEPT ![w].op = "wait"]
  <2>1. req'[w] = [op |-> "wait", leaves |-> r.leaves, meta |-> r.meta, next |-> r.next,
                   rev |-> r.rev, rows |-> r.rows]
    BY <1>2, <1>3, <1>4, <1>6
  <2>2. Done(req'[w]) = Done(r)
    BY <1>4, <1>6, <2>1 DEF Done
  <2>3. RequestInv(w)'
    <3>1. PICK q : q = req'[w]
      OBVIOUS
    <3>2. q.rows = RowsOf(r.leaves, r.rev, Done(q)) /\ SetOnce(r.leaves, Done(q))
      <4>1. q.rows = r.rows
        BY <2>1, <3>1
      <4>2. Done(q) = Done(r)
        BY <2>2, <3>1
      <4> QED BY <1>4, <4>1, <4>2 DEF RowsOf
    <3>3. Continues(r, q)
      BY <1>4, <1>6, <2>1, <3>1 DEF Continues
    <3> QED BY <1>1, <1>2, <1>3, <1>4, <3>1, <3>2, <3>3, RequestGoesOn
  <2> QED BY <1>2, <1>6, <2>3
<1> QED BY <1>3, <1>5, <1>6 DEF SendLeaf, CloseQueues

-----------------------------------------------------------------------------
\* Steps of the server.

LEMMA SignedRoot ==
    ASSUME NEW smrTs, NEW hash, NEW rev, NEW meta
    PROVE  /\ makeSignedMapRoot(smrTs, hash, rev, meta).ts = smrTs
           /\ makeSignedMapRoot(smrTs, hash, rev, meta).rev = rev
BY DEF makeSignedMapRoot, SignedMapRoot

\* What a clock reads.
LEMMA NowIs ==
    ASSUME Shapes, RootsNumbered, NEW smrTs \in Now
    PROVE  smrTs \in Nat /\ (synced => smrTs = Len(history) + 1)
<1>1. CASE synced
  <2>1. smrTs = LatestSignedMapRoot(db).ts + 1
    BY <1>1 DEF Now
  <2> QED BY <1>1, <2>1, LatestRoot
<1>2. CASE ~synced
  BY <1>2, MapServerAssumption DEF Now
<1> QED BY <1>1, <1>2

LEMMA NotedRoot ==
    ASSUME NEW w, Noted(w), NEW root, db'.MapHead = db.MapHead \cup {root}, root \notin db.MapHead
    PROVE  history' = Append(history, [root |-> root,
                                       leaves |-> IF req[w].op = "wait" THEN req[w].leaves ELSE << >>])
<1>1. db'.MapHead \ db.MapHead = {root} /\ db'.MapHead # db.MapHead
  OBVIOUS
<1>2. (CHOOSE r \in db'.MapHead \ db.MapHead : TRUE) = root
  BY <1>1
<1> QED BY <1>1, <1>2 DEF Noted

\* A request that is answered.
LEMMA AnsweredInv ==
    ASSUME Shapes, NEW w \in Writer, NEW ok, NEW answer, Answer(w, ok, answer)
    PROVE  RequestInv(w)' /\ DOMAIN req' = Writer /\ \A v \in Writer \ {w} : req'[v] = req[v]
<1>1. /\ req' = [req EXCEPT ![w] = [op |-> "answered", ok |-> ok, root |-> answer]]
      /\ DOMAIN req = Writer
  BY DEF Shapes, Answer
<1>2. req'[w].op = "answered"
  BY <1>1
<1> QED BY <1>1, <1>2, RequestEnds

\* A step that stores nothing.
LEMMA UnpublishedInv ==
    ASSUME HistoryInv, NEW w \in Writer, Noted(w), ClientInv', strategy' = strategy /\ synced' = synced, db' = db,
           RequestInv(w)' /\ DOMAIN req' = Writer /\ \A v \in Writer \ {w} : req'[v] = req[v]
    PROVE  HistoryInv'
<1>1. history' = history
  BY DEF Noted
<1>2. db' = [Subtree |-> db'.Subtree, MapLeaf |-> db.MapLeaf, MapHead |-> db.MapHead]
  BY DEF HistoryInv, Shapes
<1>3. \A v \in Writer : req'[v] = req[v] \/ RequestInv(v)'
  OBVIOUS
<1> QED BY <1>1, <1>2, <1>3, QuietStep

\* The transaction of a request commits: its leaves with its root, or, when there is
\* such a root, nothing.
LEMMA PublishedInv ==
    ASSUME HistoryInv, NEW w \in Writer, req[w].op = "wait", Noted(w), ClientInv', strategy' = strategy /\ synced' = synced,
           NEW smrTs \in Now, NEW hash, NEW root,
           root = makeSignedMapRoot(smrTs, hash, req[w].rev, req[w].meta),
           db' = Published(w, root), NEW ok, NEW answer, Answer(w, ok, answer)
    PROVE  HistoryInv'
<1>1. Shapes /\ RootsNumbered /\ RequestInv(w)
  BY DEF HistoryInv
<1>2. RequestInv(w)' /\ DOMAIN req' = Writer /\ \A v \in Writer \ {w} : req'[v] = req[v]
  BY <1>1, AnsweredInv
<1>3. CASE RootClash(db, root)
  <2>1. db' = db
    BY <1>3 DEF Published
  <2> QED BY <1>2, <2>1, UnpublishedInv
<1>4. CASE ~RootClash(db, root)
  <2>1. PICK r : r = req[w]
    OBVIOUS
  <2>2. /\ Len(r.leaves) \in Nat /\ r.next \in Nat /\ r.next > Len(r.leaves) /\ r.op = "wait"
        /\ r.rev \in Int /\ r.rev >= -1
        /\ -1 \notin Revisions => r.rev <= Len(history)
        /\ r.rows = {Row(r.leaves[i], r.rev) : i \in Done(r)}
        /\ SetOnce(r.leaves, Done(r))
    BY <1>1, <2>1 DEF RequestInv
  <2>3. Done(r) = Inserted(r.leaves)
    BY <2>2 DEF Done, Inserted
  <2>4. root.ts \in Nat /\ (synced => root.ts = Len(history) + 1) /\ root.rev = r.rev
    BY <1>1, <2>1, SignedRoot, NowIs
  <2>5. root.rev \notin Revisions /\ root \notin db.MapHead
    BY <1>4 DEF RootClash, Revisions
  <2>6. NewRoot(root)
    BY <2>2, <2>4, <2>5 DEF NewRoot
  <2>7. db' = [Subtree |-> db.Subtree,
               MapLeaf |-> db.MapLeaf \cup {Row(r.leaves[i], root.rev) : i \in Inserted(r.leaves)},
               MapHead |-> db.MapHead \cup {root}]
    <3>1. db' = [db EXCEPT !.MapLeaf = @ \cup r.rows, !.MapHead = @ \cup {root}]
      BY <1>4, <2>1 DEF Published
    <3>2. r.rows = {Row(r.leaves[i], root.rev) : i \in Inserted(r.leaves)}
      BY <2>2, <2>3, <2>4
    <3>3. db' = [Subtree |-> db.Subtree, MapLeaf |-> db.MapLeaf \cup r.rows,
                 MapHead |-> db.MapHead \cup {root}]
      BY <1>1, <3>1 DEF Shapes
    <3> QED BY <3>2, <3>3
  <2>8. history' = Append(history, [root |-> root, leaves |-> r.leaves])
    BY <2>1, <2>2, <2>5, <2>7, NotedRoot
  <2>9. Len(r.leaves) \in Nat /\ SetOnce(r.leaves, Inserted(r.leaves))
    BY <2>2, <2>3
  <2>10. \A v \in Writer : req'[v] = req[v] \/ RequestInv(v)'
    BY <1>2
  <2> QED BY <1>2, <2>6, <2>7, <2>8, <2>9, <2>10, StoreStep
<1> QED BY <1>3, <1>4

\* InitMap stores the first root, or finds that another request has.
LEMMA InitialisedInv ==
    ASSUME HistoryInv, NEW w \in Writer, req[w].op = "init", Noted(w), ClientInv', strategy' = strategy /\ synced' = synced,
           NEW smrTs \in Now, db' = Initialised(InitialRoot(smrTs)),
           NEW ok, NEW answer, Answer(w, ok, answer)
    PROVE  HistoryInv'
<1>1. Shapes /\ RootsNumbered
  BY DEF HistoryInv
<1>2. RequestInv(w)' /\ DOMAIN req' = Writer /\ \A v \in Writer \ {w} : req'[v] = req[v]
  BY <1>1, AnsweredInv
<1>3. PICK root : root = InitialRoot(smrTs)
  OBVIOUS
<1>4. CASE RootClash(db, root)
  <2>1. db' = db
    BY <1>3, <1>4 DEF Initialised
  <2> QED BY <1>2, <2>1, UnpublishedInv
<1>5. CASE ~RootClash(db, root)
  <2>1. /\ root.ts \in Nat /\ (synced => root.ts = Len(history) + 1)
        /\ root.rev = 0 /\ Len(history) \in Nat
    BY <1>1, <1>3, SignedRoot, NowIs DEF InitialRoot, Shapes
  <2>2. root.rev \notin Revisions /\ root \notin db.MapHead
    BY <1>5 DEF RootClash, Revisions
  <2>3. NewRoot(root)
    BY <2>1, <2>2 DEF NewRoot
  <2>4. Len(<< >>) \in Nat /\ Inserted(<< >>) = {} /\ SetOnce(<< >>, Inserted(<< >>))
    BY DEF Inserted, SetOnce
  <2>5. db' = [Subtree |-> db.Subtree,
               MapLeaf |-> db.MapLeaf \cup {Row(<< >>[i], root.rev) : i \in Inserted(<< >>)},
               MapHead |-> db.MapHead \cup {root}]
    BY <1>1, <1>3, <1>5, <2>4 DEF Initialised, Shapes
  <2>6. history' = Append(history, [root |-> root, leaves |-> << >>])
    BY <2>2, <2>5, NotedRoot
  <2>7. \A v \in Writer : req'[v] = req[v] \/ RequestInv(v)'
    BY <1>2
  <2> QED BY <1>2, <2>3, <2>4, <2>5, <2>6, <2>7, StoreStep
<1> QED BY <1>4, <1>5

\* The goroutine of a subtree writes to table Subtree only.
LEMMA SubtreeInv ==
    ASSUME HistoryInv, NEW w \in Writer, Noted(w), ClientInv',
           NEW p, SubtreeStep(w, p) \/ SubtreeFails(w, p)
    PROVE  HistoryInv'
<1>1. Shapes
  BY DEF HistoryInv
<1>2. strategy' = strategy /\ synced' = synced /\ req' = req
  BY DEF SubtreeStep, BeginSubtree, TakeLeaf, StoreSubtree, Cancelled, SubtreeFails
<1>3. db' = [Subtree |-> db'.Subtree, MapLeaf |-> db.MapLeaf, MapHead |-> db.MapHead]
  <2>1. CASE db' = db
    BY <1>1, <2>1 DEF Shapes
  <2>2. CASE StoreSubtree(w, p)
    <3>1. \/ db' = db
          \/ \E b : db' = [db EXCEPT !.Subtree = @ \cup b.rows]
      BY <2>2 DEF StoreSubtree
    <3> QED BY <1>1, <3>1 DEF Shapes
  <2> QED BY <2>1, <2>2 DEF SubtreeStep, BeginSubtree, TakeLeaf, Cancelled, SubtreeFails
<1>4. history' = history
  BY <1>3 DEF Noted
<1>5. DOMAIN req' = Writer /\ \A v \in Writer : req'[v] = req[v]
  BY <1>1, <1>2 DEF Shapes
<1> QED BY <1>2, <1>3, <1>4, <1>5, QuietStep

LEMMA ServerInv ==
    ASSUME HistoryInv, NEW w \in Writer, Server(w) \/ Fails(w)
    PROVE  HistoryInv'
<1>1. Shapes /\ Noted(w)
  BY DEF HistoryInv, Server, Fails
<1>2. ClientInv'
  BY DEF HistoryInv, ClientInv, Server, Fails, drivers
<1>3. CASE InsertLeaf(w)
  <2>1. history' = history /\ db' = db /\ strategy' = strategy /\ synced' = synced
    BY <1>1, <1>3 DEF InsertLeaf, Noted
  <2> QED BY <1>1, <1>2, <1>3, <2>1, InsertLeafInv, UnpublishedInv
<1>4. CASE SendLeaf(w) \/ CloseQueues(w)
  <2>1. history' = history /\ db' = db /\ strategy' = strategy /\ synced' = synced
    BY <1>1, <1>4 DEF SendLeaf, CloseQueues, Noted
  <2> QED BY <1>1, <1>2, <1>4, <2>1, SendLeafInv, UnpublishedInv
<1>5. CASE LockFails(w)
  <2>1. db' = db /\ strategy' = strategy /\ synced' = synced /\ Answer(w, FALSE, NoRoot)
    BY <1>5 DEF LockFails, GiveUp
  <2> QED BY <1>1, <1>2, <2>1, AnsweredInv, UnpublishedInv
<1>6. CASE Publish(w) \/ PublishFails(w)
  <2>1. req[w].op = "wait" /\ strategy' = strategy /\ synced' = synced
    BY <1>6 DEF Publish, PublishFails
  <2> DEFINE root(ts) == makeSignedMapRoot(ts, trees[w][Top].root, req[w].rev, req[w].meta)
  <2>2. (db' = db \/ \E ts \in Now : db' = Published(w, root(ts))) /\ \E ok, answer : Answer(w, ok, answer)
    <3>1. CASE Publish(w)
      BY <3>1 DEF Publish
    <3>2. CASE PublishFails(w)
      BY <3>2 DEF PublishFails
    <3> QED BY <1>6, <3>1, <3>2
  <2>3. PICK ok, answer : Answer(w, ok, answer)
    BY <2>2
  <2>4. CASE db' = db
    BY <1>1, <1>2, <2>1, <2>3, <2>4, AnsweredInv, UnpublishedInv
  <2>5. CASE \E ts \in Now : db' = Published(w, root(ts))
    <3>1. PICK ts \in Now : db' = Published(w, root(ts))
      BY <2>5
    <3> QED BY <1>1, <1>2, <2>1, <2>3, <3>1, PublishedInv
  <2> QED BY <2>2, <2>4, <2>5
<1>7. CASE StoreInitialRoot(w) \/ InitFails(w)
  <2>1. req[w].op = "init" /\ strategy' = strategy /\ synced' = synced
    BY <1>7 DEF StoreInitialRoot, InitFails
  <2>2. /\ db' = db \/ \E ts \in Now : db' = Initialised(InitialRoot(ts))
        /\ \E ok, answer : Answer(w, ok, answer)
    <3>1. CASE StoreInitialRoot(w)
      BY <3>1 DEF StoreInitialRoot
    <3>2. CASE InitFails(w)
      BY <3>2 DEF InitFails
    <3> QED BY <1>7, <3>1, <3>2
  <2>3. PICK ok, answer : Answer(w, ok, answer)
    BY <2>2
  <2>4. CASE db' = db
    BY <1>1, <1>2, <2>1, <2>3, <2>4, AnsweredInv, UnpublishedInv
  <2>5. CASE \E ts \in Now : db' = Initialised(InitialRoot(ts))
    <3>1. PICK ts \in Now : db' = Initialised(InitialRoot(ts))
      BY <2>5
    <3> QED BY <1>1, <1>2, <2>1, <2>3, <3>1, InitialisedInv
  <2> QED BY <2>2, <2>4, <2>5
<1>8. CASE \E p : SubtreeStep(w, p) \/ SubtreeFails(w, p)
  BY <1>1, <1>2, <1>8, SubtreeInv
<1> QED BY <1>3, <1>4, <1>5, <1>6, <1>7, <1>8 DEF Server, Fails, RequestStep, ServerFault

-----------------------------------------------------------------------------
\* Steps of the clients.

LEMMA BeginSetInv ==
    ASSUME HistoryInv, NEW w \in Writer, NEW leaves, Len(leaves) \in Nat, NEW meta,
           BeginSet(w, leaves, meta), ClientInv', history' = history
    PROVE  HistoryInv'
<1>1. Shapes /\ RootsNumbered
  BY DEF HistoryInv
<1>2. db' = db /\ strategy' = strategy /\ synced' = synced /\ DOMAIN req = Writer
  BY <1>1 DEF BeginSet, Shapes
<1>3. /\ WriteRevision(db) \in Int /\ WriteRevision(db) >= -1
      /\ -1 \notin Revisions => WriteRevision(db) <= Len(history)
  BY <1>1, WriteRevisionIs
<1>4. PICK rev : rev = WriteRevision(db)
  OBVIOUS
<1>5. req' = [req EXCEPT ![w] = [op |-> "insert", leaves |-> leaves, meta |-> meta, next |-> 1,
                                 rev |-> rev, rows |-> {}]]
  BY <1>4 DEF BeginSet
<1>6. req'[w] = [op |-> "insert", leaves |-> leaves, meta |-> meta, next |-> 1, rev |-> rev, rows |-> {}]
  BY <1>2, <1>5
<1>7. Done(req'[w]) = {}
  <2>1. req'[w].op = "insert" /\ req'[w].next = 1 /\ req'[w].leaves = leaves
    BY <1>6
  <2> QED BY <2>1 DEF Done, Inserted
<1>8. RequestInv(w)'
  <2>1. Revisions' = Revisions
    BY <1>2 DEF Revisions
  <2>2. /\ req'[w].op = "insert" /\ req'[w].next = 1 /\ req'[w].leaves = leaves
        /\ req'[w].rev = rev /\ req'[w].rows = {} /\ req'[w].meta = meta
    BY <1>6
  <2>3. SetOnce(req'[w].leaves, Done(req'[w]))
    BY <1>7, <2>2 DEF SetOnce
  <2>4. req'[w] = [op |-> req'[w].op, leaves |-> req'[w].leaves, meta |-> req'[w].meta,
                   next |-> req'[w].next, rev |-> req'[w].rev, rows |-> req'[w].rows]
    BY <1>6, <2>2
  <2>5. -1 \notin Revisions' => rev <= Len(history')
    BY <1>3, <1>4, <2>1
  <2> QED BY <1>3, <1>4, <1>7, <2>2, <2>3, <2>4, <2>5 DEF RequestInv
<1>9. db' = [Subtree |-> db'.Subtree, MapLeaf |-> db.MapLeaf, MapHead |-> db.MapHead]
  BY <1>1, <1>2 DEF Shapes
<1>10. DOMAIN req' = Writer /\ \A v \in Writer : req'[v] = req[v] \/ RequestInv(v)'
  BY <1>2, <1>5, <1>8
<1> QED BY <1>2, <1>9, <1>10, QuietStep

\* The other steps of a client: the server does not act, or a request of InitMap
\* begins, or an answer is taken.
LEMMA OtherClientInv ==
    ASSUME HistoryInv, NEW w \in Writer, ClientInv', history' = history,
           UNCHANGED serverVars \/ BeginInit(w) \/ Return(w)
    PROVE  HistoryInv'
<1>1. Shapes
  BY DEF HistoryInv
<1>2. db' = db /\ strategy' = strategy /\ synced' = synced /\ DOMAIN req = Writer
  BY <1>1 DEF BeginInit, Return, serverVars, Shapes
<1>3. db' = [Subtree |-> db'.Subtree, MapLeaf |-> db.MapLeaf, MapHead |-> db.MapHead]
  BY <1>1, <1>2 DEF Shapes
<1>4. CASE req' = req
  BY <1>2, <1>3, <1>4, QuietStep
<1>5. ASSUME NEW x, req' = [req EXCEPT ![w] = x], x.op \notin {"insert", "send", "wait"}
      PROVE  HistoryInv'
  <2>1. req'[w].op \notin {"insert", "send", "wait"} /\ DOMAIN req' = Writer
        /\ \A v \in Writer \ {w} : req'[v] = req[v]
    BY <1>2, <1>5
  <2>2. RequestInv(w)'
    BY <2>1, RequestEnds
  <2> QED BY <1>2, <1>3, <2>1, <2>2, QuietStep
<1>6. CASE BeginInit(w)
  <2>1. CASE req' = [req EXCEPT ![w] = [op |-> "init"]]
    <3>1. [op |-> "init"].op \notin {"insert", "send", "wait"}
      OBVIOUS
    <3> QED BY <1>5, <2>1, <3>1
  <2>2. CASE req' = [req EXCEPT ![w] = [op |-> "answered", ok |-> FALSE, root |-> NoRoot]]
    <3>1. [op |-> "answered", ok |-> FALSE, root |-> NoRoot].op \notin {"insert", "send", "wait"}
      OBVIOUS
    <3> QED BY <1>5, <2>2, <3>1
  <2> QED BY <1>6, <2>1, <2>2 DEF BeginInit, Answer
<1>7. CASE Return(w)
  <2>1. req' = [req EXCEPT ![w] = [op |-> "idle"]]
    BY <1>7 DEF Return, Idle
  <2>2. [op |-> "idle"].op \notin {"insert", "send", "wait"}
    OBVIOUS
  <2> QED BY <1>5, <2>1, <2>2
<1> QED BY <1>4, <1>6, <1>7 DEF serverVars

LEMMA HammerInv ==
    ASSUME HistoryInv, NEW w \in Writer, HammerStep(w), UNCHANGED <<mapper, test, history>>
    PROVE  HistoryInv'
<1>1. ClientInv'
  BY DEF HistoryInv, ClientInv
<1>2. CASE HammerSetLeaves(w)
  <2>1. PICK n \in 1..MaxBatch : \E batch \in [1..n -> HammerChoices] :
            BeginSet(w, [i \in 1..n |-> ChosenLeaf(batch, i)], Nil)
    BY <1>2 DEF HammerSetLeaves
  <2>2. PICK batch : BeginSet(w, [i \in 1..n |-> ChosenLeaf(batch, i)], Nil)
    BY <2>1
  <2>3. PICK leaves : leaves = [i \in 1..n |-> ChosenLeaf(batch, i)]
    OBVIOUS
  <2>4. n \in Nat /\ leaves = [i \in 1..n |-> leaves[i]]
    BY <2>3, HammerAssumption
  <2>5. Len(leaves) \in Nat
    BY <2>4, LenOf
  <2> QED BY <1>1, <2>2, <2>3, <2>5, BeginSetInv
<1>3. CASE HammerSetInvalid(w)
  <2>1. PICK leaves : /\ BeginSet(w, leaves, Nil)
                      /\ (\E x : leaves = <<x>>) \/ (\E x, y : leaves = <<x, y>>)
    BY <1>3 DEF HammerSetInvalid
  <2>2. Len(leaves) \in Nat
    BY <2>1
  <2> QED BY <1>1, <2>1, <2>2, BeginSetInv
<1>4. CASE HammerReturn(w)
  BY <1>1, <1>4, OtherClientInv DEF HammerReturn
<1>5. CASE getSMR
  BY <1>1, <1>5, OtherClientInv DEF getSMR
<1> QED BY <1>2, <1>3, <1>4, <1>5 DEF HammerStep

\* What the mapper sends is a sequence, because it knows finitely many domains.
LEMMA MapperBatch ==
    ASSUME ClientInv
    PROVE  Len(MapperLeaves(Merged)) \in Nat
<1>1. PICK old : /\ old = [d \in DOMAIN mapper.domains |->
                             GetLeaves(<<HashDomain[d]>>).inclusions[1].leaf.value]
                 /\ Merged = MergedWith(old)
  BY DEF Merged
<1>2. DOMAIN old \subseteq DOMAIN HashDomain
  BY <1>1 DEF ClientInv, Domains
<1>3. DOMAIN MergedWith(old) \subseteq DOMAIN HashDomain \cup {""}
  BY <1>2 DEF MergedWith
<1>4. IsFiniteSet(DOMAIN HashDomain \cup {""})
  BY MapperAssumption, FS_AddElement
<1>5. IsFiniteSet(DOMAIN Merged)
  BY <1>1, <1>3, <1>4, FS_Subset
<1>6. PICK n : n = Cardinality(DOMAIN Merged)
  OBVIOUS
<1>7. n \in Nat
  BY <1>5, <1>6, FS_CardinalityType
<1>8. PICK leaves : leaves = MapperLeaves(Merged)
  OBVIOUS
<1>9. leaves = [i \in 1..n |-> leaves[i]]
  BY <1>6, <1>8 DEF MapperLeaves
<1> QED BY <1>7, <1>8, <1>9, LenOf

LEMMA MapperInv ==
    ASSUME HistoryInv, NEW w \in Writer, MapperStep(w), UNCHANGED <<test, history>>
    PROVE  HistoryInv'
<1>1. ClientInv
  BY DEF HistoryInv
<1>2. CASE FetchEntries
  <2>1. PICK seq, to, m : mapper' = [mapper EXCEPT !.pc = "set", !.seq = LastKnown(seq, seq + 1, to),
                             !.domains = updateDomainMap(seq + 1, to), !.empty = m]
    BY <1>2 DEF FetchEntries
  <2>2. DOMAIN updateDomainMap(seq + 1, to) \subseteq Domains
    BY DEF updateDomainMap
  <2>3. ClientInv'
    BY <1>1, <2>1, <2>2 DEF ClientInv
  <2> QED BY <1>2, <2>3, OtherClientInv DEF FetchEntries
<1>3. CASE MapperSetLeaves(w)
  <2>1. ClientInv'
    BY <1>1, <1>3 DEF ClientInv, MapperSetLeaves
  <2> QED BY <1>1, <1>3, <2>1, MapperBatch, BeginSetInv DEF MapperSetLeaves
<1>4. CASE MapperReturn(w)
  <2>1. ClientInv'
    BY <1>1, <1>4 DEF ClientInv, MapperReturn
  <2> QED BY <1>4, <2>1, OtherClientInv DEF MapperReturn
<1> QED BY <1>2, <1>3, <1>4 DEF MapperStep

\* The batches of the integration tests are sequences.
LEMMA TestBatch ==
    ASSUME NEW run \in DOMAIN TestBatches, NEW k \in 1..Len(TestBatches[run])
    PROVE  Len(TestBatches[run][k]) \in Nat
<1>1. CASE run = "RunInclusionBatch"
  <2>1. PICK all : all = [b \in 1..NumBatches |-> createBatchLeaves(b, BatchSize)]
    OBVIOUS
  <2>2. TestBatches[run] = all
    BY <1>1, <2>1 DEF TestBatches
  <2>3. Len(all) = NumBatches
    BY <2>1, LenOf, MapTestsAssumption
  <2>4. PICK leaves : leaves = createBatchLeaves(k, BatchSize)
    OBVIOUS
  <2>5. leaves = [i \in 1..BatchSize |-> leaves[i]]
    BY <2>4 DEF createBatchLeaves
  <2>6. Len(leaves) = BatchSize
    BY <2>5, LenOf, MapTestsAssumption
  <2>7. all[k] = leaves
    BY <2>1, <2>2, <2>3, <2>4
  <2> QED BY <2>2, <2>6, <2>7, MapTestsAssumption
<1>2. CASE run = "RunMapRevisionZero"
  <2>1. TestBatches[run] = << >>
    BY <1>2 DEF TestBatches
  <2> QED BY <2>1
<1>3. CASE run = "RunMapRevisionInvalid"
  <2>1. TestBatches[run] = << << >>, <<TestLeaf(1, <<"A">>)>> >>
    BY <1>3 DEF TestBatches
  <2> QED BY <2>1
<1>4. CASE run = "RunLeafHistory"
  <2>1. TestBatches[run] = << << >>, <<TestLeaf(0, <<"A">>)>>, << >>, <<TestLeaf(0, <<"B">>)>>,
                              <<TestLeaf(0, <<"C">>)>> >>
    BY <1>4 DEF TestBatches
  <2> QED BY <2>1
<1>5. CASE run = "RunInclusionSingle"
  <2>1. TestBatches[run] = << <<TestLeaf(0, <<"A">>)>> >>
    BY <1>5 DEF TestBatches
  <2> QED BY <2>1
<1>6. CASE run = "RunInclusionMulti"
  <2>1. TestBatches[run] = << <<TestLeaf(0, <<"A">>), TestLeaf(1, <<"B">>), TestLeaf(2, <<"C">>),
                                TestLeaf(3, Nil)>> >>
    BY <1>6 DEF TestBatches
  <2> QED BY <2>1
<1>7. CASE run = "RunInclusionAcrossSubtrees"
  <2>1. TestBatches[run] = << <<TestLeaf(2^(HashBits - 1) + 1, <<"Z">>)>> >>
    BY <1>7 DEF TestBatches
  <2> QED BY <2>1
<1> QED BY <1>1, <1>2, <1>3, <1>4, <1>5, <1>6, <1>7 DEF TestBatches

LEMMA TestInv ==
    ASSUME HistoryInv, NEW w \in Writer, TestStep(w), UNCHANGED <<mapper, history>>
    PROVE  HistoryInv'
<1>1. ClientInv
  BY DEF HistoryInv
<1>2. CASE TestSetLeaves(w)
  <2>1. ClientInv'
    BY <1>1, <1>2 DEF ClientInv, TestSetLeaves
  <2>2. test.set < Len(TestBatches[test.run]) /\ BeginSet(w, TestBatches[test.run][test.set + 1], Nil)
    BY <1>2 DEF TestSetLeaves, Batches
  <2>3. test.run \in DOMAIN TestBatches /\ test.set \in Nat
    BY <1>1 DEF ClientInv
  <2>4. test.set + 1 \in 1..Len(TestBatches[test.run])
    BY <2>2, <2>3
  <2> QED BY <2>1, <2>2, <2>3, <2>4, TestBatch, BeginSetInv
<1>3. CASE TestReturn(w)
  <2>1. test' = [test EXCEPT !.set = @ + 1, !.failed = ~req[w].ok] /\ mapper' = mapper
    BY <1>3 DEF TestReturn
  <2>2. /\ test' = [run |-> test'.run, set |-> test'.set, failed |-> test'.failed]
        /\ test'.run = test.run /\ test'.set = test.set + 1
    BY <1>1, <2>1 DEF ClientInv
  <2>3. test'.run \in DOMAIN TestBatches /\ test'.set \in Nat
    BY <1>1, <2>2 DEF ClientInv
  <2>4. ClientInv'
    BY <1>1, <2>1, <2>2, <2>3 DEF ClientInv
  <2> QED BY <1>3, <2>4, OtherClientInv DEF TestReturn
<1> QED BY <1>2, <1>3 DEF TestStep

LEMMA ClientStepInv ==
    ASSUME HistoryInv, NEW w \in Writer, Client(w)
    PROVE  HistoryInv'
<1>1. history' = history
  BY DEF Client
<1>2. CASE HammerStep(w) /\ UNCHANGED <<mapper, init, test, sent>>
  BY <1>1, <1>2, HammerInv
<1>3. CASE MapperStep(w) /\ UNCHANGED <<hammer, init, test, sent>>
  BY <1>1, <1>3, MapperInv
<1>4. CASE AdminStep(w) /\ UNCHANGED <<hammer, mapper, test, sent>>
  <2>1. ClientInv'
    BY <1>4 DEF HistoryInv, ClientInv
  <2> QED BY <1>1, <1>4, <2>1, OtherClientInv
          DEF AdminStep, CreateTree, InitMap, InitReturn, AwaitRoot
<1>5. CASE TestStep(w) /\ UNCHANGED <<hammer, mapper, init, sent>>
  BY <1>1, <1>5, TestInv
<1>6. CASE RaceStep(w) /\ UNCHANGED <<hammer, mapper, init, test>>
  <2>1. ClientInv'
    BY <1>6 DEF HistoryInv, ClientInv
  <2>2. CASE BeginInit(w) \/ Return(w)
    BY <1>1, <2>1, <2>2, OtherClientInv
  <2>3. CASE \E leaves \in RaceBatches : BeginSet(w, leaves, Nil)
    BY <1>1, <2>1, <2>3, BeginSetInv, RaceAssumption
  <2> QED BY <1>6, <2>2, <2>3 DEF RaceStep, RaceRequest
<1> QED BY <1>2, <1>3, <1>4, <1>5, <1>6 DEF Client
-----------------------------------------------------------------------------
\* The invariant.

LEMMA EmptyInit ==
    ASSUME db = EmptyDB, history = << >>
    PROVE  RootsNumbered /\ LeavesNumbered /\ Len(history) = 0
<1>1. db.MapHead = {} /\ db.MapLeaf = {}
  BY DEF EmptyDB
<1>2. Len(history) = 0 /\ Stored = {}
  BY DEF Stored
<1>3. RootsNumbered
  BY <1>1, <1>2 DEF RootsNumbered
<1>4. LeavesNumbered
  BY <1>1, <1>2 DEF LeavesNumbered
<1> QED BY <1>2, <1>3, <1>4

LEMMA UsedInit ==
    ASSUME NEW root, db = [EmptyDB EXCEPT !.MapHead = {root}],
           root.ts \in Nat, synced => root.ts = 1, root.rev = 0,
           history = <<[root |-> root, leaves |-> << >>]>>
    PROVE  RootsNumbered /\ LeavesNumbered
<1>1. db.MapHead = {root} /\ db.MapLeaf = {}
  BY DEF EmptyDB
<1>2. Stored = {1} /\ history[1].root = root /\ history[1].leaves = << >>
  BY DEF Stored
<1>3. RootsNumbered
  BY <1>1, <1>2 DEF RootsNumbered
<1>4. Inserted(history[1].leaves) = {} /\ Len(history[1].leaves) = 0
  BY <1>2 DEF Inserted
<1>5. LeavesNumbered
  BY <1>1, <1>2, <1>4 DEF LeavesNumbered, SetOnce
<1> QED BY <1>3, <1>5

LEMMA InitInv == Init => HistoryInv
<1> SUFFICES ASSUME Init PROVE HistoryInv
  OBVIOUS
<1>1. ClientInv
  <2>1. mapper = NewMapper /\ \E name \in DOMAIN TestBatches : test = NewTest(name)
    <3>1. "RunMapRevisionZero" \in DOMAIN TestBatches
      BY DEF TestBatches
    <3> QED BY <3>1 DEF Init
  <2>2. PICK name \in DOMAIN TestBatches : test = NewTest(name)
    BY <2>1
  <2>3. /\ test = [run |-> test.run, set |-> test.set, failed |-> test.failed]
        /\ test.run \in DOMAIN TestBatches /\ test.set \in Nat
    BY <2>2 DEF NewTest
  <2>4. DOMAIN NewMapper.domains = {}
    BY DEF NewMapper
  <2>5. mapper = [pc |-> mapper.pc, seq |-> mapper.seq, domains |-> mapper.domains, empty |-> mapper.empty]
    BY <2>1 DEF NewMapper
  <2> QED BY <2>1, <2>3, <2>4, <2>5 DEF ClientInv
<1>2. req = [w \in Writer |-> Idle]
  BY DEF Init, ServerInit
<1>3. \A w \in Writer : RequestInv(w)
  BY <1>2 DEF RequestInv, Idle
<1>4. CASE db = EmptyDB
  <2>1. db.MapHead = {}
    BY <1>4 DEF EmptyDB
  <2>2. history = << >>
    BY <2>1 DEF Init
  <2>3. RootsNumbered /\ LeavesNumbered
    BY <1>4, <2>2, EmptyInit
  <2>4. Shapes
    BY <1>2, <1>4, <2>2 DEF Shapes, EmptyDB
  <2> QED BY <1>1, <1>3, <2>3, <2>4 DEF HistoryInv
<1>5. CASE \E smrTs \in IF synced THEN {1} ELSE Clock : db = UsedDB(strategy, smrTs)
  <2>1. PICK root : /\ db = [EmptyDB EXCEPT !.MapHead = {root}]
                    /\ root.ts \in Nat /\ (synced => root.ts = 1) /\ root.rev = 0
    <3>1. PICK smrTs : /\ smrTs \in Nat /\ (synced => smrTs = 1)
                       /\ db = UsedDB(strategy, smrTs)
      BY <1>5, MapServerAssumption
    <3>2. PICK smr : smr = SignedMapRoot(HashEmpty(strategy, Zeros(HashBits), HashBits), smrTs, 0, Nil, Nil)
      OBVIOUS
    <3>3. PICK sig : sig = Unsigned(smr)
      OBVIOUS
    <3>4. PICK root : root = [smr EXCEPT !.sig = sig]
      OBVIOUS
    <3>5. root.ts = smrTs /\ root.rev = 0
      BY <3>2, <3>4 DEF SignedMapRoot
    <3>6. db = [EmptyDB EXCEPT !.MapHead = {root}]
      BY <3>1, <3>2, <3>3, <3>4 DEF UsedDB
    <3> QED BY <3>1, <3>5, <3>6
  <2>2. db.MapHead = {root}
    BY <2>1 DEF EmptyDB
  <2>3. LatestSignedMapRoot(db) = root
    BY <2>1, <2>2 DEF LatestSignedMapRoot
  <2>4. history = <<[root |-> root, leaves |-> << >>]>>
    BY <2>2, <2>3 DEF Init
  <2>5. RootsNumbered /\ LeavesNumbered
    BY <2>1, <2>4, UsedInit
  <2>6. db = [Subtree |-> db.Subtree, MapLeaf |-> db.MapLeaf, MapHead |-> db.MapHead]
    BY <2>1 DEF EmptyDB
  <2>7. Len(history) \in Nat /\ history = [n \in 1..Len(history) |-> history[n]]
    BY <2>4
  <2>8. Shapes
    BY <1>2, <2>6, <2>7 DEF Shapes
  <2> QED BY <1>1, <1>3, <2>5, <2>8 DEF HistoryInv
<1> QED BY <1>4, <1>5 DEF Init, ServerInit

LEMMA Invariance == Spec => []HistoryInv
<1>1. HistoryInv /\ [Next]_vars => HistoryInv'
  <2>1. SUFFICES ASSUME HistoryInv, [Next]_vars PROVE HistoryInv'
    OBVIOUS
  <2>2. CASE Next
    BY <2>1, <2>2, ServerInv, ClientStepInv DEF Next
  <2>3. CASE UNCHANGED vars
    <3>1. /\ UNCHANGED serverVars /\ history' = history /\ mapper' = mapper /\ test' = test
      BY <2>3 DEF vars, drivers
    <3>2. ClientInv'
      BY <2>1, <3>1 DEF HistoryInv, ClientInv
    <3>3. /\ strategy' = strategy /\ synced' = synced /\ db' = db /\ req' = req
      BY <3>1 DEF serverVars
    <3>4. /\ DOMAIN req' = Writer
          /\ db' = [Subtree |-> db'.Subtree, MapLeaf |-> db.MapLeaf, MapHead |-> db.MapHead]
      BY <2>1, <3>3 DEF HistoryInv, Shapes
    <3> QED BY <2>1, <3>1, <3>2, <3>3, <3>4, QuietStep
  <2> QED BY <2>1, <2>2, <2>3
<1> QED BY <1>1, InitInv, PTL DEF Spec

-----------------------------------------------------------------------------
\* Revisions.

LEMMA Consecutive ==
    ASSUME Shapes, RootsNumbered
    PROVE  RevisionsConsecutive
<1> SUFFICES ASSUME -1 \notin Revisions
             PROVE  /\ \A n \in 1..Len(history) : history[n].root.rev = n - 1
                    /\ \A r, q \in db.MapHead : r.rev = q.rev => r = q
                    /\ Revisions = 0..(Len(history) - 1)
                    /\ synced => LatestIsNewest
  BY DEF RevisionsConsecutive
<1>1. PICK n : n = Len(history) /\ n \in Nat
  BY DEF Shapes
<1>2. /\ db.MapHead = {history[k].root : k \in 1..n}
      /\ \A k \in 1..n : history[k].root.rev = k - 1
  BY <1>1 DEF RootsNumbered, Stored
<1>3. Revisions = {history[k].root.rev : k \in 1..n}
  BY <1>2 DEF Revisions
<1>4. Revisions = 0..(n - 1)
  <2>1. Revisions = {k - 1 : k \in 1..n}
    BY <1>2, <1>3
  <2>2. \A i \in 0..(n - 1) : i + 1 \in 1..n /\ i = (i + 1) - 1
    BY <1>1
  <2>3. \A k \in 1..n : k - 1 \in 0..(n - 1)
    BY <1>1
  <2> QED BY <2>1, <2>2, <2>3
<1>5. \A r, q \in db.MapHead : r.rev = q.rev => r = q
  <2>1. \A i, j \in 1..n : history[i].root.rev = history[j].root.rev => i = j
    BY <1>1 DEF RootsNumbered, Stored
  <2> QED BY <1>2, <2>1
<1>6. synced => LatestIsNewest
  <2>1. history # << >> => Len(history) # 0
    BY <1>1 DEF Shapes
  <2> QED BY <2>1, LatestRoot DEF LatestIsNewest
<1> QED BY <1>1, <1>2, <1>4, <1>5, <1>6
-----------------------------------------------------------------------------
\* Leaves.

\* A set of natural numbers that is not empty has a least element.
LEMMA LeastNatural ==
    ASSUME NEW Z \in SUBSET Nat, Z # {}
    PROVE  \E o \in Z : \A p \in Z : o <= p
<1> DEFINE R == OpToRel(<, Nat)
<1>1. PICK o \in Z : \A p \in Z : ~(<<p, o>> \in R)
  <2>1. IsWellFoundedOn(R, Nat)
    BY NatLessThanWellFounded
  <2> HIDE DEF R
  <2> QED BY <2>1, WFMin
<1>2. ASSUME NEW p \in Z PROVE o <= p
  <2>1. ~(p < o)
    BY <1>1 DEF OpToRel
  <2> QED BY <2>1
<1> QED BY <1>2

\* Of some roots up to a revision, one has the greatest.
LEMMA GreatestRevision ==
    ASSUME NEW N, N # {}, NEW f, NEW rev \in Int, \A n \in N : f[n] \in Int /\ f[n] <= rev
    PROVE  \E n \in N : \A k \in N : f[k] <= f[n]
<1>1. PICK Z : Z = {rev - f[n] : n \in N}
  OBVIOUS
<1>2. Z \in SUBSET Nat /\ Z # {}
  BY <1>1
<1>3. PICK o \in Z : \A p \in Z : o <= p
  BY <1>2, LeastNatural
<1>4. PICK n \in N : o = rev - f[n]
  BY <1>1, <1>3
<1>5. ASSUME NEW k \in N PROVE f[k] <= f[n]
  <2>1. rev - f[k] \in Z
    BY <1>1
  <2>2. rev - f[n] <= rev - f[k]
    BY <1>3, <1>4, <2>1
  <2> QED BY <2>2
<1> QED BY <1>5

LEMMA RowIs ==
    ASSUME NEW l, NEW rev
    PROVE  /\ Row(l, rev).key = l.index /\ Row(l, rev).rev = rev
           /\ \A index : [Row(l, rev).leaf EXCEPT !.index = index].value = l.value
<1>1. PICK h : h = HashLeaf(strategy, l.index, l.value)
  OBVIOUS
<1>2. PICK leaf : leaf = [index |-> l.index, value |-> l.value, hash |-> h, extra |-> l.extra]
  OBVIOUS
<1>3. Row(l, rev) = [key |-> leaf.index, rev |-> rev, leaf |-> leaf]
  BY <1>1, <1>2 DEF Row, MapLeafRow, MapLeaf
<1>4. \A index : [leaf EXCEPT !.index = index].value = l.value
  BY <1>2
<1> QED BY <1>2, <1>3, <1>4

\* The rows of an index up to a revision, and the requests that set it.
RowsUpTo(rev, index) == {r \in db.MapLeaf : r.key = index /\ r.rev <= rev}

SetsUpTo(rev, index) ==
    {n \in Stored : history[n].root.rev <= rev /\ Setting(history[n].leaves, index) # {}}

LEMMA RowsOfIndex ==
    ASSUME LeavesNumbered, NEW rev, NEW index
    PROVE  /\ \A n \in SetsUpTo(rev, index) : \A i \in Setting(history[n].leaves, index) :
                Row(history[n].leaves[i], history[n].root.rev) \in RowsUpTo(rev, index)
           /\ \A r \in RowsUpTo(rev, index) :
                \E n \in SetsUpTo(rev, index) : \E i \in Setting(history[n].leaves, index) :
                  r = Row(history[n].leaves[i], history[n].root.rev)
<1>1. \A leaves : Setting(leaves, index) = {i \in Inserted(leaves) : leaves[i].index = index}
  BY DEF Setting, Inserted, Inserts
<1>2. ASSUME NEW n \in SetsUpTo(rev, index), NEW i \in Setting(history[n].leaves, index)
      PROVE  Row(history[n].leaves[i], history[n].root.rev) \in RowsUpTo(rev, index)
  <2>1. n \in Stored /\ history[n].root.rev <= rev
    BY DEF SetsUpTo
  <2>2. i \in Inserted(history[n].leaves) /\ history[n].leaves[i].index = index
    BY <1>1
  <2>3. Row(history[n].leaves[i], history[n].root.rev) \in db.MapLeaf
    BY <2>1, <2>2 DEF LeavesNumbered
  <2> QED BY <2>1, <2>2, <2>3, RowIs DEF RowsUpTo
<1>3. ASSUME NEW r \in RowsUpTo(rev, index)
      PROVE  \E n \in SetsUpTo(rev, index) : \E i \in Setting(history[n].leaves, index) :
               r = Row(history[n].leaves[i], history[n].root.rev)
  <2>1. r \in db.MapLeaf /\ r.key = index /\ r.rev <= rev
    BY DEF RowsUpTo
  <2>2. PICK n \in Stored : \E i \in Inserted(history[n].leaves) :
               r = Row(history[n].leaves[i], history[n].root.rev)
    BY <2>1 DEF LeavesNumbered
  <2>3. PICK i \in Inserted(history[n].leaves) : r = Row(history[n].leaves[i], history[n].root.rev)
    BY <2>2
  <2>4. history[n].leaves[i].index = index /\ history[n].root.rev <= rev
    BY <2>1, <2>3, RowIs
  <2>5. i \in Setting(history[n].leaves, index)
    BY <1>1, <2>4
  <2>6. n \in SetsUpTo(rev, index)
    BY <2>4, <2>5 DEF SetsUpTo
  <2> QED BY <2>3, <2>5, <2>6
<1> QED BY <1>2, <1>3

LEMMA LeavesUpTo ==
    ASSUME RootsNumbered, LeavesNumbered, NEW rev \in Int, NEW index
    PROVE  LET found == Get(db, rev, index)
           IN  ValueAt(rev, index) = IF found = << >> THEN Nil ELSE found[1].value
<1>1. PICK rows : rows = RowsUpTo(rev, index)
  OBVIOUS
<1>2. PICK sets : sets = SetsUpTo(rev, index)
  OBVIOUS
<1>3. /\ \A n \in sets : \A i \in Setting(history[n].leaves, index) :
           Row(history[n].leaves[i], history[n].root.rev) \in rows
      /\ \A r \in rows : \E n \in sets : \E i \in Setting(history[n].leaves, index) :
           r = Row(history[n].leaves[i], history[n].root.rev)
  BY <1>1, <1>2, RowsOfIndex
<1>4. rows = {} <=> sets = {}
  BY <1>2, <1>3 DEF SetsUpTo
<1>5. CASE sets = {}
  <2>1. Get(db, rev, index) = << >>
    BY <1>1, <1>4, <1>5 DEF Get, RowsUpTo
  <2>2. ValueAt(rev, index) = Nil
    BY <1>2, <1>5 DEF ValueAt, SetsUpTo, Stored
  <2> QED BY <2>1, <2>2
<1>6. CASE sets # {}
  <2>1. PICK last : last = CHOOSE n \in sets : \A k \in sets : history[k].root.rev <= history[n].root.rev
    OBVIOUS
  <2>2. last \in sets /\ \A k \in sets : history[k].root.rev <= history[last].root.rev
    <3>1. PICK f : f = [n \in sets |-> history[n].root.rev]
      OBVIOUS
    <3>2. \A n \in sets : f[n] \in Int /\ f[n] <= rev
      BY <1>2, <3>1 DEF RootsNumbered, SetsUpTo
    <3>3. \E n \in sets : \A k \in sets : f[k] <= f[n]
      BY <1>6, <3>2, GreatestRevision
    <3>4. \E n \in sets : \A k \in sets : history[k].root.rev <= history[n].root.rev
      BY <3>1, <3>3
    <3> QED BY <2>1, <3>4
  <2>3. PICK i : i = CHOOSE j \in Setting(history[last].leaves, index) : TRUE
    OBVIOUS
  <2>4. i \in Setting(history[last].leaves, index)
    BY <1>2, <2>2, <2>3 DEF SetsUpTo
  <2>5. ValueAt(rev, index) = history[last].leaves[i].value
    BY <1>2, <1>6, <2>1, <2>3 DEF ValueAt, SetsUpTo, Stored
  <2>6. PICK r : r = CHOOSE q \in rows : \A o \in rows : o.rev <= q.rev
    OBVIOUS
  <2>7. PICK row : row = Row(history[last].leaves[i], history[last].root.rev)
    OBVIOUS
  <2>8. row \in rows /\ row.rev = history[last].root.rev
    BY <1>3, <2>2, <2>4, <2>7, RowIs
  <2>9. \A o \in rows : o.rev <= row.rev
    BY <1>3, <2>2, <2>8, RowIs
  <2>10. r \in rows /\ \A o \in rows : o.rev <= r.rev
    BY <2>6, <2>8, <2>9
  <2>11. PICK n \in sets : \E j \in Setting(history[n].leaves, index) :
             r = Row(history[n].leaves[j], history[n].root.rev)
    BY <1>3, <2>10
  <2>12. PICK j \in Setting(history[n].leaves, index) : r = Row(history[n].leaves[j], history[n].root.rev)
    BY <2>11
  <2>13. r.rev = history[n].root.rev
    BY <2>12, RowIs
  <2>14. history[last].root.rev <= history[n].root.rev /\ history[n].root.rev <= history[last].root.rev
    BY <2>2, <2>8, <2>10, <2>13
  <2>15. n \in Stored /\ last \in Stored
    BY <1>2, <2>2 DEF SetsUpTo
  <2>16. n = last
    <3>1. history[n].root.rev \in Int /\ history[last].root.rev \in Int
      BY <2>15 DEF RootsNumbered
    <3>2. history[n].root.rev = history[last].root.rev
      BY <2>14, <3>1
    <3> QED BY <2>15, <3>2 DEF RootsNumbered
  <2>17. j = i
    <3>1. SetOnce(history[last].leaves, Inserted(history[last].leaves))
      BY <2>15 DEF LeavesNumbered
    <3>2. /\ i \in Inserted(history[last].leaves) /\ j \in Inserted(history[last].leaves)
          /\ history[last].leaves[i].index = index /\ history[last].leaves[j].index = index
      BY <2>4, <2>16 DEF Setting, Inserted, Inserts
    <3> QED BY <3>1, <3>2 DEF SetOnce
  <2>18. PICK found : found = [r.leaf EXCEPT !.index = index]
    OBVIOUS
  <2>19. found.value = history[last].leaves[i].value
    BY <2>12, <2>16, <2>17, <2>18, RowIs
  <2>20. Get(db, rev, index) = <<found>>
    BY <1>1, <1>4, <1>6, <2>6, <2>18 DEF Get, RowsUpTo
  <2> QED BY <2>5, <2>19, <2>20
<1> QED BY <1>5, <1>6

(* With any number of writers, of leaves in a request and of failures, on a tree
   of any depth and on hosts with any clocks, the leaves at every revision are those
   that the published requests up to it have set, and roots are stored in the order
   of their revisions, without a gap, unless leaves were set before the map was
   initialised; with clocks that agree the last one is the one that is served: mapTreeTX.Set, Get and
   StoreSignedMapRoot. *)
THEOREM LeavesAlwaysHistory == Spec => []LeavesAreHistory
<1>1. HistoryInv => LeavesAreHistory
  <2>1. SUFFICES ASSUME HistoryInv PROVE LeavesAreHistory
    OBVIOUS
  <2>2. Shapes /\ RootsNumbered /\ LeavesNumbered
    BY <2>1 DEF HistoryInv
  <2>3. ASSUME NEW rev \in Revisions PROVE rev \in Int
    BY <2>2 DEF Revisions, RootsNumbered
  <2>4. RevisionsConsecutive
    BY <2>2, Consecutive
  <2> QED BY <2>2, <2>3, <2>4, LeavesUpTo DEF LeavesAreHistory
<1> QED BY <1>1, Invariance, PTL

===============================================================================
