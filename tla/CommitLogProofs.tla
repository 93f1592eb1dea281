---------------------------- MODULE CommitLogProofs ---------------------------
(***************************************************************************)
(* Proofs about CommitLogSigner: all signers go through the same STHs, and *)
(* none of them meets a situation that the design says cannot happen.      *)
(***************************************************************************)
EXTENDS CommitLogSigner, FiniteSetTheorems, SequenceTheorems, TLAPS

-------------------------------------------------------------------------------
\* The inductive invariant.

CommitLogTypes ==
    /\ leaves \in Nat /\ clock \in Nat
    /\ sths \in Seq(STH)
    /\ dbSTHInfo \in [Signer -> STHInfo]
    /\ db \in [Signer -> Nat]
    /\ pc \in [Signer -> {"idle", "follow", "lead", "append"}]
    /\ nextOffset \in [Signer -> Nat]
    /\ newSTH \in [Signer -> STH]

Offsets == 0 .. Len(sths) - 1

\* No STH is written for an offset beyond its own; and while the clock only goes on,
\* none is from the future, and those that count are in the order of their times.
TopicInv ==
    /\ \A o \in Offsets : STHAt(o).off <= o
    /\ ~SteppingClock => /\ \A o \in Offsets : STHAt(o).ts <= clock
                         /\ \A o, p \in Accepted : p < o => STHAt(p).ts <= STHAt(o).ts

\* The STHs that a database has gone through.
Applied(s) == {o \in Accepted : o <= dbSTHInfo[s].off}

DatabaseInv(s) ==
    LET info == dbSTHInfo[s]
    IN  /\ db[s] = info.sth.size
        /\ info.off = -1 => info.sth = NoSTH
        /\ info.off # -1 => info.off \in Accepted /\ info.sth = STHAt(info.off)
        /\ info.rev + 1 = Cardinality(Applied(s))

\* Between the database's offset and the one a run has stopped at nothing counts.
\* An STH that is to be appended is over more leaves than the database, and not older
\* than what is before its offset.
RunInv(s) ==
    LET sth == newSTH[s]
    IN  /\ pc[s] # "idle" => /\ nextOffset[s] \in dbSTHInfo[s].off + 1 .. Len(sths)
                             /\ \A p \in dbSTHInfo[s].off + 1 .. nextOffset[s] - 1 : STHAt(p).off < p
        /\ pc[s] = "follow" => nextOffset[s] \in Accepted
        /\ pc[s] = "append" => /\ sth.off = nextOffset[s]
                               /\ db[s] < sth.size /\ sth.size <= leaves
        /\ pc[s] = "append" /\ ~SteppingClock =>
               /\ sth.ts <= clock
               /\ \A p \in 0 .. nextOffset[s] - 1 : STHAt(p).ts <= sth.ts

CommitLogInv ==
    /\ CommitLogTypes /\ TopicInv /\ AcceptedGrow
    /\ \A s \in Signer : DatabaseInv(s) /\ RunInv(s)
-------------------------------------------------------------------------------
\* Where a run stops.

\* A set of natural numbers that is not empty has a least element.
LEMMA LeastNatural ==
    ASSUME NEW Z \in SUBSET Nat, Z # {}
    PROVE  \E o \in Z : \A p \in Z : o <= p
<1> DEFINE R == OpToRel(<, Nat)
<1>1. PICK o \in Z : \A p \in Z : ~(<<p, o>> \in R)
  <2>1. IsWellFoundedOn(R, Nat)
    BY NatLessThanWellFounded
  <2> HIDE DEF R
  <2> QED BY <2>1, WFMin
<1>2. ASSUME NEW p \in Z PROVE o <= p
  <2>1. ~(p < o)
    BY <1>1 DEF OpToRel
  <2> QED BY <2>1
<1> QED BY <1>2

LEMMA TopicType ==
    ASSUME CommitLogTypes, NEW o \in 0 .. Len(sths) - 1
    PROVE  STHAt(o) \in STH /\ STHAt(o).off \in Int /\ STHAt(o).ts \in Nat /\ STHAt(o).size \in Nat
<1>1. sths \in Seq(STH) /\ o + 1 \in 1 .. Len(sths)
  BY DEF CommitLogTypes
<1>2. STHAt(o) \in STH
  BY <1>1, ElementOfSeq DEF STHAt
<1> QED BY <1>2 DEF STH

LEMMA OffsetType ==
    ASSUME CommitLogTypes, NEW s \in Signer, DatabaseInv(s)
    PROVE  dbSTHInfo[s].off \in -1 .. Len(sths) - 1 /\ Len(sths) \in Nat
<1>1. Len(sths) \in Nat
  BY DEF CommitLogTypes
<1> QED BY <1>1 DEF DatabaseInv, Accepted

\* The loop over the topic stops: at the latest at its end.
LEMMA FirstCountingIs ==
    ASSUME CommitLogTypes, TopicInv, NEW s \in Signer, DatabaseInv(s)
    PROVE  LET o == FirstCounting(s)
           IN  /\ o \in dbSTHInfo[s].off + 1 .. Len(sths)
               /\ \A p \in dbSTHInfo[s].off + 1 .. o - 1 : STHAt(p).off < p
               /\ Exists(o) => o \in Accepted
               /\ ~Exists(o) => o = Len(sths)
<1> DEFINE off == dbSTHInfo[s].off
           n   == Len(sths)
           Z   == {o \in off + 1 .. n : Exists(o) => STHAt(o).off >= o}
           P(o) == /\ Exists(o) => STHAt(o).off >= o
                   /\ \A p \in off + 1 .. o - 1 : STHAt(p).off < p
<1>1. off \in -1 .. n - 1 /\ n \in Nat /\ off + 1 \in Nat
  BY OffsetType
<1>2. \A p \in 0 .. n - 1 : STHAt(p).off \in Int
  BY TopicType
<1>3. PICK o \in Z : \A p \in Z : o <= p
  <2>1. n \in Z
    BY <1>1 DEF Exists
  <2>2. Z \in SUBSET Nat
    BY <1>1
  <2> HIDE DEF Z
  <2> QED BY <2>1, <2>2, LeastNatural
<1>4. o \in off + 1 .. n /\ P(o)
  <2>1. o \in off + 1 .. n /\ (Exists(o) => STHAt(o).off >= o)
    OBVIOUS
  <2>2. ASSUME NEW p \in off + 1 .. o - 1 PROVE STHAt(p).off < p
    <3>1. p \in 0 .. n - 1 /\ p \in off + 1 .. n /\ ~(o <= p)
      BY <1>1, <2>1
    <3>2. p \notin Z
      BY <1>3, <3>1
    <3> QED BY <1>2, <3>1, <3>2
  <2> QED BY <2>1, <2>2
<1>5. FirstCounting(s) \in off + 1 .. n /\ P(FirstCounting(s))
  <2>1. FirstCounting(s) = CHOOSE q \in off + 1 .. n : P(q)
    BY DEF FirstCounting
  <2> HIDE DEF off, n, P
  <2> QED BY <1>4, <2>1
<1> DEFINE q == FirstCounting(s)
<1>6. q \in off + 1 .. n /\ P(q)
  BY <1>5
<1> HIDE DEF q
<1>7. Exists(q) => q \in Accepted
  <2>1. SUFFICES ASSUME Exists(q) PROVE q \in Accepted
    OBVIOUS
  <2>2. q \in 0 .. n - 1 /\ STHAt(q).off >= q
    BY <1>1, <1>6, <2>1 DEF Exists
  <2>3. STHAt(q).off <= q /\ STHAt(q).off \in Int
    BY <1>2, <2>2 DEF TopicInv, Offsets
  <2> QED BY <2>2, <2>3 DEF Accepted
<1>8. ~Exists(q) => q = n
  BY <1>1, <1>6 DEF Exists
<1> QED BY <1>6, <1>7, <1>8 DEF q

-------------------------------------------------------------------------------
\* Steps that leave the topic and the databases alone.

LEMMA QuietStep ==
    ASSUME CommitLogInv, CommitLogTypes', sths' = sths, dbSTHInfo' = dbSTHInfo, db' = db,
           leaves' >= leaves, ~SteppingClock => clock' >= clock,
           \A s \in Signer : RunInv(s)'
    PROVE  CommitLogInv'
<1>1. /\ leaves \in Nat /\ leaves' \in Nat /\ clock \in Nat /\ clock' \in Nat
      /\ \A o \in Offsets : STHAt(o) \in STH
  BY TopicType DEF CommitLogInv, CommitLogTypes, Offsets
<1>2. Accepted' = Accepted /\ Offsets' = Offsets /\ \A o : STHAt(o)' = STHAt(o)
  BY DEF Accepted, Offsets, STHAt
<1>3. Accepted \subseteq Offsets
  BY DEF Accepted, Offsets
<1>4. TopicInv'
  BY <1>1, <1>2, <1>3 DEF CommitLogInv, TopicInv, STH
<1>5. AcceptedGrow'
  BY <1>1, <1>2, <1>3 DEF CommitLogInv, AcceptedGrow, STH
<1>6. ASSUME NEW s \in Signer PROVE DatabaseInv(s)'
  <2>1. Applied(s)' = Applied(s)
    BY <1>2 DEF Applied
  <2> QED BY <1>2, <2>1 DEF CommitLogInv, DatabaseInv
<1> QED BY <1>4, <1>5, <1>6 DEF CommitLogInv

\* A run that does not move keeps what is known of it when leaves are added and time
\* goes on.
LEMMA RunKept ==
    ASSUME CommitLogTypes, NEW s \in Signer, RunInv(s), sths' = sths, dbSTHInfo' = dbSTHInfo,
           db' = db, leaves' \in Nat, leaves' >= leaves,
           clock' \in Nat, ~SteppingClock => clock' >= clock,
           pc'[s] = pc[s], nextOffset'[s] = nextOffset[s], newSTH'[s] = newSTH[s]
    PROVE  RunInv(s)'
<1>1. Accepted' = Accepted /\ \A o : STHAt(o)' = STHAt(o)
  BY DEF Accepted, STHAt
<1>2. newSTH[s].size \in Nat /\ newSTH[s].ts \in Nat /\ leaves \in Nat /\ clock \in Nat
  BY DEF CommitLogTypes, STH
<1> QED BY <1>1, <1>2 DEF RunInv

LEMMA EnvironmentInv ==
    ASSUME CommitLogInv, AddLeaf \/ SetMasters \/ Tick \/ UNCHANGED vars
    PROVE  CommitLogInv'
<1>1. CommitLogTypes
  BY DEF CommitLogInv
<1>2. /\ sths' = sths /\ dbSTHInfo' = dbSTHInfo /\ db' = db /\ pc' = pc
      /\ nextOffset' = nextOffset /\ newSTH' = newSTH
      /\ leaves' \in Nat /\ leaves' >= leaves /\ clock' \in Nat
      /\ ~SteppingClock => clock' >= clock
  BY <1>1 DEF CommitLogTypes, AddLeaf, SetMasters, Tick, vars
<1>3. CommitLogTypes'
  BY <1>1, <1>2 DEF CommitLogTypes
<1>4. \A s \in Signer : RunInv(s)'
  BY <1>1, <1>2, RunKept DEF CommitLogInv
<1> QED BY <1>2, <1>3, <1>4, QuietStep

LEMMA ScanInv ==
    ASSUME CommitLogInv, NEW s \in Signer, Scan(s)
    PROVE  CommitLogInv'
<1>1. CommitLogTypes /\ TopicInv /\ DatabaseInv(s)
  BY DEF CommitLogInv
<1>2. PICK o : o = FirstCounting(s)
  OBVIOUS
<1>3. /\ o \in dbSTHInfo[s].off + 1 .. Len(sths)
      /\ \A p \in dbSTHInfo[s].off + 1 .. o - 1 : STHAt(p).off < p
      /\ Exists(o) => o \in Accepted
  BY <1>1, <1>2, FirstCountingIs
<1>4. o \in Nat
  BY <1>1, <1>3, OffsetType
<1>5. /\ sths' = sths /\ dbSTHInfo' = dbSTHInfo /\ db' = db /\ newSTH' = newSTH
      /\ leaves' = leaves /\ clock' = clock
      /\ nextOffset' = [nextOffset EXCEPT ![s] = o]
      /\ pc' = [pc EXCEPT ![s] = IF Exists(o) THEN "follow" ELSE "lead"]
  BY <1>2 DEF Scan
<1>6. CommitLogTypes'
  BY <1>1, <1>4, <1>5 DEF CommitLogTypes
<1>7. ASSUME NEW t \in Signer \ {s} PROVE RunInv(t)'
  <2>1. pc'[t] = pc[t] /\ nextOffset'[t] = nextOffset[t] /\ newSTH'[t] = newSTH[t]
    BY <1>1, <1>5 DEF CommitLogTypes
  <2>2. RunInv(t) /\ leaves \in Nat /\ clock \in Nat
    BY <1>1 DEF CommitLogInv, CommitLogTypes
  <2> QED BY <1>1, <1>5, <2>1, <2>2, RunKept
<1>8. RunInv(s)'
  <2>1. /\ nextOffset'[s] = o
        /\ pc'[s] = IF Exists(o) THEN "follow" ELSE "lead"
    BY <1>1, <1>5 DEF CommitLogTypes
  <2>2. Accepted' = Accepted /\ \A p : STHAt(p)' = STHAt(p)
    BY <1>5 DEF Accepted, STHAt
  <2> QED BY <1>3, <1>5, <2>1, <2>2 DEF RunInv
<1>9. leaves' >= leaves /\ clock' >= clock
  BY <1>1, <1>5 DEF CommitLogTypes
<1> QED BY <1>5, <1>6, <1>7, <1>8, <1>9, QuietStep

LEMMA NothingToDoInv ==
    ASSUME CommitLogInv, NEW s \in Signer, NothingToDo(s)
    PROVE  CommitLogInv'
<1>1. CommitLogTypes
  BY DEF CommitLogInv
<1>2. NoSTH \in STH
  BY DEF NoSTH, STH
<1>3. /\ sths' = sths /\ dbSTHInfo' = dbSTHInfo /\ db' = db
      /\ leaves' = leaves /\ clock' = clock
      /\ pc' = [pc EXCEPT ![s] = "idle"] /\ nextOffset' = [nextOffset EXCEPT ![s] = 0]
      /\ newSTH' = [newSTH EXCEPT ![s] = NoSTH]
  BY DEF NothingToDo, EndRun
<1>4. CommitLogTypes'
  BY <1>1, <1>2, <1>3 DEF CommitLogTypes
<1>5. ASSUME NEW t \in Signer \ {s} PROVE RunInv(t)'
  <2>1. pc'[t] = pc[t] /\ nextOffset'[t] = nextOffset[t] /\ newSTH'[t] = newSTH[t]
    BY <1>1, <1>3 DEF CommitLogTypes
  <2>2. RunInv(t) /\ leaves \in Nat /\ clock \in Nat
    BY <1>1 DEF CommitLogInv, CommitLogTypes
  <2> QED BY <1>1, <1>3, <2>1, <2>2, RunKept
<1>6. RunInv(s)'
  BY <1>1, <1>3 DEF RunInv, CommitLogTypes
<1>7. leaves' >= leaves /\ clock' >= clock
  BY <1>1, <1>3 DEF CommitLogTypes
<1> QED BY <1>3, <1>4, <1>5, <1>6, <1>7, QuietStep
\* The new STH is over more leaves than the database, all of which exist, and it is
\* not older than the STHs before its offset, which have been read already.
LEMMA SignInv ==
    ASSUME CommitLogInv, NEW s \in Signer, Sign(s)
    PROVE  CommitLogInv'
<1>1. CommitLogTypes /\ TopicInv /\ DatabaseInv(s) /\ RunInv(s) /\ pc[s] = "lead"
  BY DEF CommitLogInv, Sign
<1>2. PICK batch : /\ batch = ReadMultiple(dbSTHInfo[s].sth.size, BatchSize) /\ batch > 0
                   /\ newSTH' = [newSTH EXCEPT ![s] = [size |-> db[s] + batch, ts |-> clock,
                                                       off |-> nextOffset[s]]]
  BY DEF Sign
<1>3. /\ db[s] = dbSTHInfo[s].sth.size /\ db[s] \in Nat /\ leaves \in Nat /\ clock \in Nat
      /\ nextOffset[s] \in Nat
  BY <1>1 DEF DatabaseInv, CommitLogTypes
<1>4. batch \in Nat \ {0} /\ db[s] + batch <= leaves /\ db[s] + batch \in Nat
  BY <1>2, <1>3, CommitLogAssumption DEF ReadMultiple
<1>5. /\ sths' = sths /\ dbSTHInfo' = dbSTHInfo /\ db' = db /\ nextOffset' = nextOffset
      /\ leaves' = leaves /\ clock' = clock /\ pc' = [pc EXCEPT ![s] = "append"]
  BY DEF Sign
<1>6. CommitLogTypes'
  <2>1. [size |-> db[s] + batch, ts |-> clock, off |-> nextOffset[s]] \in STH
    BY <1>3, <1>4 DEF STH
  <2> QED BY <1>1, <1>2, <1>5, <2>1 DEF CommitLogTypes
<1>7. ASSUME NEW t \in Signer \ {s} PROVE RunInv(t)'
  <2>1. pc'[t] = pc[t] /\ nextOffset'[t] = nextOffset[t] /\ newSTH'[t] = newSTH[t]
    BY <1>1, <1>2, <1>5 DEF CommitLogTypes
  <2>2. RunInv(t)
    BY DEF CommitLogInv
  <2> QED BY <1>1, <1>3, <1>5, <2>1, <2>2, RunKept
<1>8. RunInv(s)'
  <2>1. /\ pc'[s] = "append" /\ newSTH'[s].off = nextOffset[s] /\ newSTH'[s].ts = clock
        /\ newSTH'[s].size = db[s] + batch
    BY <1>1, <1>2, <1>5 DEF CommitLogTypes
  <2>2. \A p : STHAt(p)' = STHAt(p)
    BY <1>5 DEF STHAt
  <2>3. /\ nextOffset[s] \in dbSTHInfo[s].off + 1 .. Len(sths)
        /\ \A p \in dbSTHInfo[s].off + 1 .. nextOffset[s] - 1 : STHAt(p).off < p
    BY <1>1 DEF RunInv
  <2>4. ASSUME ~SteppingClock, NEW p \in 0 .. nextOffset[s] - 1 PROVE STHAt(p).ts <= clock
    <3>1. p \in Offsets
      BY <1>1, <2>3, OffsetType DEF Offsets
    <3> QED BY <1>1, <2>4, <3>1 DEF TopicInv
  <2> QED BY <1>3, <1>4, <1>5, <2>1, <2>2, <2>3, <2>4 DEF RunInv
<1>9. leaves' >= leaves /\ clock' >= clock
  BY <1>3, <1>5
<1> QED BY <1>5, <1>6, <1>7, <1>8, <1>9, QuietStep

-------------------------------------------------------------------------------
\* Steps that move a database.

LEMMA AppliedFinite ==
    ASSUME CommitLogTypes
    PROVE  IsFiniteSet(Accepted) /\ \A s \in Signer : IsFiniteSet(Applied(s))
<1>1. Len(sths) \in Nat /\ Accepted \subseteq 0 .. Len(sths) - 1
  BY DEF CommitLogTypes, Accepted
<1>2. IsFiniteSet(Accepted)
  <2>1. 0 \in Int /\ Len(sths) - 1 \in Int
    BY <1>1
  <2>2. IsFiniteSet(0 .. Len(sths) - 1)
    BY <2>1, FS_Interval
  <2> QED BY <1>1, <2>2, FS_Subset
<1> QED BY <1>2, FS_Subset DEF Applied

\* A database moves from its offset to the next one that counts: one more STH is
\* applied.
LEMMA AppliedOne ==
    ASSUME CommitLogTypes, NEW s \in Signer, DatabaseInv(s),
           NEW o \in dbSTHInfo[s].off + 1 .. Len(sths),
           \A p \in dbSTHInfo[s].off + 1 .. o - 1 : STHAt(p).off < p
    PROVE  /\ Cardinality(Applied(s) \cup {o}) = Cardinality(Applied(s)) + 1
           /\ {p \in Accepted : p <= o} \subseteq Applied(s) \cup {o}
           /\ \A p \in Accepted : p < o => p \in Applied(s)
<1>1. dbSTHInfo[s].off \in -1 .. Len(sths) - 1 /\ Len(sths) \in Nat
  BY OffsetType
<1>2. o \notin Applied(s) /\ IsFiniteSet(Applied(s))
  BY <1>1, AppliedFinite DEF Applied
<1>3. ASSUME NEW p \in Accepted, p < o PROVE p \in Applied(s)
  <2>1. p \in 0 .. Len(sths) - 1 /\ STHAt(p).off = p
    BY DEF Accepted
  <2>2. ~(p \in dbSTHInfo[s].off + 1 .. o - 1)
    BY <2>1
  <2> QED BY <1>1, <1>3, <2>1, <2>2 DEF Applied
<1>4. {p \in Accepted : p <= o} \subseteq Applied(s) \cup {o}
  <2>1. \A p \in Accepted : p \in Int
    BY <1>1 DEF Accepted
  <2> QED BY <1>1, <1>3, <2>1
<1> QED BY <1>2, <1>3, <1>4, FS_AddElement

LEMMA FollowInv ==
    ASSUME CommitLogInv, NEW s \in Signer, Follow(s)
    PROVE  CommitLogInv'
<1>1. /\ CommitLogTypes /\ TopicInv /\ AcceptedGrow /\ DatabaseInv(s) /\ RunInv(s)
      /\ pc[s] = "follow"
  BY DEF CommitLogInv, Follow
<1>2. PICK o : o = nextOffset[s]
  OBVIOUS
<1>3. /\ o \in dbSTHInfo[s].off + 1 .. Len(sths) /\ o \in Accepted
      /\ \A p \in dbSTHInfo[s].off + 1 .. o - 1 : STHAt(p).off < p
  BY <1>1, <1>2 DEF RunInv
<1>4. /\ o \in 0 .. Len(sths) - 1 /\ STHAt(o).off = o /\ STHAt(o) \in STH
      /\ STHAt(o).size \in Nat /\ STHAt(o).ts \in Nat
  BY <1>1, <1>3, TopicType DEF Accepted
<1>5. db[s] = dbSTHInfo[s].sth.size /\ db[s] \in Nat
  BY <1>1 DEF DatabaseInv, CommitLogTypes
<1>6. db[s] + (STHAt(o).size - dbSTHInfo[s].sth.size) = STHAt(o).size
  BY <1>4, <1>5
<1>7. [size |-> STHAt(o).size, ts |-> STHAt(o).ts, off |-> o] = STHAt(o)
  BY <1>4 DEF STH
<1>8. /\ sths' = sths /\ leaves' = leaves /\ clock' = clock
      /\ db' = [db EXCEPT ![s] = STHAt(o).size]
      /\ dbSTHInfo' = [dbSTHInfo EXCEPT ![s] =
                          [rev |-> dbSTHInfo[s].rev + 1, off |-> o, sth |-> STHAt(o)]]
      /\ EndRun(s)
  BY <1>2, <1>6, <1>7 DEF Follow
<1>9. NoSTH \in STH /\ dbSTHInfo[s].rev + 1 \in Int
  BY <1>1 DEF NoSTH, STH, CommitLogTypes, STHInfo
<1>10. CommitLogTypes'
  <2>1. [rev |-> dbSTHInfo[s].rev + 1, off |-> o, sth |-> STHAt(o)] \in STHInfo
    BY <1>4, <1>9 DEF STHInfo
  <2> QED BY <1>1, <1>4, <1>8, <1>9, <2>1 DEF CommitLogTypes, EndRun
<1>11. Accepted' = Accepted /\ Offsets' = Offsets /\ \A p : STHAt(p)' = STHAt(p)
  BY <1>8 DEF Accepted, Offsets, STHAt
<1>12. TopicInv' /\ AcceptedGrow'
  BY <1>1, <1>8, <1>11 DEF TopicInv, AcceptedGrow
<1>13. ASSUME NEW t \in Signer \ {s} PROVE DatabaseInv(t)' /\ RunInv(t)'
  <2>1. /\ db'[t] = db[t] /\ dbSTHInfo'[t] = dbSTHInfo[t] /\ pc'[t] = pc[t]
        /\ nextOffset'[t] = nextOffset[t] /\ newSTH'[t] = newSTH[t]
    BY <1>1, <1>8 DEF CommitLogTypes, EndRun
  <2>2. DatabaseInv(t) /\ RunInv(t) /\ Applied(t)' = Applied(t)
    BY <1>11, <2>1 DEF CommitLogInv, Applied
  <2>3. DatabaseInv(t)'
    BY <1>11, <2>1, <2>2 DEF DatabaseInv
  <2> QED BY <1>8, <1>11, <2>1, <2>2, <2>3 DEF RunInv
<1>14. RunInv(s)'
  BY <1>1, <1>8 DEF RunInv, EndRun, CommitLogTypes
<1>15. DatabaseInv(s)'
  <2>1. /\ db'[s] = STHAt(o).size /\ dbSTHInfo'[s].off = o /\ dbSTHInfo'[s].sth = STHAt(o)
        /\ dbSTHInfo'[s].rev = dbSTHInfo[s].rev + 1
    BY <1>1, <1>8 DEF CommitLogTypes
  <2>2. Applied(s)' = Applied(s) \cup {o}
    <3>1. Applied(s)' = {p \in Accepted : p <= o}
      BY <1>11, <2>1 DEF Applied
    <3>2. o \in {p \in Accepted : p <= o}
      BY <1>3, <1>4
    <3>3. dbSTHInfo[s].off \in -1 .. Len(sths) - 1
      BY <1>1, OffsetType
    <3>4. ASSUME NEW p \in Applied(s) PROVE p \in Accepted /\ p <= o
      BY <1>3, <1>4, <3>3, <3>4 DEF Applied, Accepted
    <3>5. {p \in Accepted : p <= o} \subseteq Applied(s) \cup {o}
      BY <1>1, <1>3, AppliedOne
    <3> QED BY <3>1, <3>2, <3>4, <3>5
  <2>3. dbSTHInfo[s].rev + 1 + 1 = Cardinality(Applied(s)')
    BY <1>1, <1>3, <2>2, AppliedOne DEF DatabaseInv
  <2> QED BY <1>3, <1>4, <1>11, <2>1, <2>3 DEF DatabaseInv
<1> QED BY <1>10, <1>12, <1>13, <1>14, <1>15 DEF CommitLogInv
\* The topic after an append: what was there stays, and the new STH counts if it got
\* the offset that it was written for.
LEMMA TopicAppended ==
    ASSUME CommitLogTypes, NEW s \in Signer, sths' = Append(sths, newSTH[s]),
           NEW n, n = Len(sths)
    PROVE  /\ n \in Nat /\ Len(sths') = n + 1
           /\ \A o \in 0 .. n - 1 : STHAt(o)' = STHAt(o)
           /\ STHAt(n)' = newSTH[s] /\ newSTH[s] \in STH
           /\ Accepted' = Accepted \cup (IF newSTH[s].off = n THEN {n} ELSE {})
<1>1. sths \in Seq(STH) /\ newSTH[s] \in STH
  BY DEF CommitLogTypes
<1>2. /\ n \in Nat /\ Len(sths') = n + 1 /\ sths'[n + 1] = newSTH[s]
      /\ \A i \in 1 .. n : sths'[i] = sths[i]
  BY <1>1
<1>3. ASSUME NEW o \in 0 .. n - 1 PROVE STHAt(o)' = STHAt(o)
  <2>1. o + 1 \in 1 .. n
    BY <1>2
  <2> QED BY <1>2, <2>1 DEF STHAt
<1>4. STHAt(n)' = newSTH[s]
  BY <1>2 DEF STHAt
<1>5. Accepted' = {o \in 0 .. n : STHAt(o)' .off = o}
  BY <1>2 DEF Accepted
<1>6. Accepted = {o \in 0 .. n - 1 : STHAt(o).off = o}
  BY DEF Accepted
<1>7. 0 .. n = (0 .. n - 1) \cup {n} /\ n \notin 0 .. n - 1
  BY <1>2
<1>8. Accepted' = Accepted \cup (IF newSTH[s].off = n THEN {n} ELSE {})
  BY <1>3, <1>4, <1>5, <1>6, <1>7
<1> QED BY <1>1, <1>2, <1>3, <1>4, <1>8

\* An append does not touch the run or the database of another signer: its database is
\* before the new offset.
LEMMA OthersAppend ==
    ASSUME CommitLogInv, NEW s \in Signer, NEW t \in Signer,
           sths' = Append(sths, newSTH[s]), leaves' = leaves, clock' = clock,
           db'[t] = db[t], dbSTHInfo'[t] = dbSTHInfo[t]
    PROVE  /\ DatabaseInv(t)'
           /\ pc'[t] = pc[t] /\ nextOffset'[t] = nextOffset[t] /\ newSTH'[t] = newSTH[t]
                  => RunInv(t)'
<1> PICK n : n = Len(sths)
  OBVIOUS
<1>1. CommitLogTypes /\ DatabaseInv(t) /\ RunInv(t)
  BY DEF CommitLogInv
<1>2. /\ n \in Nat /\ Len(sths') = n + 1
      /\ \A o \in 0 .. n - 1 : STHAt(o)' = STHAt(o)
      /\ Accepted' = Accepted \cup (IF newSTH[s].off = n THEN {n} ELSE {})
  BY <1>1, TopicAppended
<1>3. dbSTHInfo[t].off \in -1 .. n - 1
  BY <1>1, OffsetType
<1>4. Accepted \subseteq 0 .. n - 1
  BY DEF Accepted
<1>5. Applied(t)' = Applied(t)
  <2>1. Applied(t)' = {o \in Accepted' : o <= dbSTHInfo[t].off}
    BY DEF Applied
  <2>2. ~(n <= dbSTHInfo[t].off)
    BY <1>2, <1>3
  <2> QED BY <1>2, <2>1, <2>2 DEF Applied
<1>6. DatabaseInv(t)'
  BY <1>1, <1>2, <1>3, <1>4, <1>5 DEF DatabaseInv
<1>7. ASSUME pc'[t] = pc[t] /\ nextOffset'[t] = nextOffset[t] /\ newSTH'[t] = newSTH[t]
      PROVE  RunInv(t)'
  <2>1. nextOffset[t] \in Nat
    BY <1>1 DEF CommitLogTypes
  <2>2. ASSUME pc[t] # "idle"
        PROVE  /\ nextOffset[t] \in dbSTHInfo[t].off + 1 .. n
               /\ \A p \in dbSTHInfo[t].off + 1 .. nextOffset[t] - 1 :
                      STHAt(p)' = STHAt(p) /\ STHAt(p).off < p
               /\ \A p \in 0 .. nextOffset[t] - 1 : STHAt(p)' = STHAt(p)
    <3>1. /\ nextOffset[t] \in dbSTHInfo[t].off + 1 .. n
          /\ \A p \in dbSTHInfo[t].off + 1 .. nextOffset[t] - 1 : STHAt(p).off < p
      BY <1>1, <2>2 DEF RunInv
    <3>2. /\ \A p \in 0 .. nextOffset[t] - 1 : p \in 0 .. n - 1
          /\ \A p \in dbSTHInfo[t].off + 1 .. nextOffset[t] - 1 : p \in 0 .. n - 1
      BY <1>2, <1>3, <2>1, <3>1
    <3> QED BY <1>2, <3>1, <3>2
  <2>3. pc[t] # "idle" => nextOffset[t] \in dbSTHInfo[t].off + 1 .. n + 1
    BY <1>2, <1>3, <2>2
  <2> QED BY <1>1, <1>2, <1>7, <2>2, <2>3 DEF RunInv
<1> QED BY <1>6, <1>7
\* A signer whose STH gets the offset it expects has applied all those that count, so
\* that the new one is over more leaves than any of them.
LEMMA AllApplied ==
    ASSUME CommitLogInv, NEW s \in Signer, pc[s] = "append", nextOffset[s] = Len(sths),
           NEW p \in Accepted
    PROVE  p \in Applied(s) /\ STHAt(p).size < newSTH[s].size
<1>1. CommitLogTypes /\ AcceptedGrow /\ DatabaseInv(s) /\ RunInv(s)
  BY DEF CommitLogInv
<1>2. PICK off : off = dbSTHInfo[s].off
  OBVIOUS
<1>3. off \in -1 .. Len(sths) - 1 /\ Len(sths) \in Nat
  BY <1>1, <1>2, OffsetType
<1>4. /\ Len(sths) \in off + 1 .. Len(sths)
      /\ \A q \in off + 1 .. Len(sths) - 1 : STHAt(q).off < q
  BY <1>1, <1>2 DEF RunInv
<1>5. p \in 0 .. Len(sths) - 1
  BY DEF Accepted
<1>6. p \in Applied(s)
  <2>1. p < Len(sths)
    BY <1>3, <1>5
  <2> QED BY <1>1, <1>2, <1>4, <2>1, AppliedOne
<1>7. p <= off /\ off # -1
  BY <1>2, <1>3, <1>5, <1>6 DEF Applied
<1>8. off \in Accepted /\ STHAt(off).size = db[s] /\ off \in 0 .. Len(sths) - 1
  BY <1>1, <1>2, <1>7 DEF DatabaseInv, Accepted
<1>9. STHAt(p).size \in Nat /\ db[s] \in Nat /\ newSTH[s].size \in Nat
  BY <1>1, <1>5, TopicType DEF CommitLogTypes, STH
<1>10. STHAt(p).size <= db[s]
  <2>1. CASE p = off
    BY <1>8, <1>9, <2>1
  <2>2. CASE p < off
    BY <1>1, <1>8, <1>9, <2>2 DEF AcceptedGrow
  <2> QED BY <1>3, <1>5, <1>7, <2>1, <2>2
<1>11. db[s] < newSTH[s].size
  BY <1>1 DEF RunInv
<1> QED BY <1>6, <1>9, <1>10, <1>11

LEMMA AppendInv ==
    ASSUME CommitLogInv, NEW s \in Signer, AppendSTH(s)
    PROVE  CommitLogInv'
<1>1. /\ CommitLogTypes /\ TopicInv /\ AcceptedGrow /\ DatabaseInv(s) /\ RunInv(s)
      /\ pc[s] = "append" /\ sths' = Append(sths, newSTH[s])
      /\ leaves' = leaves /\ clock' = clock /\ EndRun(s)
  BY DEF CommitLogInv, AppendSTH
<1>2. PICK n : n = Len(sths)
  OBVIOUS
<1>3. PICK sth : sth = newSTH[s]
  OBVIOUS
<1>4. /\ n \in Nat /\ Len(sths') = n + 1
      /\ \A o \in 0 .. n - 1 : STHAt(o)' = STHAt(o)
      /\ STHAt(n)' = sth /\ sth \in STH
      /\ Accepted' = Accepted \cup (IF sth.off = n THEN {n} ELSE {})
  BY <1>1, <1>2, <1>3, TopicAppended
<1>5. /\ sth.off = nextOffset[s] /\ db[s] < sth.size /\ sth.size <= leaves
      /\ nextOffset[s] \in dbSTHInfo[s].off + 1 .. n
      /\ \A p \in dbSTHInfo[s].off + 1 .. nextOffset[s] - 1 : STHAt(p).off < p
      /\ ~SteppingClock => /\ sth.ts <= clock
                           /\ \A p \in 0 .. nextOffset[s] - 1 : STHAt(p).ts <= sth.ts
  BY <1>1, <1>2, <1>3 DEF RunInv
<1>6. /\ dbSTHInfo[s].off \in -1 .. n - 1 /\ Accepted \subseteq 0 .. n - 1
      /\ leaves \in Nat /\ clock \in Nat /\ sth.size \in Nat /\ sth.ts \in Nat
      /\ nextOffset[s] \in Nat
  BY <1>1, <1>2, <1>4, OffsetType DEF Accepted, CommitLogTypes, STH
<1>7. /\ \A o \in 0 .. n - 1 : STHAt(o).off \in Int /\ STHAt(o).ts \in Nat /\ STHAt(o).size \in Nat
      /\ Offsets = 0 .. n - 1 /\ Offsets' = (0 .. n - 1) \cup {n} /\ n \notin 0 .. n - 1
  BY <1>1, <1>2, <1>4, TopicType DEF Offsets
<1>8. sth.off = n => \A p \in Accepted : p \in Applied(s) /\ STHAt(p).size < sth.size
  BY <1>1, <1>2, <1>3, <1>5, AllApplied
<1>9. TopicInv'
  <2>1. \A o \in Offsets' : STHAt(o)' .off <= o
    BY <1>1, <1>4, <1>5, <1>6, <1>7 DEF TopicInv
  <2>2. ASSUME ~SteppingClock PROVE \A o \in Offsets' : STHAt(o)' .ts <= clock
    BY <1>1, <1>4, <1>5, <1>7, <2>2 DEF TopicInv
  <2>3. ASSUME ~SteppingClock, NEW o \in Accepted', NEW p \in Accepted', p < o
        PROVE  STHAt(p)' .ts <= STHAt(o)' .ts
    <3>1. CASE o \in Accepted
      <4>1. p \in Accepted
        BY <1>4, <1>6, <2>3, <3>1
      <4> QED BY <1>1, <1>4, <1>6, <2>3, <3>1, <4>1 DEF TopicInv
    <3>2. CASE o \notin Accepted
      <4>1. o = n /\ sth.off = n
        BY <1>4, <3>2
      <4>2. p # n
        BY <1>4, <2>3, <4>1
      <4>3. p \in Accepted
        BY <1>4, <4>2
      <4>4. p \in 0 .. n - 1
        BY <1>6, <4>3
      <4> QED BY <1>4, <1>5, <2>3, <4>1, <4>4
    <3> QED BY <3>1, <3>2
  <2> QED BY <1>1, <2>1, <2>2, <2>3 DEF TopicInv
<1>10. AcceptedGrow'
  <2>1. ASSUME NEW o \in Accepted' PROVE STHAt(o)' .size <= leaves
    <3>1. CASE o \in Accepted
      BY <1>1, <1>4, <1>6, <3>1 DEF AcceptedGrow
    <3>2. CASE o = n
      BY <1>4, <1>5, <3>2
    <3> QED BY <1>4, <3>1, <3>2
  <2>2. ASSUME NEW o \in Accepted', NEW p \in Accepted', p < o
        PROVE  STHAt(p)' .size < STHAt(o)' .size
    <3>1. CASE o \in Accepted
      <4>1. p \in Accepted
        BY <1>4, <1>6, <2>2, <3>1
      <4> QED BY <1>1, <1>4, <1>6, <2>2, <3>1, <4>1 DEF AcceptedGrow
    <3>2. CASE o \notin Accepted
      <4>1. o = n /\ sth.off = n /\ p \in Accepted /\ p \in 0 .. n - 1
        BY <1>4, <1>6, <2>2, <3>2
      <4> QED BY <1>4, <1>8, <4>1
    <3> QED BY <3>1, <3>2
  <2> QED BY <1>1, <2>1, <2>2 DEF AcceptedGrow
<1>11. CASE n # nextOffset[s]
  <2>1. db' = db /\ dbSTHInfo' = dbSTHInfo
    BY <1>2, <1>11 DEF AppendSTH
  <2>2. CommitLogTypes'
    <3>1. NoSTH \in STH /\ sths' \in Seq(STH)
      BY <1>1, <1>3, <1>4 DEF NoSTH, STH, CommitLogTypes
    <3> QED BY <1>1, <2>1, <3>1 DEF CommitLogTypes, EndRun
  <2>3. ASSUME NEW t \in Signer PROVE DatabaseInv(t)'
    BY <1>1, <2>1, OthersAppend
  <2>4. ASSUME NEW t \in Signer \ {s} PROVE RunInv(t)'
    <3>1. pc'[t] = pc[t] /\ nextOffset'[t] = nextOffset[t] /\ newSTH'[t] = newSTH[t]
      BY <1>1 DEF CommitLogTypes, EndRun
    <3> QED BY <1>1, <2>1, <3>1, OthersAppend
  <2>5. RunInv(s)'
    BY <1>1 DEF RunInv, EndRun, CommitLogTypes
  <2> QED BY <1>9, <1>10, <2>2, <2>3, <2>4, <2>5 DEF CommitLogInv
<1>12. CASE n = nextOffset[s]
  <2>1. /\ db' = [db EXCEPT ![s] = sth.size]
        /\ dbSTHInfo' = [dbSTHInfo EXCEPT ![s] =
                            [rev |-> dbSTHInfo[s].rev + 1, off |-> n, sth |-> sth]]
    BY <1>2, <1>3, <1>12 DEF AppendSTH
  <2>2. CommitLogTypes'
    <3>1. NoSTH \in STH /\ sths' \in Seq(STH)
      BY <1>1, <1>3, <1>4 DEF NoSTH, STH, CommitLogTypes
    <3>2. dbSTHInfo[s].rev + 1 \in Int
      BY <1>1 DEF CommitLogTypes, STHInfo
    <3>3. [rev |-> dbSTHInfo[s].rev + 1, off |-> n, sth |-> sth] \in STHInfo
      BY <1>4, <3>2 DEF STHInfo
    <3>4. db' \in [Signer -> Nat] /\ dbSTHInfo' \in [Signer -> STHInfo]
      BY <1>1, <1>6, <2>1, <3>3 DEF CommitLogTypes
    <3> QED BY <1>1, <3>1, <3>4 DEF CommitLogTypes, EndRun
  <2>3. ASSUME NEW t \in Signer \ {s} PROVE DatabaseInv(t)' /\ RunInv(t)'
    <3>1. /\ db'[t] = db[t] /\ dbSTHInfo'[t] = dbSTHInfo[t] /\ pc'[t] = pc[t]
          /\ nextOffset'[t] = nextOffset[t] /\ newSTH'[t] = newSTH[t]
      BY <1>1, <2>1 DEF CommitLogTypes, EndRun
    <3> QED BY <1>1, <3>1, OthersAppend
  <2>4. RunInv(s)'
    BY <1>1 DEF RunInv, EndRun, CommitLogTypes
  <2>5. DatabaseInv(s)'
    <3>1. /\ db'[s] = sth.size /\ dbSTHInfo'[s].off = n /\ dbSTHInfo'[s].sth = sth
          /\ dbSTHInfo'[s].rev = dbSTHInfo[s].rev + 1
      BY <1>1, <2>1 DEF CommitLogTypes
    <3>2. Accepted' = Accepted \cup {n} /\ n \in Accepted'
      BY <1>4, <1>5, <1>12
    <3>3. Applied(s)' = Applied(s) \cup {n}
      <4>1. Applied(s)' = {p \in Accepted' : p <= n}
        BY <3>1 DEF Applied
      <4>2. \A p \in Accepted' : p <= n
        BY <1>4, <1>6, <3>2
      <4>3. Applied(s) = Accepted
        BY <1>5, <1>8, <1>12 DEF Applied
      <4> QED BY <3>2, <4>1, <4>2, <4>3
    <3>4. Cardinality(Applied(s) \cup {n}) = Cardinality(Applied(s)) + 1
      BY <1>1, <1>2, <1>5, <1>12, AppliedOne
    <3>5. dbSTHInfo[s].rev + 1 + 1 = Cardinality(Applied(s)')
      BY <1>1, <3>3, <3>4 DEF DatabaseInv
    <3>6. n # -1
      BY <1>4
    <3> QED BY <1>4, <3>1, <3>2, <3>5, <3>6 DEF DatabaseInv
  <2> QED BY <1>9, <1>10, <2>2, <2>3, <2>4, <2>5 DEF CommitLogInv
<1> QED BY <1>11, <1>12
-------------------------------------------------------------------------------
LEMMA CommitLogInit ==
    ASSUME Init
    PROVE  CommitLogInv
<1>1. NoSTH \in STH
  BY DEF NoSTH, STH
<1>2. CommitLogTypes
  <2>1. [rev |-> -1, off |-> -1, sth |-> NoSTH] \in STHInfo
    BY <1>1 DEF STHInfo
  <2> QED BY <1>1, <2>1 DEF Init, CommitLogTypes
<1>3. Len(sths) = 0 /\ Offsets = {} /\ Accepted = {}
  BY DEF Init, Offsets, Accepted
<1>4. TopicInv /\ AcceptedGrow
  BY <1>3 DEF TopicInv, AcceptedGrow
<1>5. ASSUME NEW s \in Signer PROVE DatabaseInv(s)
  <2>1. Applied(s) = {}
    BY <1>3 DEF Applied
  <2>2. Cardinality(Applied(s)) = 0
    BY <2>1, FS_EmptySet
  <2> QED BY <1>1, <2>2 DEF DatabaseInv, Init, NoSTH
<1>6. ASSUME NEW s \in Signer PROVE RunInv(s)
  BY DEF RunInv, Init
<1> QED BY <1>2, <1>4, <1>5, <1>6 DEF CommitLogInv

LEMMA CommitLogStep ==
    ASSUME CommitLogInv, [Next]_vars
    PROVE  CommitLogInv'
<1>1. ASSUME NEW s \in Signer, SignerStep(s) PROVE CommitLogInv'
  BY <1>1, ScanInv, NothingToDoInv, SignInv, AppendInv, FollowInv DEF SignerStep
<1>2. CASE AddLeaf \/ SetMasters \/ Tick \/ UNCHANGED vars
  BY <1>2, EnvironmentInv
<1> QED BY <1>1, <1>2 DEF Next

\* Run of the sample signer keeps the invariant, for any number of signers, with and
\* without an election, and whatever the clock does.
THEOREM CommitLogInvariance == Spec => []CommitLogInv
<1>1. Init => CommitLogInv
  BY CommitLogInit
<1>2. CommitLogInv /\ [Next]_vars => CommitLogInv'
  BY CommitLogStep
<1> QED BY <1>1, <1>2, PTL DEF Spec

\* However many signers believe to be master, their databases go through the same
\* STHs in the same order: the offset that Append returns is the only arbiter.
THEOREM DatabasesAlwaysAgree == Spec => []DatabasesAgree
<1>1. CommitLogInv => DatabasesAgree
  BY DEF CommitLogInv, DatabaseInv, DatabasesAgree, Applied
<1> QED BY <1>1, CommitLogInvariance, PTL

\* None of the "!!" errors of Run can happen.
LEMMA NotSurprised ==
    ASSUME CommitLogInv, ~SteppingClock, NEW s \in Signer
    PROVE  /\ SanityOK(s)
           /\ Exists(FirstCounting(s)) => SuccessorOK(s, FirstCounting(s))
<1>1. CommitLogTypes /\ TopicInv /\ AcceptedGrow /\ DatabaseInv(s)
  BY DEF CommitLogInv
<1>2. PICK off : off = dbSTHInfo[s].off
  OBVIOUS
<1>3. off \in -1 .. Len(sths) - 1 /\ Len(sths) \in Nat
  BY <1>1, <1>2, OffsetType
<1>4. off # -1 => /\ off \in Accepted /\ dbSTHInfo[s].sth = STHAt(off)
                  /\ off \in 0 .. Len(sths) - 1 /\ STHAt(off).off = off
  BY <1>1, <1>2 DEF DatabaseInv, Accepted
<1>5. off = -1 => dbSTHInfo[s].sth.size = 0 /\ dbSTHInfo[s].sth.ts = 0
  BY <1>1, <1>2 DEF DatabaseInv, NoSTH
<1>6. SanityOK(s)
  BY <1>2, <1>3, <1>4, <1>5 DEF SanityOK, Exists
<1>7. PICK o : o = FirstCounting(s)
  OBVIOUS
<1>8. o \in off + 1 .. Len(sths) /\ (Exists(o) => o \in Accepted)
  BY <1>1, <1>2, <1>7, FirstCountingIs
<1>9. ASSUME Exists(o) PROVE SuccessorOK(s, o)
  <2>1. o \in Accepted /\ o \in 0 .. Len(sths) - 1 /\ STHAt(o).off = o
    BY <1>8, <1>9 DEF Accepted
  <2>2. STHAt(o).ts \in Nat /\ STHAt(o).size \in Nat
    BY <1>1, <2>1, TopicType
  <2>3. CASE off = -1
    BY <1>5, <2>1, <2>2, <2>3 DEF SuccessorOK
  <2>4. CASE off # -1
    <3>1. off < o /\ STHAt(off).ts \in Nat /\ STHAt(off).size \in Nat
      BY <1>1, <1>3, <1>4, <1>8, <2>4, TopicType
    <3>2. STHAt(off).ts <= STHAt(o).ts
      BY <1>1, <1>4, <2>1, <2>4, <3>1 DEF TopicInv
    <3>3. STHAt(off).size < STHAt(o).size
      BY <1>1, <1>4, <2>1, <2>4, <3>1 DEF AcceptedGrow
    <3> QED BY <1>4, <2>1, <2>2, <2>4, <3>1, <3>2, <3>3 DEF SuccessorOK
  <2> QED BY <2>3, <2>4
<1> QED BY <1>6, <1>7, <1>9

\* As long as the clock is not set back, no signer meets an error that the design says
\* "should not happen"; with a clock that may be set back one does, and from then on
\* in every run (SanityOK is about sizes and offsets, SuccessorOK about times too).
THEOREM NeverASurprise == ~SteppingClock => (Spec => []NoSurprise)
<1>1. SUFFICES ASSUME ~SteppingClock PROVE Spec => []NoSurprise
  OBVIOUS
<1>2. CommitLogInv => NoSurprise
  <2>1. SUFFICES ASSUME CommitLogInv PROVE NoSurprise
    OBVIOUS
  <2>2. ASSUME NEW s \in Signer, pc[s] = "append" PROVE Len(sths) >= nextOffset[s]
    <3>1. nextOffset[s] \in dbSTHInfo[s].off + 1 .. Len(sths)
      BY <2>1, <2>2 DEF CommitLogInv, RunInv
    <3>2. Len(sths) \in Nat
      BY <2>1 DEF CommitLogInv, CommitLogTypes
    <3> QED BY <3>1, <3>2
  <2>3. ASSUME NEW s \in Signer, pc[s] = "follow" PROVE STHAt(nextOffset[s]).size <= leaves
    BY <2>1, <2>3 DEF CommitLogInv, RunInv, AcceptedGrow
  <2> QED BY <1>1, <2>1, <2>2, <2>3, NotSurprised DEF NoSurprise, CommitLogInv
<1> QED BY <1>2, CommitLogInvariance, PTL

===============================================================================
