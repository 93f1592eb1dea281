------------------------------ MODULE MapClients -------------------------------
(***************************************************************************)
(* The clients of a map: the mapper of a log, the clients that create and    *)
(* initialise a map, the integration tests, and the hammer.                  *)
(***************************************************************************)
EXTENDS MapServer

(* examples/ct/ctmapper/mapper/mapper.go: a process that copies a log into a map, from
   domain names to the indices of the entries that name them.  How far it has come is
   kept in the metadata of the map's root, so that it is stored with the leaves of a
   batch or not at all. *)

CONSTANTS Entries,       \* the log, from index 0: which domains an entry names, if its type is known
          HashDomain,    \* the index of a domain; "" is the empty domain
          LogBatchSize,
          MaxEmptyRuns   \* bound: revisions written without progress

ASSUME MapperAssumption == IsFiniteSet(DOMAIN HashDomain)

VARIABLE mapper

NewMapper == [pc |-> "idle", seq |-> 0, domains |-> [d \in {} |-> Nil], empty |-> 0]

\* Mutant: a run starts at the last entry that is mapped.
HighestFullyCompletedSeqAgain(root) == IF root.meta = Nil THEN 0 ELSE root.meta[1] - 1

HighestFullyCompletedSeq(root) == IF root.meta = Nil THEN 0 ELSE root.meta[1]

\* Entries of a sequence of indices that name a domain, in order.
Naming(d, from, to) ==
    SelectSeq([i \in 1..(to - from + 1) |-> from + i - 1],
              LAMBDA i : Entries[i + 1].known /\ d \in Entries[i + 1].domains)

Domains == DOMAIN HashDomain \ {""}

updateDomainMap(from, to) ==
    [d \in {e \in Domains : Naming(e, from, to) # << >>} |-> Naming(d, from, to)]

LastKnown(seq, from, to) ==
    LET known == {i \in from..to : Entries[i + 1].known} \cup {seq}
    IN  CHOOSE i \in known : \A j \in known : j <= i

(* The latest root and the entries after those it covers; the log answers with
   some of those asked for. *)
FetchEntries ==
    /\ mapper.pc = "idle" /\ GetLatestRoot.ok /\ mapper.empty < MaxEmptyRuns
    /\ LET seq == HighestFullyCompletedSeq(GetLatestRoot.root)
       IN \E to \in (seq + 1)..(seq + 1 + LogBatchSize) :
            /\ to < Len(Entries)
            /\ mapper' = [mapper EXCEPT !.pc = "set", !.seq = LastKnown(seq, seq + 1, to),
                            !.domains = updateDomainMap(seq + 1, to),
                            !.empty = IF LastKnown(seq, seq + 1, to) = seq THEN @ + 1 ELSE @]
    /\ UNCHANGED serverVars

(* What the map has of the domains is merged behind what is new.  A domain that
   is not in the map comes back as the empty domain. *)
MergedWith(old) ==
    [d \in DOMAIN old \cup {e \in {""} : \E o \in DOMAIN old : old[o] = Nil} |->
       IF d \in DOMAIN old THEN mapper.domains[d] \o old[d] ELSE Nil]

Merged ==
    MergedWith([d \in DOMAIN mapper.domains |-> GetLeaves(<<HashDomain[d]>>).inclusions[1].leaf.value])

MapperLeaves(merged) ==
    [i \in 1..Cardinality(DOMAIN merged) |->
       LET d == SetToSeq(DOMAIN merged)[i]
       IN  [index |-> HashDomain[d], value |-> merged[d], extra |-> Nil]]

MapperSetLeaves(w) ==
    /\ mapper.pc = "set"
    /\ BeginSet(w, MapperLeaves(Merged), <<mapper.seq>>)
    /\ mapper' = [mapper EXCEPT !.pc = "wait", !.domains = [d \in {} |-> Nil]]

(* Whatever the answer, the next run begins with the latest root. *)
MapperReturn(w) ==
    /\ mapper.pc = "wait" /\ Return(w)
    /\ mapper' = [mapper EXCEPT !.pc = "idle", !.seq = 0]

MapperStep(w) == FetchEntries \/ MapperSetLeaves(w) \/ MapperReturn(w)

-----------------------------------------------------------------------------
(* client/admin.go and client/backoff/backoff.go for maps: a tree is created and
   initialised, each call being tried again until it succeeds or the context is
   done. *)

CONSTANT MaxTries        \* bound: calls of a client, after which its context is done

VARIABLE init            \* the clients, one for each writer

NewInit == [pc |-> "create", tries |-> 0, created |-> 0]

\* Retry: after an error the function is called again unless the context is done.
Again(c) == IF c.tries < MaxTries THEN [c EXCEPT !.tries = @ + 1] ELSE [c EXCEPT !.pc = "expired"]

(* The answer to CreateTree may be lost after the tree was created. *)
CreateTree(w) ==
    /\ init[w].pc = "create"
    /\ \/ init' = [init EXCEPT ![w].pc = "init", ![w].created = @ + 1]
       \/ init' = [init EXCEPT ![w] = Again([@ EXCEPT !.created = @ + 1])]
       \/ init' = [init EXCEPT ![w] = Again(@)]
    /\ UNCHANGED serverVars

InitMap(w) ==
    /\ init[w].pc = "init" /\ BeginInit(w)
    /\ init' = [init EXCEPT ![w].pc = "wait"]

InitReturn(w) ==
    /\ init[w].pc = "wait" /\ Return(w)
    /\ init' = [init EXCEPT ![w] = IF req[w].ok THEN [@ EXCEPT !.pc = "root"]
                                   ELSE Again([@ EXCEPT !.pc = "init"])]

(* Wait for map root to become available. *)
AwaitRoot(w) ==
    /\ init[w].pc = "root"
    /\ init' = [init EXCEPT ![w] = IF GetSignedMapRootByRevision(0).ok THEN [@ EXCEPT !.pc = "done"]
                                   ELSE Again(@)]
    /\ UNCHANGED serverVars

AdminStep(w) == CreateTree(w) \/ InitMap(w) \/ InitReturn(w) \/ AwaitRoot(w)

-----------------------------------------------------------------------------
(* integration/maptest/map.go: tests that set some batches of leaves, one request after
   the other, and then read them back. *)

CONSTANT BatchSize, NumBatches

ASSUME MapTestsAssumption ==
    BatchSize \in Nat /\ NumBatches \in Nat /\ BatchSize * NumBatches < 2^HashBits

VARIABLE test            \* the test that runs and how many of its batches were set

TestIndex(n) == Bits(n, HashBits)

TestLeaf(n, value) == [index |-> TestIndex(n), value |-> value, extra |-> Nil]

createBatchLeaves(batch, n) ==
    [i \in 1..n |-> TestLeaf((batch - 1) * n + i - 1, <<batch, i>>)]

(* What each test sets. *)
TestBatches ==
    [RunMapRevisionZero |-> << >>,
     RunMapRevisionInvalid |-> << << >>, <<TestLeaf(1, <<"A">>)>> >>,
     RunLeafHistory |-> << << >>, <<TestLeaf(0, <<"A">>)>>, << >>, <<TestLeaf(0, <<"B">>)>>,
                           <<TestLeaf(0, <<"C">>)>> >>,
     RunInclusionSingle |-> << <<TestLeaf(0, <<"A">>)>> >>,
     RunInclusionMulti |-> << <<TestLeaf(0, <<"A">>), TestLeaf(1, <<"B">>), TestLeaf(2, <<"C">>),
                                TestLeaf(3, Nil)>> >>,
     RunInclusionAcrossSubtrees |-> << <<TestLeaf(2^(HashBits - 1) + 1, <<"Z">>)>> >>,
     RunInclusionBatch |-> [b \in 1..NumBatches |-> createBatchLeaves(b, BatchSize)]]

NewTest(name) == [run |-> name, set |-> 0, failed |-> FALSE]

Batches(t) == TestBatches[t.run]

-----------------------------------------------------------------------------
(* What each test reads. *)

isEmptyMap == GetLatestRoot.ok /\ GetLatestRoot.root.rev = 0

RevisionZeroPasses ==
    /\ GetLatestRoot.ok /\ verifyGetSignedMapRootResponse(GetLatestRoot.root, 0)
    /\ GetSignedMapRootByRevision(0) = GetLatestRoot
    /\ ~GetSignedMapRootByRevision(1).ok

RevisionInvalidPasses ==
    \A rev \in {-1, 0} : GetLeavesByRevision(<<TestIndex(1)>>, rev).ok <=> rev = 0

\* The answer at a revision verifies and has these leaves.
Holding(rsp, leaves, rev) ==
    /\ verifyGetMapLeavesResponse(strategy, rsp, [i \in 1..Len(leaves) |-> leaves[i].index], rev)
    /\ \A i \in 1..Len(leaves) : rsp.inclusions[i].leaf.value = leaves[i].value

LeafHistoryPasses ==
    LET has(rev, n, value) ==
          Holding(GetLeavesByRevision(<<TestIndex(n)>>, rev), <<TestLeaf(n, value)>>, rev)
    IN  /\ has(1, 0, Nil) /\ has(2, 2^HashBits - 1, Nil) /\ has(2, 0, <<"A">>)
        /\ has(3, 0, <<"A">>) /\ has(4, 0, <<"B">>) /\ has(5, 0, <<"C">>)

InclusionPasses(leaves) ==
    LET indexes == [i \in 1..Len(leaves) |-> leaves[i].index]
    IN  verifyGetMapLeavesResponse(strategy, GetLeaves(indexes), indexes, 1)

InclusionBatchPasses ==
    LET leaves == FlattenSeq(TestBatches.RunInclusionBatch)
    IN  /\ GetLatestRoot.ok /\ GetLatestRoot.root.rev = NumBatches
        /\ Holding(GetLeaves([i \in 1..Len(leaves) |-> leaves[i].index]), leaves, NumBatches)

TestReads(t) ==
    CASE t.run = "RunMapRevisionZero" -> RevisionZeroPasses
      [] t.run = "RunMapRevisionInvalid" -> RevisionInvalidPasses
      [] t.run = "RunLeafHistory" -> LeafHistoryPasses
      [] t.run = "RunInclusionBatch" -> InclusionBatchPasses
      [] OTHER -> InclusionPasses(Batches(t)[1])

-----------------------------------------------------------------------------
TestSetLeaves(w) ==
    /\ test.set < Len(Batches(test)) /\ ~test.failed
    /\ BeginSet(w, Batches(test)[test.set + 1], Nil)
    /\ UNCHANGED test

(* An error ends the test. *)
TestReturn(w) ==
    /\ Return(w)
    /\ test' = [test EXCEPT !.set = @ + 1, !.failed = ~req[w].ok]

TestStep(w) == TestSetLeaves(w) \/ TestReturn(w)

-----------------------------------------------------------------------------
(* testonly/hammer/hammer.go: a client that sets and reads leaves of a map at random,
   remembers the contents of the map at some revisions and some roots, and compares
   what it reads with them. Its reads change nothing and are checks of a state
   between two of its requests; requests that set leaves go through the server's
   actions. *)

CONSTANTS HammerKeys,    \* the indices of the keys, in the order of their creation
          NonexistentKey, \* the index of "non-existent-key"
          Malformed,     \* an index that is too short
          CopyCount, SMRCount,
          InvalidStretch,
          MaxBatch,      \* bound: leaves of a request
          MaxRevision    \* bound: revisions that are written

ASSUME HammerAssumption == MaxBatch \in Nat

VARIABLE hammer

NoContents == [data |-> [k \in {} |-> Nil], rev |-> 0]

\* contents and smr from later to earlier.
NewHammer == [state |-> "idle", contents |-> << >>, smr |-> << >>, keyIdx |-> 0, valueIdx |-> 0,
              sent |-> << >>]

Push(x, seq, count) == SubSeq(<<x>> \o seq, 1, IF Len(seq) < count THEN Len(seq) + 1 ELSE count)

pushSMR(h, smr) == [h EXCEPT !.smr = Push(smr, @, SMRCount)]

latestContents(h) == IF h.contents = << >> THEN NoContents ELSE h.contents[1]

\* The copies that reads may use: up to the first empty one.
Copies(h) == {i \in 1..Len(h.contents) : \A j \in 1..i : DOMAIN h.contents[j].data # {}}

updatedData(data, leaves) ==
    LET set == {l \in Range(leaves) : l.value # Nil}
        gone == {l.index : l \in Range(leaves) \ set}
        value(k) == (CHOOSE l \in set : l.index = k).value
    IN  [k \in (DOMAIN data \cup {l.index : l \in set}) \ gone |->
           IF \E l \in set : l.index = k THEN value(k) ELSE data[k]]

(* Its two sanity checks end the test. *)
updateContents(h, rev, leaves) ==
    LET new == [rev |-> rev, data |-> updatedData(latestContents(h).data, leaves)]
    IN  [h EXCEPT !.contents = Push(new, @, CopyCount),
                  !.state = IF rev < 1 \/ rev <= latestContents(h).rev THEN "failed" ELSE "idle"]

checkContents(data, inclusions) ==
    \A i \in 1..Len(inclusions) :
      LET leaf == inclusions[i].leaf
      IN  IF leaf.index \in DOMAIN data
            THEN leaf.value = data[leaf.index] /\ leaf.extra = leaf.value
            ELSE leaf.value = Nil

-----------------------------------------------------------------------------
(* The operations that read.  Each index may be asked for on its own. *)

Expected(data, rsp) == rsp.ok /\ checkContents(data, rsp.inclusions)

getLeaves(h) ==
    Copies(h) # {} => \A k \in DOMAIN h.contents[1].data \cup {NonexistentKey} :
        Expected(h.contents[1].data, GetLeaves(<<k>>))

getLeavesRev(h) ==
    \A which \in Copies(h) : \A k \in DOMAIN h.contents[which].data \cup {NonexistentKey} :
        Expected(h.contents[which].data, GetLeavesByRevision(<<k>>, h.contents[which].rev))

getLeavesInvalid(h) == ~GetLeaves(<<Malformed>>).ok

getLeavesRevInvalid(h) ==
    LET rev == latestContents(h).rev
    IN  \A ask \in {<<Malformed, rev>>} \cup
                   (DOMAIN latestContents(h).data) \X {rev + InvalidStretch, -rev - InvalidStretch} :
          ~GetLeavesByRevision(<<ask[1]>>, ask[2]).ok

getSMRRev(h) ==
    \A i \in 1..Len(h.smr) : h.smr[i].rev >= 0 =>
        LET rsp == GetSignedMapRootByRevision(h.smr[i].rev) IN rsp.ok /\ rsp.root = h.smr[i]

getSMRRevInvalid(h) ==
    LET rev == IF DOMAIN latestContents(h).data = {} THEN mostRecentRevision ELSE latestContents(h).rev
    IN  ~GetSignedMapRootByRevision(rev + InvalidStretch).ok
        /\ ~GetSignedMapRootByRevision(-InvalidStretch).ok

ReadsPass(h) ==
    getLeaves(h) /\ getLeavesRev(h) /\ getLeavesInvalid(h) /\ getLeavesRevInvalid(h)
    /\ getSMRRev(h) /\ getSMRRevInvalid(h)

-----------------------------------------------------------------------------
Choice(op, key) == [op |-> op, key |-> key]

HammerChoices ==
    {Choice("CreateLeaf", Nil)} \cup
    {Choice(op, k) : op \in {"UpdateLeaf", "DeleteLeaf"}, k \in DOMAIN latestContents(hammer).data}

Creates(batch, i) == Cardinality({j \in 1..i : batch[j].op = "CreateLeaf"})

SetLeafRequest(index, value) == [index |-> index, value |-> value, extra |-> value]

ChosenLeaf(batch, i) ==
    LET value == <<hammer.valueIdx + i>>
    IN  CASE batch[i].op = "CreateLeaf" ->
               SetLeafRequest(HammerKeys[hammer.keyIdx + Creates(batch, i)], value)
          [] batch[i].op = "UpdateLeaf" -> SetLeafRequest(batch[i].key, value)
          [] batch[i].op = "DeleteLeaf" -> SetLeafRequest(batch[i].key, Nil)

(* setLeaves: a batch ends where it would choose a key again. *)
HammerSetLeaves(w) ==
    /\ hammer.state = "idle" /\ LatestSignedMapRoot(db).rev < MaxRevision
    /\ \E n \in 1..MaxBatch : \E batch \in [1..n -> HammerChoices] :
         /\ hammer.keyIdx + Creates(batch, n) <= Len(HammerKeys)
         /\ \A i, j \in 1..n : batch[i].op # "CreateLeaf" /\ batch[i].key = batch[j].key => i = j
         /\ LET leaves == [i \in 1..n |-> ChosenLeaf(batch, i)]
            IN  /\ BeginSet(w, leaves, Nil)
                /\ hammer' = [hammer EXCEPT !.state = "set", !.sent = leaves,
                                            !.keyIdx = @ + Creates(batch, n), !.valueIdx = @ + n]

(* setLeavesInvalid: a malformed index, or an index twice. *)
HammerSetInvalid(w) ==
    /\ hammer.state = "idle" /\ LatestSignedMapRoot(db).rev < MaxRevision
    /\ \E leaves \in {<<SetLeafRequest(Malformed, <<0>>)>>} \cup
                     {<<SetLeafRequest(k, <<0>>), SetLeafRequest(k, <<0>>)>> :
                        k \in DOMAIN latestContents(hammer).data} :
         BeginSet(w, leaves, Nil)
    /\ hammer' = [hammer EXCEPT !.state = "invalid"]

(* performOp and performInvalidOp return; without IgnoreErrors any unexpected
   answer ends the test. *)
HammerReturn(w) ==
    /\ hammer.state \in {"set", "invalid"} /\ Return(w)
    /\ LET ok == req[w].ok
           h == [hammer EXCEPT !.sent = << >>]
       IN  hammer' = CASE hammer.state = "set" /\ ok ->
                            updateContents(pushSMR(h, req[w].root), req[w].root.rev, hammer.sent)
                       [] hammer.state = "invalid" /\ ~ok -> [h EXCEPT !.state = "idle"]
                       [] OTHER -> [h EXCEPT !.state = "failed"]

getSMR ==
    /\ hammer.state = "idle" /\ GetLatestRoot.ok
    /\ hammer' = pushSMR(hammer, GetLatestRoot.root)
    /\ UNCHANGED serverVars

HammerStep(w) == HammerSetLeaves(w) \/ HammerSetInvalid(w) \/ HammerReturn(w) \/ getSMR
=============================================================================
