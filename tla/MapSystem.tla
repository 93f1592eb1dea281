------------------------------- MODULE MapSystem -------------------------------
(***************************************************************************)
(* The map server with its clients.  mode says which clients there are: one  *)
(* that hammers the map, the mapper of a log, the integration tests, clients *)
(* that create and initialise the map, or several that set leaves and        *)
(* initialise it without regard for each other, on a map in use or before.   *)
(***************************************************************************)
EXTENDS MapClients

CONSTANTS Modes,
          OneWriter,     \* the writer of the modes with one client
          RaceBatches,   \* the sequences of leaves that writers of "race" set
          MaxRequests    \* bound: requests of "race"

ASSUME RaceAssumption == \A leaves \in RaceBatches : Len(leaves) \in Nat

VARIABLES mode,
          history,       \* every root that was stored, with the leaves of its request
          sent           \* requests of "race"

drivers == <<hammer, mapper, init, test, sent>>
vars == <<serverVars, drivers, mode, history>>

\* A map in use; its first root is stored by InitMap.
UsedDB(s, smrTs) ==
    LET smr == SignedMapRoot(HashEmpty(s, Zeros(HashBits), HashBits), smrTs, 0, Nil, Nil)
    IN  [EmptyDB EXCEPT !.MapHead = {[smr EXCEPT !.sig = Unsigned(smr)]}]

Init ==
    /\ mode \in Modes
    /\ strategy \in Strategies
    /\ synced \in IF mode \in {"hammer", "test"} THEN {TRUE} ELSE BOOLEAN
    /\ \/ /\ mode \in {"hammer", "mapper", "test", "race"}
          /\ \E smrTs \in IF synced THEN {1} ELSE Clock : ServerInit(UsedDB(strategy, smrTs))
       \/ mode \in {"init", "early"} /\ ServerInit(EmptyDB)
    /\ history = IF db.MapHead = {} THEN << >>
                 ELSE <<[root |-> LatestSignedMapRoot(db), leaves |-> << >>]>>
    /\ hammer = NewHammer
    /\ mapper = NewMapper
    /\ init = [w \in Writer |-> NewInit]
    /\ test \in IF mode = "test" THEN {NewTest(name) : name \in DOMAIN TestBatches}
                                 ELSE {NewTest("RunMapRevisionZero")}
    /\ sent = 0

(* A step of the server; a root that appears is noted with what its request set. *)
Noted(w) ==
    history' = IF db'.MapHead = db.MapHead THEN history
               ELSE Append(history, [root |-> CHOOSE r \in db'.MapHead \ db.MapHead : TRUE,
                                     leaves |-> IF req[w].op = "wait" THEN req[w].leaves ELSE << >>])

Server(w) ==
    /\ RequestStep(w) \/ \E p \in DOMAIN trees[w] : SubtreeStep(w, p)
    /\ Noted(w)
    /\ UNCHANGED <<drivers, mode>>

(* Calls fail where the client is meant to cope with it. *)
Fails(w) ==
    /\ mode \in {"mapper", "init", "race", "early"}
    /\ ServerFault(w)
    /\ Noted(w)
    /\ UNCHANGED <<drivers, mode>>

RaceRequest(w) ==
    /\ sent < MaxRequests
    /\ BeginInit(w) \/ \E leaves \in RaceBatches : BeginSet(w, leaves, Nil)
    /\ sent' = sent + 1

RaceStep(w) == RaceRequest(w) \/ (Return(w) /\ UNCHANGED sent)

Client(w) ==
    /\ \/ mode = "hammer" /\ w = OneWriter /\ HammerStep(w) /\ UNCHANGED <<mapper, init, test, sent>>
       \/ mode = "mapper" /\ w = OneWriter /\ MapperStep(w) /\ UNCHANGED <<hammer, init, test, sent>>
       \/ mode = "init" /\ AdminStep(w) /\ UNCHANGED <<hammer, mapper, test, sent>>
       \/ mode = "test" /\ w = OneWriter /\ TestStep(w) /\ UNCHANGED <<hammer, mapper, init, sent>>
       \/ mode \in {"race", "early"} /\ RaceStep(w) /\ UNCHANGED <<hammer, mapper, init, test>>
    /\ UNCHANGED <<mode, history>>

Next == \E w \in Writer : Server(w) \/ Fails(w) \/ Client(w)

(* Some goroutine of the request can go on: Server(w) is enabled. *)
CanStep(w) ==
    \/ req[w].op \in {"insert", "init"}
    \/ req[w].op = "send" /\ HasRoom(trees[w], Leaf(w).index)
    \/ req[w].op = "wait" /\ trees[w][Top].root # NoHash
    \/ \E p \in DOMAIN trees[w] :
         \/ Goroutine(w, p, "begin") \/ Ready(w, p)
         \/ Goroutine(w, p, "drain") /\ req[w].op = "answered"
         \/ Goroutine(w, p, "drain") /\ trees[w][p].queue # << >>
            /\ (p = Top => trees[w][Head(trees[w][p].queue).index].root # NoHash)

(* Go runs every goroutine that can go on: weak fairness of Server(w), written
   with its enabling condition. *)
Fairness ==
    \A w \in Writer :
      []<>~CanStep(w) \/ []<><<req'[w] # req[w] \/ trees'[w] # trees[w]>>_vars

Spec == Init /\ [][Next]_vars /\ Fairness
-----------------------------------------------------------------------------
Revisions == {r.rev : r \in db.MapHead}

(* The latest root is the one stored last: "LatestSignedMapRoot returns the most
   recently created SignedMapRoot" (storage/map_storage.go). *)
LatestIsNewest == history # << >> => LatestSignedMapRoot(db) = history[Len(history)].root

Indices == [1..HashBits -> {0, 1}]

\* The leaves of a request that set an index: an empty value sets nothing.
Setting(leaves, index) == {i \in 1..Len(leaves) : leaves[i].index = index /\ leaves[i].value # Nil}

\* What the requests up to a revision have set: the last value.
ValueAt(rev, index) ==
    LET sets == {n \in 1..Len(history) :
                   history[n].root.rev <= rev /\ Setting(history[n].leaves, index) # {}}
        last == CHOOSE n \in sets : \A k \in sets : history[k].root.rev <= history[n].root.rev
    IN  IF sets = {} THEN Nil
        ELSE history[last].leaves[CHOOSE i \in Setting(history[last].leaves, index) : TRUE].value

(* Rows, requests and clients are in one of the states that the code gives them. *)
TypeOK ==
    /\ mode \in Modes /\ strategy \in Strategies /\ faults \in 0..MaxFaults
    /\ \A r \in db.MapHead : r.rev >= -1 /\ r.ts > 0 /\ r.sig = Unsigned(r)
    /\ \A r \in db.MapLeaf : r.key \in Indices /\ r.rev >= -1 /\ r.leaf.value # Nil
    /\ \A r \in db.Subtree : r.rev >= 0 /\ Len(r.subtree.prefix) < HashBits
    /\ \A w \in Writer : req[w].op \in {"idle", "insert", "send", "wait", "init", "answered"}
    /\ \A w \in Writer : \A p \in DOMAIN trees[w] :
         trees[w][p].state \in {"begin", "drain", "done"} /\ Len(trees[w][p].queue) <= leafQueueSize(p) + 1
    /\ hammer.state \in {"idle", "set", "invalid", "failed"}
    /\ mapper.pc \in {"idle", "set", "wait"} /\ mapper.seq \in 0..Len(Entries)
    /\ \A w \in Writer : init[w].pc \in {"create", "init", "wait", "root", "done", "expired"}
    /\ sent \in 0..MaxRequests

\* One writer, whose calls of the database succeed, and clocks that agree.
Orderly == mode \notin {"race", "early"} /\ faults = 0 /\ synced

(* Every leaf of every published revision comes with a proof that the client's
   verifier accepts against the signed root, also while the next revision is
   being written and its Merkle nodes are stored, subtree by subtree, before its
   root: GetLeavesByRevision with verifyGetMapLeavesResponse. *)
ProofsVerify ==
    Orderly =>
      \A rev \in Revisions : \A index \in Indices :
        verifyGetMapLeavesResponse(strategy, GetLeavesByRevision(<<index>>, rev), <<index>>, rev)

(* The hash of the sparse tree with these contents, from its definition: an
   empty branch has the empty hash of its height. *)
TreeHash(contents) ==
    LET below[prefix \in Seq({0, 1})] ==
          IF \A i \in DOMAIN contents : SubSeq(i, 1, Len(prefix)) # prefix
            THEN HashEmpty(strategy, Fit(prefix, HashBits), HashBits - Len(prefix))
          ELSE IF Len(prefix) = HashBits THEN HashLeaf(strategy, prefix, contents[prefix])
          ELSE HashChildren(below[Append(prefix, 0)], below[Append(prefix, 1)])
    IN  below[<< >>]

(* The root of a revision commits to exactly what has been set up to it,
   whatever the batches were and in whichever order their subtrees finished:
   MapServer.SetLeaves, subtreeWriter and HStar2.  And what it commits to can be
   proved. *)
RootsCommit ==
    /\ ProofsVerify
    /\ Orderly =>
      \A r \in db.MapHead :
        LET set == {i \in Indices : ValueAt(r.rev, i) # Nil}
        IN  r.hash = TreeHash([i \in set |-> ValueAt(r.rev, i)])

(* Each root that is stored has the revision after the one stored before it, each
   revision has one root, and with clocks that agree the latest root, which decides
   what the next request reads and writes, is the one stored last; unless leaves
   were set before the map was initialised: MapServer.SetLeaves and InitMap. *)
RevisionsConsecutive ==
    -1 \notin Revisions =>
      /\ \A n \in 1..Len(history) : history[n].root.rev = n - 1
      /\ \A r, q \in db.MapHead : r.rev = q.rev => r = q
      /\ Revisions = 0..(Len(history) - 1)
      /\ synced => LatestIsNewest

(* With any writers, failures and clocks, the leaves at a revision are those
   that the published requests up to it have set: a request that fails leaves no
   leaf behind, and of two requests for one revision only one is published:
   mapTreeTX.Set, Get and StoreSignedMapRoot.  The revisions are without a gap. *)
LeavesAreHistory ==
    /\ RevisionsConsecutive
    /\ \A rev \in Revisions : \A index \in Indices :
      LET found == Get(db, rev, index)
      IN  ValueAt(rev, index) = IF found = << >> THEN Nil ELSE found[1].value

(* testonly/hammer: no operation of the hammer gets an answer it does not expect,
   at the revisions and roots that it remembers. *)
HammerPasses ==
    hammer.state # "failed" /\ (mode = "hammer" /\ hammer.state = "idle" => ReadsPass(hammer))

(* integration/maptest: the tests pass in every order in which the goroutines of
   their requests can run. *)
TestsPass ==
    mode = "test" =>
      /\ ~test.failed
      /\ req[OneWriter] = Idle /\ test.set = 0 => isEmptyMap
      /\ req[OneWriter] = Idle /\ test.set = Len(Batches(test)) => TestReads(test)

(* examples/ct/ctmapper: the entries up to the one in the metadata of the latest
   root are in the map under each of their domains, once, whatever answers were
   lost. *)
MappedOnce ==
    mode = "mapper" =>
      LET seq == HighestFullyCompletedSeq(LatestSignedMapRoot(db))
      IN  \A d \in Domains :
            LET found == Get(db, LatestSignedMapRoot(db).rev, HashDomain[d])
                value == IF found = << >> THEN Nil ELSE found[1].value
            IN  /\ ToSet(value) = {i \in 1..seq : Entries[i + 1].known /\ d \in Entries[i + 1].domains}
                /\ \A i, j \in 1..Len(value) : value[i] = value[j] => i = j

(* client.CreateAndInitTree: a client that is told that its map is ready has a
   map with a root at revision 0. *)
InitDone == \A w \in Writer : init[w].pc = "done" => 0 \in Revisions

(* The programs that use the map, each in its mode, see what they expect of it. *)
ClientsPass == TypeOK /\ HammerPasses /\ TestsPass /\ MappedOnce /\ InitDone

(* Every request is answered, although the goroutines of its subtrees wait for
   its leaves and for each other: the queue of the top has room for all of its
   children, and CalculateRoot closes every queue. *)
SetAnswered ==
    \A w \in Writer : []<>(req[w].op \in {"idle", "answered"} \/ faults > 0)

(* Every answer has leaves with proofs that verify, with any number of writers:
   "Each requested index will return an inclusion proof to the leaf, or nil". *)
IndexesAreProved ==
    \A rev \in Revisions : rev >= 0 => \A index \in Indices :
      verifyGetMapLeavesResponse(strategy, GetLeavesByRevision(<<index>>, rev), <<index>>, rev)
================================================================================
