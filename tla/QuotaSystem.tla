------------------------------ MODULE QuotaSystem -----------------------------
(***************************************************************************)
(* How tokens move: the interceptor of the log servers takes tokens for    *)
(* the leaves of a request and gives them back for leaves that were not    *)
(* queued (server/interceptor/interceptor.go), through the cache of tokens *)
(* that each server keeps (quota/cacheqm/cache.go), and the signer puts    *)
(* tokens back for the leaves it sequenced (log/sequencer.go).             *)
(*                                                                         *)
(* The requests are QueueLeaves.  Read requests do the same with quotas    *)
(* of other names.                                                         *)
(***************************************************************************)
EXTENDS QuotaStorage, Bags, FiniteSets, FiniteSetsExt, Functions

CONSTANTS Frontend, Rpc,
          ServerOf,      \* the frontend that serves an RPC
          TreeQuota,      \* the quotas of trees, one for each tree
          GlobalQuota,    \* the quota that all requests share
          InitConfig,    \* the configurations at the start
          NewConfig,     \* the configurations that administrators write
          Skew,          \* how far the clock of a frontend is off
          MinBatchSize,  \* --quota_min_batch_size
          MaxEntries,    \* --quota_max_cache_entries
          DryRun,        \* --quota_dry_run
          IncreaseFactor,\* --quota_increase_factor, in percent
          MaxRequest,    \* bound: leaves in a request
          MaxRpcs,       \* bound: requests
          MaxTime,       \* bound: where the clock stops
          MaxFailures,   \* bound: failures and cancellations
          MaxAdmin       \* bound: administrative operations

ASSUME SystemAssumption ==
    /\ IsFiniteSet(Frontend) /\ Frontend # {} /\ IsFiniteSet(Rpc) /\ IsFiniteSet(Quota)
    /\ ServerOf \in [Rpc -> Frontend]
    /\ TreeQuota \subseteq Quota /\ GlobalQuota \in Quota \ (TreeQuota \cup UserQuota)
    /\ UserQuota \cap TreeQuota = {}
    /\ InitConfig \in [Quota -> Config] /\ NewConfig \subseteq Config
    /\ Skew \in [Frontend -> Nat]
    /\ MinBatchSize \in Nat \ {0} /\ MaxEntries \in Nat \ {0}
    /\ DryRun \in BOOLEAN /\ IncreaseFactor \in Nat
    /\ MaxRequest \in Nat /\ MaxRpcs \in Nat /\ MaxTime \in Nat /\ MaxFailures \in Nat /\ MaxAdmin \in Nat

VARIABLES rpc,           \* the RPCs between Before and After
          cache,         \* cache[f] has an entry for each quota that f caches
          evicting,      \* the frontends with an evict goroutine under way
          puts,          \* the calls of PutTokens that are under way, a bag
          backlog,       \* backlog[t] is the number of leaves waiting in the tree t
          now, failures, admin, rpcs,
          granted,       \* history: the tokens taken from the buckets of users
          unpaid         \* history: leaves queued whose tokens were given back

frontendVars == <<rpc, cache, evicting>>
boundVars    == <<now, failures, admin, rpcs>>
vars == <<storageVars, frontendVars, puts, backlog, boundVars, granted, unpaid>>

NoRpc == [tree |-> "none", leaves |-> 0]

Init ==
    /\ cfgs = InitConfig
    /\ buckets = [s \in Quota |-> [tokens |-> InitConfig[s].max, last |-> 0]]
    /\ rpc = [r \in Rpc |-> NoRpc]
    /\ cache = [f \in Frontend |-> <<>>]
    /\ evicting = {}
    /\ puts = EmptyBag
    /\ backlog = [t \in TreeQuota |-> 0]
    /\ now = 0 /\ failures = 0 /\ admin = 0 /\ rpcs = 0
    /\ granted = [s \in UserQuota |-> 0]
    /\ unpaid = [t \in TreeQuota |-> 0]

Idle(r)  == rpc[r] = NoRpc
Arrive(r) == Idle(r) /\ rpcs < MaxRpcs /\ rpcs' = rpcs + 1
Clock(f) == now + Skew[f]

\* A call goes wrong: a deadline, a cancelled context, an error of etcd.
Failure == failures < MaxFailures /\ failures' = failures + 1

\* newRPCInfo: the quotas that a request to a tree is charged to.
SpecsOf(t) == UserQuota \cup {t, GlobalQuota}

-------------------------------------------------------------------------------
\* The cache.
Cached(f) == DOMAIN cache[f]
CachedIn(f, s) == IF s \in Cached(f) THEN cache[f][s].tokens ELSE 0

\* Mutant: an entry that is too small is not refilled.
MissingEntries(f, n, specs) == {s \in specs : s \notin Cached(f)}

ToRefill(f, n, specs) == {s \in specs : CachedIn(f, s) < n \/ s \notin Cached(f)}

\* The entries after the refill and after n tokens of each are spent.
Filled(f, n, specs, refill) ==
    [s \in Cached(f) \cup refill |->
        IF s \in specs
        THEN [tokens |-> CachedIn(f, s) + (IF s \in refill THEN n + MinBatchSize ELSE 0) - n,
              lastModified |-> Clock(f)]
        ELSE cache[f][s]]

\* qm.GetTokens of the wrapped manager, when it succeeds.
TakeFromBuckets(f, n, refill) ==
    /\ Get(refill, n + MinBatchSize, Clock(f))
    /\ granted' = [s \in UserQuota |-> granted[s] + IF s \in refill THEN n + MinBatchSize ELSE 0]

SpawnEvict(f, refill) ==
    evicting' = IF refill = {} THEN evicting ELSE evicting \cup {f}

\* GetTokens succeeds.  The cache is locked throughout.
GetTokens(f, n, specs) ==
    LET refill == ToRefill(f, n, specs)
    IN  /\ TakeFromBuckets(f, n, refill)
        /\ cache' = [cache EXCEPT ![f] = Filled(f, n, specs, refill)]
        /\ SpawnEvict(f, refill)

\* GetTokens fails: a quota is short of tokens, or etcd cannot be reached, in which
\* case the transaction may still have been committed.
GetTokensFails(f, n, specs) ==
    LET refill == ToRefill(f, n, specs)
    IN  /\ refill # {}
        /\ \/ /\ ~Modifiable(refill, Clock(f), -(n + MinBatchSize))
              /\ UNCHANGED <<buckets, granted, failures>>
           \/ /\ Failure
              /\ UNCHANGED <<buckets, granted>>
           \/ /\ Failure
              /\ TakeFromBuckets(f, n, refill)
        /\ cache' = cache
        /\ SpawnEvict(f, refill)

\* evict: the entries that were used least recently go, the global one stays, and
\* their tokens are put back by goroutines that run on when the lock is released.
Evict(f) ==
    /\ f \in evicting
    /\ evicting' = evicting \ {f}
    /\ LET own    == Cached(f) \ {GlobalQuota}
           excess == Cardinality(Cached(f)) - MaxEntries
       IN  \E E \in SUBSET own :
              /\ Cardinality(E) = IF excess > 0 THEN excess ELSE 0
              /\ \A e \in E, k \in own \ E : cache[f][e].lastModified <= cache[f][k].lastModified
              /\ cache' = [cache EXCEPT ![f] = [s \in Cached(f) \ E |-> cache[f][s]]]
              /\ puts' = puts (+) SetToBag({[specs |-> {e}, tokens |-> cache[f][e].tokens] : e \in E})
    /\ UNCHANGED <<storageVars, rpc, backlog, boundVars, granted, unpaid>>

-------------------------------------------------------------------------------
\* Before takes the tokens, and the handler runs.
Before(r, t, n) ==
    /\ Arrive(r)
    /\ GetTokens(ServerOf[r], n, SpecsOf(t))
    /\ rpc' = [rpc EXCEPT ![r] = [tree |-> t, leaves |-> n]]
    /\ UNCHANGED <<cfgs, puts, backlog, now, failures, admin, unpaid>>

\* The context ends while Before has the tokens: it returns an error, and After,
\* which would return them, is not called.
BeforeCancelled(r, t, n) ==
    /\ Arrive(r)
    /\ Failure
    /\ GetTokens(ServerOf[r], n, SpecsOf(t))
    /\ UNCHANGED <<cfgs, rpc, puts, backlog, now, admin, unpaid>>

\* Without tokens the request is refused, or goes on in a dry run.
BeforeDenied(r, t, n) ==
    /\ Arrive(r)
    /\ GetTokensFails(ServerOf[r], n, SpecsOf(t))
    /\ rpc' = IF DryRun THEN [rpc EXCEPT ![r] = [tree |-> t, leaves |-> n]] ELSE rpc
    /\ UNCHANGED <<cfgs, puts, backlog, now, admin, unpaid>>

\* Mutant: After forgets about duplicates.
ReturnedOnError(r, queued, ok) == IF ok THEN 0 ELSE rpc[r].leaves

\* After returns the tokens of a request that failed and of the leaves that are
\* reported as duplicates.
Returned(r, queued, ok) == IF ok THEN rpc[r].leaves - queued ELSE rpc[r].leaves

After(r, queued, ok) ==
    LET n == Returned(r, queued, ok)
    IN  puts' = IF n = 0 THEN puts
                ELSE puts (+) SetToBag({[specs |-> SpecsOf(rpc[r].tree), tokens |-> n]})

\* The handler, QueueLeaves, and After.  An error may hide that the leaves were
\* committed.
Handle(r, queued, ok) ==
    /\ ~Idle(r)
    /\ queued <= rpc[r].leaves
    /\ \/ ok /\ failures' = failures
       \/ ~ok /\ queued = 0 /\ failures' = failures
       \/ ~ok /\ queued = rpc[r].leaves /\ Failure
    /\ backlog' = [backlog EXCEPT ![rpc[r].tree] = @ + queued]
    /\ unpaid' = [unpaid EXCEPT ![rpc[r].tree] = @ + IF ok THEN 0 ELSE queued]
    /\ After(r, queued, ok)
    /\ rpc' = [rpc EXCEPT ![r] = NoRpc]
    /\ UNCHANGED <<storageVars, cache, evicting, now, admin, rpcs, granted>>

\* IntegrateBatch commits a batch and puts the tokens of its leaves back.
Sequence(t, n) ==
    /\ n \in 1 .. backlog[t]
    /\ backlog' = [backlog EXCEPT ![t] = @ - n]
    /\ puts' = puts (+) SetToBag({[specs |-> {t, GlobalQuota},
                                   tokens |-> (n * IncreaseFactor) \div 100]})
    /\ UNCHANGED <<storageVars, frontendVars, boundVars, granted, unpaid>>

\* PutTokens, of After, of evict or of the sequencer, straight to the buckets.
PutTokens(p) ==
    /\ puts' = puts (-) SetToBag({p})
    /\ Put(p.specs, p.tokens, now)
    /\ UNCHANGED <<cfgs, frontendVars, backlog, boundVars, granted, unpaid>>

\* It fails or is never made: After gives up after a while, evict works with the
\* context of an RPC that has ended, a process dies.  Nobody tries again.
PutTokensFails(p) ==
    /\ Failure
    /\ puts' = puts (-) SetToBag({p})
    /\ UNCHANGED <<storageVars, frontendVars, backlog, now, admin, rpcs, granted, unpaid>>

-------------------------------------------------------------------------------
Tick ==
    /\ now < MaxTime
    /\ now' = now + 1
    /\ UNCHANGED <<storageVars, frontendVars, puts, backlog, failures, admin, rpcs, granted, unpaid>>

\* Administrators: the RPCs of the quota server, and ResetQuota.
Administrate(s) ==
    /\ admin < MaxAdmin
    /\ admin' = admin + 1
    /\ \/ \E cfg \in NewConfig : CreateConfig(s, cfg, now)
       \/ \E cfg \in NewConfig : UpdateConfig(s, cfg, FALSE, now)
       \/ UpdateConfig(s, cfgs[s], TRUE, now)
       \/ UpdateMissingConfig(s, now)
       \/ DeleteConfig(s, now)
       \/ Reset(Quota, now)
    /\ UNCHANGED <<frontendVars, puts, backlog, now, failures, rpcs, granted, unpaid>>

\* ListConfigs looks at the buckets.
ListConfigs ==
    /\ Peek(Quota, now)
    /\ UNCHANGED <<frontendVars, puts, backlog, boundVars, granted, unpaid>>

Next ==
    \/ \E r \in Rpc, t \in TreeQuota, n \in 1 .. MaxRequest :
          Before(r, t, n) \/ BeforeCancelled(r, t, n) \/ BeforeDenied(r, t, n)
    \/ \E r \in Rpc, queued \in 0 .. MaxRequest, ok \in BOOLEAN : Handle(r, queued, ok)
    \/ \E f \in Frontend : Evict(f)
    \/ \E t \in TreeQuota : \E n \in 1 .. backlog[t] : Sequence(t, n)
    \/ \E p \in BagToSet(puts) : PutTokens(p) \/ PutTokensFails(p)
    \/ \E s \in Quota : Administrate(s)
    \/ ListConfigs
    \/ Tick

Spec == Init /\ [][Next]_vars

\* Goroutines run on, and the signers keep sequencing.
FairSpec ==
    /\ Spec
    /\ WF_vars(\E r \in Rpc, queued \in 0 .. MaxRequest, ok \in BOOLEAN : Handle(r, queued, ok))
    /\ WF_vars(\E f \in Frontend : Evict(f))
    /\ WF_vars(\E p \in BagToSet(puts) : PutTokens(p) \/ PutTokensFails(p))
    /\ \A t \in TreeQuota : WF_vars(\E n \in 1 .. backlog[t] : Sequence(t, n))

-------------------------------------------------------------------------------
Entry == [tokens : Nat, lastModified : Int]

\* Types.  In particular a cache never holds a negative number of tokens ("Bucket
\* invariants failed", quota/cacheqm/cache.go).
TypeOK ==
    /\ cfgs \in [Quota -> Config] /\ buckets \in [Quota -> Bucket]
    /\ rpc \in [Rpc -> {NoRpc} \cup [tree : TreeQuota, leaves : 1 .. MaxRequest]]
    /\ DOMAIN cache = Frontend
    /\ \A f \in Frontend : Cached(f) \subseteq Quota /\ cache[f] \in [Cached(f) -> Entry]
    /\ evicting \subseteq Frontend
    /\ IsABag(puts)
    /\ \A p \in BagToSet(puts) : p.tokens \in Nat /\ p.specs \subseteq Quota
    /\ backlog \in [TreeQuota -> Nat] /\ unpaid \in [TreeQuota -> Nat]
    /\ granted \in [UserQuota -> Nat]
    /\ now \in 0 .. MaxTime /\ failures \in 0 .. MaxFailures
    /\ admin \in 0 .. MaxAdmin /\ rpcs \in 0 .. MaxRpcs

\* The tokens of a quota that are not in its bucket: cached by frontends, held by
\* RPCs, on their way back, or spent on leaves that wait to be sequenced.
TreesOf(s) == IF s = GlobalQuota THEN TreeQuota ELSE {s} \cap TreeQuota

\* The sum of the values of a function, as the size of a set of units.
Units(g) == UNION {{x} \X (1 .. g[x]) : x \in DOMAIN g}
Total(g) == Cardinality(Units(g))

InCaches(s) == [f \in Frontend |-> CachedIn(f, s)]
InRpcs(s)   == [r \in Rpc |-> IF rpc[r].tree \in TreesOf(s) THEN rpc[r].leaves ELSE 0]
InPuts(s)   == [p \in {p \in BagToSet(puts) : s \in p.specs} |-> p.tokens * puts[p]]
InTrees(s)  == [t \in TreesOf(s) |-> backlog[t]]
PaidBack(s) == [t \in TreesOf(s) |-> unpaid[t]]

Outstanding(s) == Total(InCaches(s)) + Total(InRpcs(s)) + Total(InPuts(s)) + Total(InTrees(s))

\* A token of a sequencing-based quota is in one place.  Caching, eviction, returns
\* and sequencing, in any order, never make tokens, so that the maximum of a quota
\* bounds the leaves that wait for the signer; only a queueing error that hid a
\* commit is paid back twice.  And without failures no token is ever lost: the
\* whole maximum is in the bucket again once everything has come back.  This is when
\* quotas are enforced and sequencing a leaf returns no more than was paid for it.  The cache of
\* a frontend, the place where tokens are hardest to find, is larger than
\* --quota_max_cache_entries only while an evict goroutine is about to shrink it.
TokensConserved ==
    /\ \A f \in Frontend : f \notin evicting => Cardinality(Cached(f)) <= MaxEntries
    /\ \A s \in Enabled(cfgs) \cap (TreeQuota \cup {GlobalQuota}) :
        admin = 0 /\ ~TimeBased(cfgs[s]) /\ ~DryRun /\ IncreaseFactor <= 100 =>
            LET total == buckets[s].tokens + Outstanding(s)
            IN  /\ total <= cfgs[s].max + Total(PaidBack(s))
                /\ failures = 0 /\ IncreaseFactor = 100 => total = cfgs[s].max

\* A time-based quota grants what it started with and what the elapsed intervals
\* add, even if frontends whose clocks disagree replenish it in turns and tokens
\* are returned to it.
RateLimited ==
    \A s \in Enabled(cfgs) \cap UserQuota :
        admin = 0 /\ TimeBased(cfgs[s]) =>
            LET latest == now + Max({Skew[f] : f \in Frontend})
            IN  granted[s] <= cfgs[s].max + cfgs[s].replenish * (latest \div cfgs[s].interval)

===============================================================================
