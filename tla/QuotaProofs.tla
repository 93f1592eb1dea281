------------------------------ MODULE QuotaProofs -----------------------------
(***************************************************************************)
(* Theorems about the quotas, for any quotas, configurations, frontends    *)
(* and bounds.                                                             *)
(*                                                                         *)
(* That a bucket stays between nothing and its maximum needs that nobody   *)
(* puts a negative number of tokens back, hence that no cache entry goes   *)
(* below zero: TypeOK and WithinCeiling are one inductive invariant.       *)
(* That a time-based quota limits the rate follows from an account of each *)
(* bucket: what it has and has granted came from the replenishments that   *)
(* its timestamp allows for.                                               *)
(* That tokens are conserved follows from an account of each quota that is *)
(* replenished by sequencing: each step moves tokens from one place to     *)
(* another.  What a place holds is a sum, hence the size of a set.         *)
(***************************************************************************)
EXTENDS QuotaSystem, FiniteSetTheorems, WellFoundedInduction, TLAPS

\* WithinCeiling, for any configurations and buckets.
Within(cs, bs) == \A s \in Configured(cs) : bs[s].tokens \in 0 .. cs[s].max

\* Replenishing a bucket keeps it within its maximum.
LEMMA ReplenishedWithin ==
    ASSUME NEW cfg \in Config, NEW b \in Bucket, NEW t \in Int,
           b.tokens \in 0 .. cfg.max
    PROVE  /\ Replenished(cfg, b, t) \in Bucket
           /\ Replenished(cfg, b, t).tokens \in 0 .. cfg.max
<1> USE StorageAssumption DEF Config, Bucket
<1>1. cfg.max \in Nat /\ cfg.replenish \in Nat /\ cfg.interval \in Nat
    OBVIOUS
<1>2. Capped(b.tokens + cfg.replenish, cfg) \in 0 .. cfg.max
    BY <1>1 DEF Capped
<1> QED
    BY <1>1, <1>2 DEF Replenished, TimeBased

\* modBucket keeps a bucket within its maximum if it has enough tokens.
LEMMA ModBucketWithin ==
    ASSUME NEW cfg \in Config, NEW b \in Bucket, NEW t \in Int, NEW add \in Int,
           b.tokens \in 0 .. cfg.max,
           Sufficient(cfg, b, t, add)
    PROVE  /\ ModBucket(cfg, b, t, add) \in Bucket
           /\ ModBucket(cfg, b, t, add).tokens \in 0 .. cfg.max
<1> DEFINE r == Replenished(cfg, b, t)
           e == Effective(cfg, add)
<1>1. cfg.max \in Nat
    BY StorageAssumption DEF Config
<1>2. r \in Bucket /\ r.tokens \in 0 .. cfg.max
    BY ReplenishedWithin
<1>3. e \in Int
    BY DEF Effective
<1>4. r.tokens + e >= 0
    BY DEF Sufficient
<1>5. Capped(r.tokens + e, cfg) \in 0 .. cfg.max
    BY <1>1, <1>2, <1>3, <1>4 DEF Capped
<1>6. ModBucket(cfg, b, t, add) = [r EXCEPT !.tokens = Capped(r.tokens + e, cfg)]
    BY DEF ModBucket
<1> HIDE DEF r, e
<1> QED
    BY <1>1, <1>2, <1>5, <1>6 DEF Bucket

\* Nothing can be missing if nothing is taken.
LEMMA EnoughForNothing ==
    ASSUME NEW cfg \in Config, NEW b \in Bucket, NEW t \in Int, NEW add \in Nat,
           b.tokens \in 0 .. cfg.max
    PROVE  Sufficient(cfg, b, t, add)
<1>1. cfg.max \in Nat
    BY StorageAssumption DEF Config
<1>2. Replenished(cfg, b, t).tokens \in 0 .. cfg.max
    BY ReplenishedWithin
<1> QED
    BY <1>1, <1>2 DEF Sufficient, Effective

\* A transaction over several quotas keeps all of them within their maximum.
LEMMA ModifiedWithin ==
    ASSUME NEW cs \in [Quota -> Config], NEW bs \in [Quota -> Bucket], Within(cs, bs),
           NEW names, NEW t \in Int, NEW add \in Int,
           \A s \in names \cap Enabled(cs) : Sufficient(cs[s], bs[s], t, add)
    PROVE  /\ Modified(cs, bs, names, t, add) \in [Quota -> Bucket]
           /\ Within(cs, Modified(cs, bs, names, t, add))
<1> DEFINE new == Modified(cs, bs, names, t, add)
<1>1. ASSUME NEW s \in names \cap Enabled(cs)
      PROVE  /\ ModBucket(cs[s], bs[s], t, add) \in Bucket
             /\ ModBucket(cs[s], bs[s], t, add).tokens \in 0 .. cs[s].max
    <2>1. s \in Quota /\ cs[s] \in Config /\ bs[s] \in Bucket
        BY DEF Enabled
    <2>2. bs[s].tokens \in 0 .. cs[s].max
        BY DEF Within, Configured, Enabled
    <2>3. Sufficient(cs[s], bs[s], t, add)
        OBVIOUS
    <2> QED
        BY <2>1, <2>2, <2>3, ModBucketWithin
<1>2. new \in [Quota -> Bucket]
    BY <1>1 DEF Modified
<1>3. ASSUME NEW s \in Configured(cs)
      PROVE  new[s].tokens \in 0 .. cs[s].max
    BY <1>1 DEF Modified, Within, Configured
<1> QED
    BY <1>2, <1>3 DEF Within

\* UpdateConfigs keeps all quotas within their new maximum.
LEMMA UpdateWithin ==
    ASSUME cfgs \in [Quota -> Config], buckets \in [Quota -> Bucket], WithinCeiling,
           NEW new \in [Quota -> Config], NEW reset \in BOOLEAN, NEW t \in Int
    PROVE  /\ AfterUpdate(new, reset, t) \in [Quota -> Bucket]
           /\ Within(new, AfterUpdate(new, reset, t))
<1> DEFINE bs == AfterUpdate(new, reset, t)
<1>1. ASSUME NEW s \in Configured(new)
      PROVE  /\ NewBucket(s, cfgs[s], new[s], reset, t) \in Bucket
             /\ NewBucket(s, cfgs[s], new[s], reset, t).tokens \in 0 .. new[s].max
    <2>1. s \in Quota /\ cfgs[s] \in Config /\ new[s] \in Config /\ buckets[s] \in Bucket
        BY DEF Configured
    <2>2. new[s].max \in Nat /\ cfgs[s].max \in Nat
        BY <2>1, StorageAssumption DEF Config
    <2>3. CASE cfgs[s].state # "ENABLED" \/ reset
        BY <2>2, <2>3 DEF NewBucket, Bucket
    <2>4. CASE ~(cfgs[s].state # "ENABLED" \/ reset)
        <3>1. buckets[s].tokens \in 0 .. cfgs[s].max
            BY <2>1, <2>4 DEF WithinCeiling, Configured
        <3>2. CASE new[s].max < cfgs[s].max
            <4> DEFINE r == Replenished(new[s], buckets[s], t)
            <4>1. ModBucket(new[s], buckets[s], t, 0) = [r EXCEPT !.tokens = Capped(r.tokens, new[s])]
                <5>1. r.tokens \in Int
                    BY <2>1, <2>2, StorageAssumption DEF Replenished, Capped, Bucket, Config
                <5> QED
                    BY <5>1 DEF ModBucket, Effective
            <4>2. r \in Bucket /\ r.tokens >= 0
                BY <2>1, <2>2, <3>1, StorageAssumption DEF Replenished, Capped, Bucket, Config
            <4> HIDE DEF r
            <4>3. Capped(r.tokens, new[s]) \in 0 .. new[s].max
                BY <2>2, <4>2 DEF Capped, Bucket
            <4>4. NewBucket(s, cfgs[s], new[s], reset, t) = [r EXCEPT !.tokens = Capped(r.tokens, new[s])]
                BY <2>4, <3>2, <4>1 DEF NewBucket
            <4> QED
                BY <2>2, <4>2, <4>3, <4>4 DEF Bucket
        <3>3. CASE ~(new[s].max < cfgs[s].max)
            BY <2>1, <2>2, <2>4, <3>1, <3>3 DEF NewBucket
        <3> QED
            BY <3>2, <3>3
    <2> QED
        BY <2>3, <2>4
<1>2. bs \in [Quota -> Bucket]
    BY <1>1 DEF AfterUpdate
<1>3. ASSUME NEW s \in Configured(new)
      PROVE  bs[s].tokens \in 0 .. new[s].max
    BY <1>1 DEF AfterUpdate, Configured
<1> QED
    BY <1>2, <1>3 DEF Within

-------------------------------------------------------------------------------
\* Adding a set to a bag and removing an element leave a bag.
LEMMA BagPlus ==
    ASSUME NEW B, IsABag(B), NEW S
    PROVE  /\ IsABag(B (+) SetToBag(S))
           /\ DOMAIN (B (+) SetToBag(S)) = DOMAIN B \cup S
BY DEF IsABag, SetToBag, (+)

LEMMA BagMinus ==
    ASSUME NEW B, IsABag(B), NEW p
    PROVE  /\ IsABag(B (-) SetToBag({p}))
           /\ DOMAIN (B (-) SetToBag({p})) \subseteq DOMAIN B
BY DEF IsABag, SetToBag, (-)

-------------------------------------------------------------------------------
QuotaInv == TypeOK /\ WithinCeiling

\* What the conjuncts of TypeOK say about storage, the calls under way, and the rest.
StorageOK == /\ cfgs \in [Quota -> Config]
             /\ buckets \in [Quota -> Bucket]
             /\ WithinCeiling

PutsOK == /\ IsABag(puts)
          /\ \A p \in BagToSet(puts) : p.tokens \in Nat /\ p.specs \subseteq Quota

RpcOK == rpc \in [Rpc -> {NoRpc} \cup [tree : TreeQuota, leaves : 1 .. MaxRequest]]

CacheOK == /\ DOMAIN cache = Frontend
           /\ \A f \in Frontend : Cached(f) \subseteq Quota /\ cache[f] \in [Cached(f) -> Entry]
           /\ evicting \subseteq Frontend

HistoryOK == /\ backlog \in [TreeQuota -> Nat]
             /\ unpaid \in [TreeQuota -> Nat]
             /\ granted \in [UserQuota -> Nat]

BoundsOK == /\ now \in 0 .. MaxTime
            /\ failures \in 0 .. MaxFailures
            /\ admin \in 0 .. MaxAdmin
            /\ rpcs \in 0 .. MaxRpcs

LEMMA Parts == QuotaInv <=> StorageOK /\ PutsOK /\ RpcOK /\ CacheOK /\ HistoryOK /\ BoundsOK
BY DEF QuotaInv, TypeOK, StorageOK, PutsOK, RpcOK, CacheOK, HistoryOK, BoundsOK

LEMMA InitEstablishes == Init => QuotaInv
<1> SUFFICES ASSUME Init PROVE QuotaInv
    OBVIOUS
<1> USE StorageAssumption, SystemAssumption DEF Init
<1>1. StorageOK
    BY DEF StorageOK, WithinCeiling, Configured, Config, Bucket
<1>2. PutsOK
    BY DEF PutsOK, EmptyBag, SetToBag, IsABag, BagToSet
<1>3. RpcOK
    BY DEF RpcOK
<1>4. CacheOK
    <2>1. \A f \in Frontend : cache[f] = <<>>
        OBVIOUS
    <2>2. DOMAIN cache = Frontend
        OBVIOUS
    <2>3. <<>> \in [{} -> Entry] /\ DOMAIN <<>> = {}
        OBVIOUS
    <2> QED
        BY <2>1, <2>2, <2>3 DEF CacheOK, Cached
<1>5. HistoryOK
    BY DEF HistoryOK
<1>6. BoundsOK
    BY DEF BoundsOK
<1> QED
    BY <1>1, <1>2, <1>3, <1>4, <1>5, <1>6, Parts

\* Taking tokens from the buckets, as GetTokens does.
LEMMA TakeKeeps ==
    ASSUME StorageOK, HistoryOK, BoundsOK, NEW f \in Frontend, NEW n \in 1 .. MaxRequest,
           NEW refill, TakeFromBuckets(f, n, refill)
    PROVE  /\ buckets' \in [Quota -> Bucket]
           /\ Within(cfgs, buckets')
           /\ granted' \in [UserQuota -> Nat]
<1> USE SystemAssumption
<1>1. Clock(f) \in Int /\ n \in Nat /\ -(n + MinBatchSize) \in Int
    BY DEF BoundsOK, Clock
<1>2. Within(cfgs, buckets)
    BY DEF StorageOK, WithinCeiling, Within
<1>3. /\ \A s \in refill \cap Enabled(cfgs) :
            Sufficient(cfgs[s], buckets[s], Clock(f), -(n + MinBatchSize))
      /\ buckets' = Modified(cfgs, buckets, refill, Clock(f), -(n + MinBatchSize))
    BY DEF TakeFromBuckets, Get, Modifiable
<1>4. granted' \in [UserQuota -> Nat]
    BY <1>1 DEF TakeFromBuckets, HistoryOK
<1> QED
    BY <1>1, <1>2, <1>3, <1>4, ModifiedWithin DEF StorageOK

\* GetTokens leaves no cache entry below zero.
LEMMA GetTokensKeeps ==
    ASSUME StorageOK, HistoryOK, BoundsOK, CacheOK,
           NEW f \in Frontend, NEW n \in 1 .. MaxRequest, NEW t \in TreeQuota,
           GetTokens(f, n, SpecsOf(t))
    PROVE  /\ buckets' \in [Quota -> Bucket] /\ Within(cfgs, buckets')
           /\ granted' \in [UserQuota -> Nat]
           /\ CacheOK'
<1> USE SystemAssumption, StorageAssumption
<1> DEFINE specs  == SpecsOf(t)
           refill == ToRefill(f, n, specs)
           new    == Filled(f, n, specs, refill)
<1>1. TakeFromBuckets(f, n, refill)
    BY DEF GetTokens
<1>2. specs \subseteq Quota
    BY DEF SpecsOf
<1>3. refill \subseteq specs
    BY DEF ToRefill
<1>4. \A s \in Quota : CachedIn(f, s) \in Nat
    BY DEF CachedIn, CacheOK, Entry
<1>5. ASSUME NEW s \in specs \ refill
      PROVE  CachedIn(f, s) >= n /\ s \in Cached(f)
    <2>1. ~(CachedIn(f, s) < n) /\ s \in Cached(f)
        BY DEF ToRefill
    <2>2. CachedIn(f, s) \in Nat /\ n \in Nat
        BY <1>2, <1>4
    <2> HIDE DEF specs, refill
    <2> QED
        BY <2>1, <2>2
<1>6. Clock(f) \in Int /\ n \in Nat /\ MinBatchSize \in Nat
    BY DEF BoundsOK, Clock
<1>7. new \in [Cached(f) \cup refill -> Entry]
    <2>1. ASSUME NEW s \in Cached(f) \cup refill, s \in specs
          PROVE  CachedIn(f, s) + (IF s \in refill THEN n + MinBatchSize ELSE 0) - n \in Nat
        BY <1>2, <1>4, <1>5, <1>6, <2>1
    <2>2. ASSUME NEW s \in Cached(f) \cup refill, s \notin specs
          PROVE  cache[f][s] \in Entry
        BY <1>3, <2>2 DEF CacheOK
    <2> QED
        BY <1>6, <2>1, <2>2 DEF Filled, Entry
<1>8. cache' = [cache EXCEPT ![f] = new] /\ evicting' \subseteq evicting \cup {f}
    BY DEF GetTokens, SpawnEvict
<1> HIDE DEF new, refill, specs
<1>9. CacheOK'
    <2>1. DOMAIN cache' = Frontend /\ cache'[f] = new
        BY <1>8 DEF CacheOK
    <2>2. \A g \in Frontend \ {f} : cache'[g] = cache[g]
        BY <1>8 DEF CacheOK
    <2>3. DOMAIN new \subseteq Quota /\ new \in [DOMAIN new -> Entry]
        BY <1>2, <1>3, <1>7 DEF CacheOK
    <2> QED
        BY <1>8, <2>1, <2>2, <2>3 DEF CacheOK, Cached
<1> QED
    BY <1>1, <1>9, TakeKeeps

\* A call of PutTokens that is added to those under way.
LEMMA PutsKept ==
    ASSUME PutsOK, NEW S, \A p \in S : p.tokens \in Nat /\ p.specs \subseteq Quota,
           puts' = puts (+) SetToBag(S)
    PROVE  PutsOK'
<1>1. IsABag(puts') /\ DOMAIN puts' = DOMAIN puts \cup S
    BY BagPlus DEF PutsOK
<1> QED
    BY <1>1 DEF PutsOK, BagToSet

LEMMA NextPreserves == QuotaInv /\ [Next]_vars => QuotaInv'
<1> SUFFICES ASSUME QuotaInv, [Next]_vars PROVE QuotaInv'
    OBVIOUS
<1> USE StorageAssumption, SystemAssumption
<1>inv. StorageOK /\ PutsOK /\ RpcOK /\ CacheOK /\ HistoryOK /\ BoundsOK
    BY Parts
<1>goal. StorageOK' /\ PutsOK' /\ RpcOK' /\ CacheOK' /\ HistoryOK' /\ BoundsOK' => QuotaInv'
    BY Parts, PTL
<1>within. Within(cfgs, buckets)
    BY <1>inv DEF StorageOK, WithinCeiling, Within
<1>stored. ASSUME cfgs' = cfgs, buckets' \in [Quota -> Bucket], Within(cfgs, buckets')
           PROVE  StorageOK'
    BY <1>stored, <1>inv DEF StorageOK, WithinCeiling, Within, Configured
<1>same. ASSUME UNCHANGED storageVars PROVE StorageOK'
    BY <1>same, <1>inv DEF storageVars, StorageOK, WithinCeiling, Configured
<1>puts. ASSUME puts' = puts PROVE PutsOK'
    BY <1>puts, <1>inv DEF PutsOK
<1>cache. ASSUME cache' = cache, evicting' \subseteq Frontend PROVE CacheOK'
    BY <1>cache, <1>inv DEF CacheOK, Cached
<1>now. now \in Int
    BY <1>inv DEF BoundsOK
<1>1. ASSUME NEW r \in Rpc, NEW t \in TreeQuota, NEW n \in 1 .. MaxRequest, Before(r, t, n)
      PROVE  QuotaInv'
    <2>1. GetTokens(ServerOf[r], n, SpecsOf(t)) /\ ServerOf[r] \in Frontend
        BY <1>1 DEF Before
    <2>2. /\ buckets' \in [Quota -> Bucket] /\ Within(cfgs, buckets')
          /\ granted' \in [UserQuota -> Nat] /\ CacheOK'
        BY <1>inv, <2>1, GetTokensKeeps
    <2>3. StorageOK'
        BY <1>1, <1>stored, <2>2 DEF Before
    <2>4. PutsOK'
        BY <1>1, <1>puts DEF Before
    <2>5. RpcOK'
        BY <1>1, <1>inv DEF Before, RpcOK
    <2>6. HistoryOK' /\ BoundsOK'
        BY <1>1, <1>inv, <2>2 DEF Before, Arrive, HistoryOK, BoundsOK
    <2> QED
        BY <1>goal, <2>2, <2>3, <2>4, <2>5, <2>6
<1>2. ASSUME NEW r \in Rpc, NEW t \in TreeQuota, NEW n \in 1 .. MaxRequest, BeforeCancelled(r, t, n)
      PROVE  QuotaInv'
    <2>1. GetTokens(ServerOf[r], n, SpecsOf(t)) /\ ServerOf[r] \in Frontend
        BY <1>2 DEF BeforeCancelled
    <2>2. /\ buckets' \in [Quota -> Bucket] /\ Within(cfgs, buckets')
          /\ granted' \in [UserQuota -> Nat] /\ CacheOK'
        BY <1>inv, <2>1, GetTokensKeeps
    <2>3. StorageOK'
        BY <1>2, <1>stored, <2>2 DEF BeforeCancelled
    <2>4. PutsOK'
        BY <1>2, <1>puts DEF BeforeCancelled
    <2>5. RpcOK' /\ HistoryOK' /\ BoundsOK'
        BY <1>2, <1>inv, <2>2 DEF BeforeCancelled, Arrive, Failure, RpcOK, HistoryOK, BoundsOK
    <2> QED
        BY <1>goal, <2>2, <2>3, <2>4, <2>5
<1>3. ASSUME NEW r \in Rpc, NEW t \in TreeQuota, NEW n \in 1 .. MaxRequest, BeforeDenied(r, t, n)
      PROVE  QuotaInv'
    <2> DEFINE f      == ServerOf[r]
               refill == ToRefill(f, n, SpecsOf(t))
    <2>1. GetTokensFails(f, n, SpecsOf(t)) /\ f \in Frontend
        BY <1>3 DEF BeforeDenied
    <2>2. /\ UNCHANGED <<buckets, granted>> \/ TakeFromBuckets(f, n, refill)
          /\ failures' = failures \/ Failure
          /\ cache' = cache /\ SpawnEvict(f, refill)
        BY <2>1 DEF GetTokensFails
    <2>3. buckets' \in [Quota -> Bucket] /\ Within(cfgs, buckets') /\ granted' \in [UserQuota -> Nat]
        <3>1. CASE UNCHANGED <<buckets, granted>>
            BY <3>1, <1>inv, <1>within DEF StorageOK, HistoryOK
        <3>2. CASE TakeFromBuckets(f, n, refill)
            BY <3>2, <1>inv, <2>1, TakeKeeps
        <3> QED
            BY <2>2, <3>1, <3>2
    <2>4. StorageOK'
        BY <1>3, <1>stored, <2>3 DEF BeforeDenied
    <2>5. PutsOK'
        BY <1>3, <1>puts DEF BeforeDenied
    <2>6. CacheOK'
        BY <1>cache, <1>inv, <2>1, <2>2 DEF SpawnEvict, CacheOK
    <2>7. RpcOK'
        BY <1>3, <1>inv DEF BeforeDenied, RpcOK
    <2>8. HistoryOK' /\ BoundsOK'
        BY <1>3, <1>inv, <2>2, <2>3 DEF BeforeDenied, Arrive, Failure, HistoryOK, BoundsOK
    <2> QED
        BY <1>goal, <2>4, <2>5, <2>6, <2>7, <2>8
<1>4. ASSUME NEW r \in Rpc, NEW queued \in 0 .. MaxRequest, NEW ok \in BOOLEAN, Handle(r, queued, ok)
      PROVE  QuotaInv'
    <2> DEFINE n == Returned(r, queued, ok)
    <2>1. rpc[r].tree \in TreeQuota /\ rpc[r].leaves \in Nat
        BY <1>4, <1>inv DEF Handle, Idle, RpcOK
    <2>2. n \in Nat
        BY <1>4, <2>1 DEF Handle, Returned
    <2>3. SpecsOf(rpc[r].tree) \subseteq Quota
        BY <2>1 DEF SpecsOf
    <2>4. \/ puts' = puts
          \/ puts' = puts (+) SetToBag({[specs |-> SpecsOf(rpc[r].tree), tokens |-> n]})
        BY <1>4 DEF Handle, After
    <2> HIDE DEF n
    <2>5. PutsOK'
        <3>1. \A p \in {[specs |-> SpecsOf(rpc[r].tree), tokens |-> n]} :
                 p.tokens \in Nat /\ p.specs \subseteq Quota
            BY <2>2, <2>3
        <3> QED
            BY <1>inv, <1>puts, <2>4, <3>1, PutsKept
    <2>6. StorageOK'
        BY <1>4, <1>same DEF Handle
    <2>7. CacheOK'
        BY <1>4, <1>cache, <1>inv DEF Handle, CacheOK
    <2>8. RpcOK' /\ HistoryOK' /\ BoundsOK'
        BY <1>4, <1>inv, <2>1 DEF Handle, Failure, RpcOK, HistoryOK, BoundsOK
    <2> QED
        BY <1>goal, <2>5, <2>6, <2>7, <2>8
<1>5. ASSUME NEW f \in Frontend, Evict(f)
      PROVE  QuotaInv'
    <2>1. PICK E \in SUBSET (Cached(f) \ {GlobalQuota}) :
             /\ cache' = [cache EXCEPT ![f] = [s \in Cached(f) \ E |-> cache[f][s]]]
             /\ puts' = puts (+) SetToBag({[specs |-> {e}, tokens |-> cache[f][e].tokens] : e \in E})
        BY <1>5 DEF Evict
    <2>2. PutsOK'
        <3>1. \A e \in E : cache[f][e].tokens \in Nat /\ {e} \subseteq Quota
            BY <1>inv, <2>1 DEF CacheOK, Entry
        <3>2. \A p \in {[specs |-> {e}, tokens |-> cache[f][e].tokens] : e \in E} :
                 p.tokens \in Nat /\ p.specs \subseteq Quota
            BY <3>1
        <3> QED
            BY <1>inv, <2>1, <3>2, PutsKept
    <2>3. CacheOK'
        <3>1. DOMAIN cache' = Frontend /\ cache'[f] = [s \in Cached(f) \ E |-> cache[f][s]]
            BY <1>inv, <2>1 DEF CacheOK
        <3>2. \A g \in Frontend \ {f} : cache'[g] = cache[g]
            BY <1>inv, <2>1 DEF CacheOK
        <3>3. evicting' \subseteq Frontend
            BY <1>5, <1>inv DEF Evict, CacheOK
        <3> QED
            BY <1>inv, <3>1, <3>2, <3>3 DEF CacheOK, Cached
    <2>4. StorageOK'
        BY <1>5, <1>same DEF Evict
    <2>5. RpcOK' /\ HistoryOK' /\ BoundsOK'
        BY <1>5, <1>inv DEF Evict, boundVars, RpcOK, HistoryOK, BoundsOK
    <2> QED
        BY <1>goal, <2>2, <2>3, <2>4, <2>5
<1>6. ASSUME NEW t \in TreeQuota, NEW n \in 1 .. backlog[t], Sequence(t, n)
      PROVE  QuotaInv'
    <2> DEFINE back == (n * IncreaseFactor) \div 100
    <2>1. backlog[t] \in Nat /\ n \in Nat
        BY <1>inv DEF HistoryOK
    <2>2. back \in Nat
        <3>1. n * IncreaseFactor \in Nat
            BY <2>1
        <3> QED
            BY <3>1
    <2>3. puts' = puts (+) SetToBag({[specs |-> {t, GlobalQuota}, tokens |-> back]})
        BY <1>6 DEF Sequence
    <2> HIDE DEF back
    <2>4. PutsOK'
        <3>1. \A p \in {[specs |-> {t, GlobalQuota}, tokens |-> back]} :
                 p.tokens \in Nat /\ p.specs \subseteq Quota
            BY <2>2
        <3> QED
            BY <1>inv, <2>3, <3>1, PutsKept
    <2>5. StorageOK'
        BY <1>6, <1>same DEF Sequence
    <2>6. CacheOK'
        BY <1>6, <1>cache, <1>inv DEF Sequence, frontendVars, CacheOK
    <2>7. RpcOK' /\ BoundsOK'
        BY <1>6, <1>inv DEF Sequence, frontendVars, boundVars, RpcOK, BoundsOK
    <2>8. HistoryOK'
        BY <1>6, <1>inv, <2>1 DEF Sequence, HistoryOK
    <2> QED
        BY <1>goal, <2>4, <2>5, <2>6, <2>7, <2>8
<1>7. ASSUME NEW p \in BagToSet(puts), PutTokens(p)
      PROVE  QuotaInv'
    <2>1. p.tokens \in Nat
        BY <1>inv DEF PutsOK
    <2>2. \A s \in p.specs \cap Enabled(cfgs) : Sufficient(cfgs[s], buckets[s], now, p.tokens)
        <3> TAKE s \in p.specs \cap Enabled(cfgs)
        <3>1. cfgs[s] \in Config /\ buckets[s] \in Bucket /\ buckets[s].tokens \in 0 .. cfgs[s].max
            BY <1>inv DEF StorageOK, WithinCeiling, Configured, Enabled
        <3> QED
            BY <1>now, <2>1, <3>1, EnoughForNothing
    <2>3. buckets' \in [Quota -> Bucket] /\ Within(cfgs, buckets')
        <3>1. buckets' = Modified(cfgs, buckets, p.specs, now, p.tokens)
            BY <1>7 DEF PutTokens, Put
        <3>2. p.tokens \in Int /\ cfgs \in [Quota -> Config] /\ buckets \in [Quota -> Bucket]
            BY <1>inv, <2>1 DEF StorageOK
        <3> QED
            BY <1>within, <1>now, <2>2, <3>1, <3>2, ModifiedWithin
    <2>4. StorageOK'
        BY <1>7, <1>stored, <2>3 DEF PutTokens
    <2>5. PutsOK'
        <3>1. IsABag(puts') /\ DOMAIN puts' \subseteq DOMAIN puts
            BY <1>7, <1>inv, BagMinus DEF PutTokens, PutsOK
        <3> QED
            BY <1>inv, <3>1 DEF PutsOK, BagToSet
    <2>6. CacheOK'
        BY <1>7, <1>cache, <1>inv DEF PutTokens, frontendVars, CacheOK
    <2>7. RpcOK' /\ HistoryOK' /\ BoundsOK'
        BY <1>7, <1>inv DEF PutTokens, frontendVars, boundVars, RpcOK, HistoryOK, BoundsOK
    <2> QED
        BY <1>goal, <2>4, <2>5, <2>6, <2>7
<1>8. ASSUME NEW p \in BagToSet(puts), PutTokensFails(p)
      PROVE  QuotaInv'
    <2>1. PutsOK'
        <3>1. IsABag(puts') /\ DOMAIN puts' \subseteq DOMAIN puts
            BY <1>8, <1>inv, BagMinus DEF PutTokensFails, PutsOK
        <3> QED
            BY <1>inv, <3>1 DEF PutsOK, BagToSet
    <2>2. StorageOK'
        BY <1>8, <1>same DEF PutTokensFails
    <2>3. CacheOK'
        BY <1>8, <1>cache, <1>inv DEF PutTokensFails, frontendVars, CacheOK
    <2>4. RpcOK' /\ HistoryOK' /\ BoundsOK'
        BY <1>8, <1>inv DEF PutTokensFails, Failure, frontendVars, RpcOK, HistoryOK, BoundsOK
    <2> QED
        BY <1>goal, <2>1, <2>2, <2>3, <2>4
<1>9. ASSUME NEW s \in Quota, Administrate(s)
      PROVE  QuotaInv'
    <2> DEFINE Updated(new, reset) ==
                 /\ cfgs' = new
                 /\ \/ buckets' = AfterUpdate(new, reset, now)
                    \/ buckets' = Modified(new, AfterUpdate(new, reset, now), {s}, now, 0)
    <2>1. ASSUME NEW new \in [Quota -> Config], NEW reset \in BOOLEAN, Updated(new, reset)
          PROVE  StorageOK'
        <3> DEFINE bs == AfterUpdate(new, reset, now)
        <3>1. bs \in [Quota -> Bucket] /\ Within(new, bs)
            BY <1>inv, <1>now, UpdateWithin DEF StorageOK
        <3> HIDE DEF bs
        <3>2. \A q \in {s} \cap Enabled(new) : Sufficient(new[q], bs[q], now, 0)
            <4> TAKE q \in {s} \cap Enabled(new)
            <4>1. new[q] \in Config /\ bs[q] \in Bucket /\ bs[q].tokens \in 0 .. new[q].max
                BY <3>1 DEF Within, Configured, Enabled
            <4> QED
                BY <1>now, <4>1, EnoughForNothing
        <3>3. /\ Modified(new, bs, {s}, now, 0) \in [Quota -> Bucket]
              /\ Within(new, Modified(new, bs, {s}, now, 0))
            BY <1>now, <3>1, <3>2, ModifiedWithin
        <3>4. cfgs' = new /\ buckets' \in [Quota -> Bucket] /\ Within(new, buckets')
            BY <2>1, <3>1, <3>3 DEF bs
        <3> QED
            BY <3>4 DEF StorageOK, WithinCeiling, Within, Configured
    <2>2. cfgs \in [Quota -> Config] /\ NoConfig \in Config
        BY <1>inv DEF StorageOK, NoConfig, Config
    <2>3. ASSUME \E cfg \in NewConfig : CreateConfig(s, cfg, now)
          PROVE  StorageOK'
        <3>1. PICK cfg \in NewConfig : CreateConfig(s, cfg, now)
            BY <2>3
        <3>2. Updated([cfgs EXCEPT ![s] = cfg], FALSE) /\ [cfgs EXCEPT ![s] = cfg] \in [Quota -> Config]
            BY <2>2, <3>1 DEF CreateConfig, UpdateConfigsAndPeek
        <3> HIDE DEF Updated
        <3> QED
            BY <2>1, <3>2
    <2>4. ASSUME \E cfg \in NewConfig : UpdateConfig(s, cfg, FALSE, now)
          PROVE  StorageOK'
        <3>1. PICK cfg \in NewConfig : UpdateConfig(s, cfg, FALSE, now)
            BY <2>4
        <3>2. Updated([cfgs EXCEPT ![s] = cfg], FALSE) /\ [cfgs EXCEPT ![s] = cfg] \in [Quota -> Config]
            BY <2>2, <3>1 DEF UpdateConfig, UpdateConfigsAndPeek
        <3> HIDE DEF Updated
        <3> QED
            BY <2>1, <3>2
    <2>5. ASSUME UpdateConfig(s, cfgs[s], TRUE, now)
          PROVE  StorageOK'
        <3>1. Updated([cfgs EXCEPT ![s] = cfgs[s]], TRUE)
            BY <2>5 DEF UpdateConfig, UpdateConfigsAndPeek
        <3>2. [cfgs EXCEPT ![s] = cfgs[s]] \in [Quota -> Config]
            BY <2>2
        <3> HIDE DEF Updated
        <3> QED
            BY <2>1, <3>1, <3>2
    <2>6. ASSUME UpdateMissingConfig(s, now)
          PROVE  StorageOK'
        <3>1. Updated(cfgs, TRUE)
            BY <2>6 DEF UpdateMissingConfig, UpdateConfigs
        <3> HIDE DEF Updated
        <3> QED
            BY <2>1, <2>2, <3>1
    <2>7. ASSUME DeleteConfig(s, now)
          PROVE  StorageOK'
        <3>1. Updated([cfgs EXCEPT ![s] = NoConfig], FALSE)
            BY <2>7 DEF DeleteConfig, UpdateConfigs
        <3>2. [cfgs EXCEPT ![s] = NoConfig] \in [Quota -> Config]
            BY <2>2
        <3> HIDE DEF Updated
        <3> QED
            BY <2>1, <3>1, <3>2
    <2>8. ASSUME Reset(Quota, now)
          PROVE  StorageOK'
        <3>1. \A q \in Quota : cfgs[q].max \in Nat
            BY <2>2 DEF Config
        <3>2. buckets' \in [Quota -> Bucket]
            BY <1>inv, <1>now, <2>8, <3>1 DEF Reset, Bucket, StorageOK
        <3>3. Within(cfgs, buckets')
            BY <1>inv, <2>8, <3>1 DEF Reset, StorageOK, WithinCeiling, Within, Configured
        <3> QED
            BY <1>stored, <2>8, <3>2, <3>3 DEF Reset
    <2>9. StorageOK'
        BY <1>9, <2>3, <2>4, <2>5, <2>6, <2>7, <2>8 DEF Administrate
    <2>10. PutsOK'
        BY <1>9, <1>puts DEF Administrate
    <2>11. CacheOK'
        BY <1>9, <1>cache, <1>inv DEF Administrate, frontendVars, CacheOK
    <2>12. RpcOK' /\ HistoryOK' /\ BoundsOK'
        BY <1>9, <1>inv DEF Administrate, frontendVars, RpcOK, HistoryOK, BoundsOK
    <2> QED
        BY <1>goal, <2>9, <2>10, <2>11, <2>12
<1>10. CASE ListConfigs
    <2>1. \A s \in Quota \cap Enabled(cfgs) : Sufficient(cfgs[s], buckets[s], now, 0)
        <3> TAKE s \in Quota \cap Enabled(cfgs)
        <3>1. cfgs[s] \in Config /\ buckets[s] \in Bucket /\ buckets[s].tokens \in 0 .. cfgs[s].max
            BY <1>inv DEF StorageOK, WithinCeiling, Configured, Enabled
        <3> QED
            BY <1>now, <3>1, EnoughForNothing
    <2>2. buckets' \in [Quota -> Bucket] /\ Within(cfgs, buckets')
        BY <1>10, <1>inv, <1>within, <1>now, <2>1, ModifiedWithin DEF ListConfigs, Peek, StorageOK
    <2>3. StorageOK'
        BY <1>10, <1>stored, <2>2 DEF ListConfigs, Peek
    <2>4. PutsOK'
        BY <1>10, <1>puts DEF ListConfigs
    <2>5. CacheOK'
        BY <1>10, <1>cache, <1>inv DEF ListConfigs, frontendVars, CacheOK
    <2>6. RpcOK' /\ HistoryOK' /\ BoundsOK'
        BY <1>10, <1>inv DEF ListConfigs, frontendVars, boundVars, RpcOK, HistoryOK, BoundsOK
    <2> QED
        BY <1>goal, <2>3, <2>4, <2>5, <2>6
<1>11. CASE Tick
    <2>1. StorageOK' /\ PutsOK'
        BY <1>11, <1>same, <1>puts DEF Tick
    <2>2. CacheOK'
        BY <1>11, <1>cache, <1>inv DEF Tick, frontendVars, CacheOK
    <2>3. RpcOK' /\ HistoryOK' /\ BoundsOK'
        BY <1>11, <1>inv DEF Tick, frontendVars, RpcOK, HistoryOK, BoundsOK
    <2> QED
        BY <1>goal, <2>1, <2>2, <2>3
<1>12. CASE UNCHANGED vars
    <2>1. StorageOK' /\ PutsOK'
        BY <1>12, <1>same, <1>puts DEF vars
    <2>2. CacheOK'
        BY <1>12, <1>cache, <1>inv DEF vars, frontendVars, CacheOK
    <2>3. RpcOK' /\ HistoryOK' /\ BoundsOK'
        BY <1>12, <1>inv DEF vars, frontendVars, boundVars, RpcOK, HistoryOK, BoundsOK
    <2> QED
        BY <1>goal, <2>1, <2>2, <2>3
<1> QED
    BY <1>1, <1>2, <1>3, <1>4, <1>5, <1>6, <1>7, <1>8, <1>9, <1>10, <1>11, <1>12 DEF Next

\* TypeOK of the specification: among others no entry of a cache and no number of
\* tokens on its way back to a bucket is ever negative.
THEOREM QuotaTypes == Spec => []TypeOK
BY InitEstablishes, NextPreserves, PTL DEF Spec, QuotaInv

\* A configured quota has between none and its maximum of tokens, whatever
\* sequence of updates, disabling, lowering, taking, replenishing and putting
\* back came before.
THEOREM CeilingIsKept == Spec => []WithinCeiling
BY InitEstablishes, NextPreserves, PTL DEF Spec, QuotaInv

-------------------------------------------------------------------------------
(* The rate of time-based quotas. *)

MaxSkew == Max({Skew[f] : f \in Frontend})

\* What the bucket has and what was taken from it came from the tokens at the start and
\* from one replenishment per interval up to the bucket's timestamp, which is not later
\* than the fastest clock.
RateInv ==
    \A s \in Enabled(cfgs) \cap UserQuota :
        admin = 0 /\ TimeBased(cfgs[s]) =>
            /\ buckets[s].last \in 0 .. now + MaxSkew
            /\ granted[s] + buckets[s].tokens <=
                  cfgs[s].max + cfgs[s].replenish * (buckets[s].last \div cfgs[s].interval)

\* Of finitely many frontends one has the fastest clock: a smallest set of frontends
\* without one would have to be empty.
LEMMA FastestClock == \E f \in Frontend : \A g \in Frontend : Skew[g] <= Skew[f]
<1> DEFINE HasMax(U) == \E f \in U : \A g \in U : Skew[g] <= Skew[f]
           Bad == {U \in SUBSET Frontend : U # {} /\ ~HasMax(U)}
           R == StrictSubsetOrdering(Frontend)
<1>0. IsFiniteSet(Frontend) /\ Frontend # {} /\ \A f \in Frontend : Skew[f] \in Nat
    BY SystemAssumption
<1>1. SUFFICES ASSUME Bad # {} PROVE FALSE
    <2>1. Frontend \notin Bad
        BY <1>1
    <2> QED
        BY <1>0, <2>1
<1>2. IsWellFoundedOn(R, SUBSET Frontend)
    BY <1>0, FS_StrictSubsetOrderingWellFounded, FS_FiniteSubsetsOfFinite
<1>3. PICK U \in Bad : \A V \in Bad : ~(<<V, U>> \in R)
    <2>1. Bad \subseteq SUBSET Frontend
        OBVIOUS
    <2> HIDE DEF Bad, R
    <2> QED
        BY <1>1, <1>2, <2>1, WFMin
<1>4. PICK x \in U : TRUE
    OBVIOUS
<1>5. U \in SUBSET Frontend /\ x \in Frontend /\ U \ {x} \in SUBSET Frontend /\ U \ {x} # U
    OBVIOUS
<1>6. <<U \ {x}, U>> \in R
    BY <1>5 DEF StrictSubsetOrdering
<1>7. U \ {x} \notin Bad
    BY <1>3, <1>6
<1>8. CASE U \ {x} = {}
    <2>1. U = {x} /\ Skew[x] \in Nat
        BY <1>0, <1>4, <1>5, <1>8
    <2>2. HasMax(U)
        BY <2>1
    <2> QED
        BY <1>3, <2>2
<1>9. CASE U \ {x} # {}
    <2>1. PICK m \in U \ {x} : \A g \in U \ {x} : Skew[g] <= Skew[m]
        BY <1>5, <1>7, <1>9
    <2>2. \A g \in U : Skew[g] \in Nat /\ (g \in U \ {x} \/ g = x)
        BY <1>0, <1>5
    <2>3. CASE Skew[x] <= Skew[m]
        <3>1. \A g \in U : Skew[g] <= Skew[m]
            BY <2>1, <2>2, <2>3
        <3> QED
            BY <1>3, <2>1, <3>1
    <2>4. CASE Skew[m] <= Skew[x]
        <3>1. \A g \in U : Skew[g] <= Skew[x]
            BY <2>1, <2>2, <2>4
        <3> QED
            BY <1>3, <1>4, <3>1
    <2> QED
        BY <2>1, <2>2, <2>3, <2>4
<1> QED
    BY <1>8, <1>9

LEMMA MaxSkewIs == MaxSkew \in Nat /\ \A f \in Frontend : Skew[f] <= MaxSkew
<1>1. PICK f \in Frontend : \A g \in Frontend : Skew[g] <= Skew[f]
    BY FastestClock
<1>2. \A g \in Frontend : Skew[g] \in Nat
    BY SystemAssumption
<1> DEFINE S == {Skew[g] : g \in Frontend}
<1>3. Skew[f] \in S /\ \A y \in S : y \in Nat /\ Skew[f] >= y
    BY <1>1, <1>2
<1>4. MaxSkew = CHOOSE x \in S : \A y \in S : x >= y
    BY DEF MaxSkew, Max
<1> HIDE DEF S
<1>5. MaxSkew \in S /\ \A y \in S : MaxSkew >= y
    BY <1>3, <1>4
<1> QED
    BY <1>2, <1>5 DEF S

\* One interval later the quotient is greater by one at least.
LEMMA OneIntervalOn ==
    ASSUME NEW i \in Nat \ {0}, NEW a \in Nat, NEW b \in Nat, b >= a + i
    PROVE  b \div i >= a \div i + 1
<1>1. PICK q \in Nat : q = a \div i /\ i * q <= a
    OBVIOUS
<1>2. PICK p \in Nat : p = b \div i /\ b < i * (p + 1)
    OBVIOUS
<1>3. i * (q + 1) = i * q + i /\ i * (p + 1) = i * p + i /\ i * q \in Nat /\ i * p \in Nat
    OBVIOUS
<1>4. i * q + i < i * p + i
    BY <1>1, <1>2, <1>3
<1>5. i * q < i * p
    BY <1>3, <1>4
<1>6. ~(p <= q)
    <2>1. p <= q => i * p <= i * q
        OBVIOUS
    <2> QED
        BY <1>3, <1>5, <2>1
<1> QED
    BY <1>1, <1>2, <1>6

LEMMA DivisionGrows ==
    ASSUME NEW i \in Nat \ {0}, NEW a \in Nat, NEW b \in Nat, b >= a
    PROVE  b \div i \in Nat /\ a \div i \in Nat /\ b \div i >= a \div i
<1>1. PICK q \in Nat : q = a \div i /\ i * q <= a
    OBVIOUS
<1>2. PICK p \in Nat : p = b \div i /\ b < i * (p + 1)
    OBVIOUS
<1>3. i * q < i * (p + 1) /\ i * q \in Nat /\ i * (p + 1) \in Nat
    BY <1>1, <1>2
<1>4. ~(p + 1 <= q)
    <2>1. p + 1 <= q => i * (p + 1) <= i * q
        OBVIOUS
    <2> QED
        BY <1>3, <2>1
<1> QED
    BY <1>1, <1>2, <1>4
LEMMA OneMore ==
    ASSUME NEW r \in Nat, NEW q \in Nat
    PROVE  r * (q + 1) = r * q + r
    OBVIOUS

\* modBucket and the account of one bucket: a replenishment is paid for by the interval
\* that has passed, and what is put back does not count.
LEMMA ModBucketAccount ==
    ASSUME NEW cfg \in Config, TimeBased(cfg), NEW b \in Bucket, b.tokens \in 0 .. cfg.max,
           NEW L \in Nat, b.last \in 0 .. L, NEW t \in 0 .. L, NEW add \in Int,
           Sufficient(cfg, b, t, add),
           NEW g \in Nat, NEW taken \in Nat, add = -taken \/ (add > 0 /\ taken = 0),
           g + b.tokens <= cfg.max + cfg.replenish * (b.last \div cfg.interval)
    PROVE  LET c == ModBucket(cfg, b, t, add)
           IN  /\ c.last \in 0 .. L
               /\ g + taken + c.tokens <= cfg.max + cfg.replenish * (c.last \div cfg.interval)
<1>1. /\ cfg.max \in Nat /\ cfg.replenish \in Nat /\ cfg.interval \in Nat \ {0}
      /\ b.tokens \in Nat /\ b.last \in Nat /\ t \in Nat
    BY StorageAssumption DEF Config, TimeBased, Bucket
<1>2. PICK r : r = Replenished(cfg, b, t)
    OBVIOUS
<1>3. r \in Bucket /\ r.tokens \in Nat
    <2>0. t \in Int
        BY <1>1
    <2>1. r \in Bucket /\ r.tokens \in 0 .. cfg.max
        BY <1>2, <2>0, ReplenishedWithin
    <2> QED
        BY <1>1, <2>1
<1>4. r.last \in 0 .. L /\ g + r.tokens <= cfg.max + cfg.replenish * (r.last \div cfg.interval)
    <2>1. CASE t >= b.last + cfg.interval
        <3>1. r = [tokens |-> Capped(b.tokens + cfg.replenish, cfg), last |-> t]
            BY <1>2, <2>1 DEF Replenished
        <3>2. r.last = t /\ r.tokens <= b.tokens + cfg.replenish
            BY <1>1, <3>1 DEF Capped
        <3>3. PICK q \in Nat : q = b.last \div cfg.interval
            BY <1>1, DivisionGrows
        <3>4. PICK p \in Nat : p = t \div cfg.interval
            BY <1>1, DivisionGrows
        <3>5. p >= q + 1
            BY <1>1, <2>1, <3>3, <3>4, OneIntervalOn
        <3>6. cfg.replenish * p >= cfg.replenish * (q + 1)
            BY <1>1, <3>5
        <3>7. cfg.replenish * (q + 1) = cfg.replenish * q + cfg.replenish
            BY <1>1, OneMore
        <3>8. cfg.replenish * q \in Nat /\ cfg.replenish * p \in Nat
            BY <1>1
        <3>9. g + b.tokens <= cfg.max + cfg.replenish * q
            BY <3>3
        <3>10. g + r.tokens <= cfg.max + cfg.replenish * p
            BY <1>1, <1>3, <3>2, <3>6, <3>7, <3>8, <3>9
        <3> QED
            BY <3>2, <3>4, <3>10
    <2>2. CASE ~(t >= b.last + cfg.interval)
        BY <1>2, <2>2 DEF Replenished
    <2> QED
        BY <2>1, <2>2
<1>5. PICK e : e = Effective(cfg, add)
    OBVIOUS
<1>6. e = -taken
    BY <1>5 DEF Effective
<1>7. PICK c : c = ModBucket(cfg, b, t, add)
    OBVIOUS
<1>8. c = [r EXCEPT !.tokens = Capped(r.tokens + e, cfg)]
    BY <1>2, <1>5, <1>7 DEF ModBucket
<1>9. c.last = r.last /\ c.tokens = Capped(r.tokens + e, cfg)
    BY <1>3, <1>8 DEF Bucket
<1>10. c.tokens <= r.tokens - taken /\ c.tokens \in Int
    BY <1>1, <1>3, <1>6, <1>9 DEF Capped
<1>11. PICK m : m = cfg.replenish * (r.last \div cfg.interval)
    OBVIOUS
<1>12. m \in Int
    <2>1. r.last \in Nat
        BY <1>4
    <2>2. r.last \div cfg.interval \in Nat
        BY <1>1, <2>1, DivisionGrows
    <2> QED
        BY <1>1, <1>11, <2>2
<1>13. g + taken + c.tokens <= cfg.max + m
    BY <1>1, <1>3, <1>4, <1>10, <1>11, <1>12
<1> QED
    BY <1>4, <1>7, <1>9, <1>11, <1>13

\* One transaction over some quotas, at the time of one of the clocks.
LEMMA ModifiedAccount ==
    ASSUME StorageOK, HistoryOK, BoundsOK, RateInv,
           cfgs' = cfgs, now' = now, admin' = admin,
           NEW names, NEW t \in 0 .. now + MaxSkew, NEW add \in Int, NEW taken \in Nat,
           add = -taken \/ (add > 0 /\ taken = 0),
           \A s \in names \cap Enabled(cfgs) : Sufficient(cfgs[s], buckets[s], t, add),
           buckets' = Modified(cfgs, buckets, names, t, add),
           \A s \in UserQuota : granted'[s] = granted[s] + IF s \in names THEN taken ELSE 0
    PROVE  RateInv'
<1>1. now + MaxSkew \in Nat
    BY MaxSkewIs, SystemAssumption DEF BoundsOK
<1>2. SUFFICES ASSUME NEW s \in Enabled(cfgs) \cap UserQuota, admin = 0, TimeBased(cfgs[s])
               PROVE  /\ buckets'[s].last \in 0 .. now + MaxSkew
                      /\ granted'[s] + buckets'[s].tokens <=
                            cfgs[s].max + cfgs[s].replenish * (buckets'[s].last \div cfgs[s].interval)
    BY DEF RateInv
<1>3. /\ s \in Quota /\ cfgs[s] \in Config /\ buckets[s] \in Bucket /\ granted[s] \in Nat
      /\ buckets[s].tokens \in 0 .. cfgs[s].max
    BY <1>2 DEF StorageOK, HistoryOK, Enabled, WithinCeiling, Configured
<1>4. /\ buckets[s].last \in 0 .. now + MaxSkew
      /\ granted[s] + buckets[s].tokens <=
            cfgs[s].max + cfgs[s].replenish * (buckets[s].last \div cfgs[s].interval)
    BY <1>2 DEF RateInv
<1>5. CASE s \in names
    <2>1. buckets'[s] = ModBucket(cfgs[s], buckets[s], t, add) /\ granted'[s] = granted[s] + taken
        BY <1>2, <1>3, <1>5 DEF Modified
    <2>2. Sufficient(cfgs[s], buckets[s], t, add)
        BY <1>2, <1>5
    <2>3. PICK L \in Nat : L = now + MaxSkew
        BY <1>1
    <2>4. t \in 0 .. L /\ buckets[s].last \in 0 .. L
        BY <1>4, <2>3
    <2>5. PICK g \in Nat : g = granted[s]
        BY <1>3
    <2>6. g + buckets[s].tokens <=
              cfgs[s].max + cfgs[s].replenish * (buckets[s].last \div cfgs[s].interval)
        BY <1>4, <2>5
    <2>7. PICK c : c = ModBucket(cfgs[s], buckets[s], t, add)
        OBVIOUS
    <2>8. /\ c.last \in 0 .. L
          /\ g + taken + c.tokens <= cfgs[s].max + cfgs[s].replenish * (c.last \div cfgs[s].interval)
        BY <1>2, <1>3, <2>2, <2>4, <2>6, <2>7, ModBucketAccount
    <2> QED
        BY <2>1, <2>3, <2>5, <2>7, <2>8
<1>6. CASE s \notin names
    BY <1>2, <1>3, <1>4, <1>6 DEF Modified
<1> QED
    BY <1>5, <1>6

LEMMA LaterInterval ==
    ASSUME NEW a \in Nat, NEW b \in Nat, NEW k \in Nat, b >= a, NEW x \in 0 .. a + k
    PROVE  x \in 0 .. b + k
    OBVIOUS

\* Steps in which no bucket is touched.
LEMMA UntouchedAccount ==
    ASSUME BoundsOK, RateInv, cfgs' = cfgs, buckets' = buckets, granted' = granted,
           admin' = admin, now' \in Nat, now' >= now
    PROVE  RateInv'
<1>1. now \in Nat
    BY SystemAssumption DEF BoundsOK
<1>2. now' >= now /\ now' \in Nat
    OBVIOUS
<1>3. \A x \in 0 .. now + MaxSkew : x \in 0 .. now' + MaxSkew
    BY <1>1, <1>2, MaxSkewIs, LaterInterval
<1> QED
    BY <1>3 DEF RateInv

\* GetTokens takes its tokens at the time that the frontend's clock shows.
LEMMA TakeAccount ==
    ASSUME StorageOK, HistoryOK, BoundsOK, RateInv, NEW f \in Frontend,
           NEW n \in 1 .. MaxRequest, NEW refill, TakeFromBuckets(f, n, refill),
           cfgs' = cfgs, now' = now, admin' = admin
    PROVE  RateInv'
<1>1. n + MinBatchSize \in Nat /\ -(n + MinBatchSize) \in Int
    BY SystemAssumption
<1>2. Clock(f) \in 0 .. now + MaxSkew
    BY MaxSkewIs, SystemAssumption DEF Clock, BoundsOK
<1>3. /\ \A s \in refill \cap Enabled(cfgs) :
            Sufficient(cfgs[s], buckets[s], Clock(f), -(n + MinBatchSize))
      /\ buckets' = Modified(cfgs, buckets, refill, Clock(f), -(n + MinBatchSize))
      /\ \A s \in UserQuota : granted'[s] = granted[s] + IF s \in refill THEN n + MinBatchSize ELSE 0
    BY DEF TakeFromBuckets, Get, Modifiable
<1> QED
    BY <1>1, <1>2, <1>3, ModifiedAccount

\* Putting tokens back and looking at quotas take nothing.
LEMMA PutAccount ==
    ASSUME StorageOK, HistoryOK, BoundsOK, RateInv, cfgs' = cfgs, now' = now, admin' = admin,
           granted' = granted, NEW names, NEW add \in Nat,
           buckets' = Modified(cfgs, buckets, names, now, add)
    PROVE  RateInv'
<1>1. now \in 0 .. now + MaxSkew /\ now \in Int
    BY MaxSkewIs, SystemAssumption DEF BoundsOK
<1>2. ASSUME NEW s \in names \cap Enabled(cfgs)
      PROVE  Sufficient(cfgs[s], buckets[s], now, add)
    <2>1. cfgs[s] \in Config /\ buckets[s] \in Bucket /\ buckets[s].tokens \in 0 .. cfgs[s].max
        BY DEF StorageOK, WithinCeiling, Configured, Enabled
    <2> QED
        BY <1>1, <2>1, EnoughForNothing
<1>3. \A s \in UserQuota : granted'[s] = granted[s] + IF s \in names THEN 0 ELSE 0
    BY DEF HistoryOK
<1>4. add = -0 \/ (add > 0 /\ 0 = 0)
    OBVIOUS
<1> QED
    BY <1>1, <1>2, <1>3, <1>4, ModifiedAccount

LEMMA NextAccount ==
    ASSUME QuotaInv, RateInv, [Next]_vars
    PROVE  RateInv'
<1> USE SystemAssumption
<1>inv. StorageOK /\ PutsOK /\ RpcOK /\ CacheOK /\ HistoryOK /\ BoundsOK
    BY Parts
<1>now. now \in Nat /\ admin \in Nat
    BY <1>inv DEF BoundsOK
<1>same. ASSUME UNCHANGED <<storageVars, granted, now, admin>>
         PROVE  RateInv'
    BY <1>inv, <1>now, <1>same, UntouchedAccount DEF storageVars
<1>1. ASSUME NEW r \in Rpc, NEW t \in TreeQuota, NEW n \in 1 .. MaxRequest,
             Before(r, t, n) \/ BeforeCancelled(r, t, n) \/ BeforeDenied(r, t, n)
      PROVE  RateInv'
    <2>1. PICK f \in Frontend : f = ServerOf[r]
        OBVIOUS
    <2>2. PICK refill : refill = ToRefill(f, n, SpecsOf(t))
        OBVIOUS
    <2>3. cfgs' = cfgs /\ now' = now /\ admin' = admin
        BY <1>1 DEF Before, BeforeCancelled, BeforeDenied
    <2>4. TakeFromBuckets(f, n, refill) \/ UNCHANGED <<buckets, granted>>
        BY <1>1, <2>1, <2>2 DEF Before, BeforeCancelled, BeforeDenied, GetTokens, GetTokensFails
    <2>5. CASE TakeFromBuckets(f, n, refill)
        BY <1>inv, <2>3, <2>5, TakeAccount
    <2>6. CASE UNCHANGED <<buckets, granted>>
        BY <1>same, <2>3, <2>6 DEF storageVars
    <2> QED
        BY <2>4, <2>5, <2>6
<1>2. ASSUME NEW r \in Rpc, NEW queued \in 0 .. MaxRequest, NEW ok \in BOOLEAN, Handle(r, queued, ok)
      PROVE  RateInv'
    BY <1>2, <1>same DEF Handle
<1>3. ASSUME NEW f \in Frontend, Evict(f)
      PROVE  RateInv'
    BY <1>3, <1>same DEF Evict, boundVars
<1>4. ASSUME NEW t \in TreeQuota, NEW n \in 1 .. backlog[t], Sequence(t, n)
      PROVE  RateInv'
    BY <1>4, <1>same DEF Sequence, boundVars
<1>5. ASSUME NEW p \in BagToSet(puts), PutTokens(p)
      PROVE  RateInv'
    <2>1. p.tokens \in Nat /\ cfgs' = cfgs /\ now' = now /\ admin' = admin /\ granted' = granted
        BY <1>inv, <1>5 DEF PutsOK, PutTokens, boundVars
    <2>2. buckets' = Modified(cfgs, buckets, p.specs, now, p.tokens)
        BY <1>5 DEF PutTokens, Put
    <2> QED
        BY <1>inv, <2>1, <2>2, PutAccount
<1>6. ASSUME NEW p \in BagToSet(puts), PutTokensFails(p)
      PROVE  RateInv'
    BY <1>6, <1>same DEF PutTokensFails
<1>7. ASSUME NEW s \in Quota, Administrate(s)
      PROVE  RateInv'
    <2>1. admin' # 0
        BY <1>now, <1>7 DEF Administrate
    <2> QED
        BY <2>1 DEF RateInv
<1>8. CASE ListConfigs
    <2>1. /\ cfgs' = cfgs /\ now' = now /\ admin' = admin /\ granted' = granted
          /\ buckets' = Modified(cfgs, buckets, Quota, now, 0)
        BY <1>8 DEF ListConfigs, Peek, boundVars
    <2> QED
        BY <1>inv, <2>1, PutAccount
<1>9. CASE Tick
    BY <1>inv, <1>now, <1>9, UntouchedAccount DEF Tick, storageVars
<1>10. CASE UNCHANGED vars
    BY <1>10, <1>same DEF vars, boundVars
<1> QED
    BY <1>1, <1>2, <1>3, <1>4, <1>5, <1>6, <1>7, <1>8, <1>9, <1>10 DEF Next

\* A time-based quota lets through no more than its maximum and one replenishment per
\* interval that the fastest clock has seen, for any number of frontends whose clocks
\* disagree and which replenish it in turns (quota_storage.go, modBucket).
THEOREM RateIsLimited == Spec => []RateLimited
<1>1. Init => RateInv
    <2> SUFFICES ASSUME Init, NEW s \in Enabled(cfgs) \cap UserQuota, TimeBased(cfgs[s])
                 PROVE  /\ buckets[s].last \in 0 .. now + MaxSkew
                        /\ granted[s] + buckets[s].tokens <=
                              cfgs[s].max + cfgs[s].replenish * (buckets[s].last \div cfgs[s].interval)
        BY DEF RateInv
    <2>1. s \in Quota /\ s \in UserQuota /\ cfgs[s] \in Config /\ cfgs = InitConfig
        BY SystemAssumption DEF Init, Enabled
    <2>2. /\ buckets[s].last = 0 /\ buckets[s].tokens = cfgs[s].max /\ granted[s] = 0 /\ now = 0
        BY <2>1 DEF Init
    <2>3. cfgs[s].max \in Nat /\ cfgs[s].replenish \in Nat /\ cfgs[s].interval \in Nat \ {0}
        BY <2>1, StorageAssumption DEF Config, TimeBased
    <2>4. 0 \div cfgs[s].interval = 0
        BY <2>3
    <2>5. cfgs[s].replenish * 0 = 0
        BY <2>3
    <2> QED
        BY <2>2, <2>3, <2>4, <2>5, MaxSkewIs
<1>2. QuotaInv /\ RateInv => RateLimited
    <2> SUFFICES ASSUME QuotaInv, RateInv, NEW s \in Enabled(cfgs) \cap UserQuota,
                        admin = 0, TimeBased(cfgs[s])
                 PROVE  granted[s] <= cfgs[s].max
                           + cfgs[s].replenish * ((now + MaxSkew) \div cfgs[s].interval)
        BY DEF RateLimited, MaxSkew
    <2>1. StorageOK /\ HistoryOK /\ BoundsOK
        BY Parts
    <2>2. /\ cfgs[s] \in Config /\ granted[s] \in Nat /\ buckets[s].tokens \in 0 .. cfgs[s].max
          /\ now \in Nat
        BY <2>1, SystemAssumption DEF StorageOK, HistoryOK, BoundsOK, Enabled, WithinCeiling, Configured
    <2>3. /\ cfgs[s].max \in Nat /\ cfgs[s].replenish \in Nat /\ cfgs[s].interval \in Nat \ {0}
          /\ buckets[s].tokens \in Nat
        BY <2>2, StorageAssumption DEF Config, TimeBased
    <2>4. /\ buckets[s].last \in 0 .. now + MaxSkew
          /\ granted[s] + buckets[s].tokens <=
                cfgs[s].max + cfgs[s].replenish * (buckets[s].last \div cfgs[s].interval)
        BY DEF RateInv
    <2>5. now + MaxSkew \in Nat /\ buckets[s].last \in Nat /\ now + MaxSkew >= buckets[s].last
        BY <2>2, <2>4, MaxSkewIs
    <2>6. PICK q \in Nat : q = buckets[s].last \div cfgs[s].interval
        BY <2>3, <2>5, DivisionGrows
    <2>7. PICK p \in Nat : p = (now + MaxSkew) \div cfgs[s].interval /\ p >= q
        BY <2>3, <2>5, <2>6, DivisionGrows
    <2>8. cfgs[s].replenish * q <= cfgs[s].replenish * p
        BY <2>3, <2>7
    <2>9. cfgs[s].replenish * q \in Nat /\ cfgs[s].replenish * p \in Nat
        BY <2>3
    <2>10. granted[s] + buckets[s].tokens <= cfgs[s].max + cfgs[s].replenish * q
        BY <2>4, <2>6
    <2>11. granted[s] <= cfgs[s].max + cfgs[s].replenish * p
        BY <2>2, <2>3, <2>8, <2>9, <2>10
    <2> QED
        BY <2>7, <2>11
<1> QED
    BY <1>1, <1>2, InitEstablishes, NextPreserves, NextAccount, PTL DEF Spec

-------------------------------------------------------------------------------
(* Where the tokens are. *)

\* Sums.

\* The units of a finite function can be counted.
LEMMA UnitsFinite ==
    ASSUME NEW D, IsFiniteSet(D), NEW g \in [D -> Nat]
    PROVE  IsFiniteSet(Units(g)) /\ Total(g) \in Nat
<1> DEFINE stack == [x \in D |-> {x} \X (1 .. g[x])]
           stacks == {{x} \X (1 .. g[x]) : x \in D}
<1>1. stack \in Surjection(D, stacks)
    BY DEF Surjection
<1> HIDE DEF stack
<1>2. IsFiniteSet(stacks)
    BY <1>1, FS_Surjection
<1>3. ASSUME NEW T \in stacks PROVE IsFiniteSet(T)
    <2>1. PICK x \in D : T = {x} \X (1 .. g[x])
        OBVIOUS
    <2>2. IsFiniteSet({x}) /\ IsFiniteSet(1 .. g[x])
        <3>1. IsFiniteSet({x})
            BY FS_Singleton
        <3>2. IsFiniteSet(1 .. g[x])
            BY FS_Interval
        <3> QED
            BY <3>1, <3>2
    <2> QED
        BY <2>1, <2>2, FS_Product
<1>4. Units(g) = UNION stacks
    BY DEF Units
<1> HIDE DEF stacks
<1>5. IsFiniteSet(Units(g))
    BY <1>2, <1>3, <1>4, FS_UNION
<1> QED
    BY <1>5, FS_CardinalityType DEF Total

\* One summand can be taken out of a sum.
LEMMA TotalRest ==
    ASSUME NEW D, IsFiniteSet(D), NEW g \in [D -> Nat], NEW x \in D
    PROVE  Total(g) = Total([y \in D \ {x} |-> g[y]]) + g[x]
<1> DEFINE h == [y \in D \ {x} |-> g[y]]
           own == {x} \X (1 .. g[x])
<1>1. IsFiniteSet(Units(h)) /\ Cardinality(Units(h)) \in Nat
    <2>1. IsFiniteSet(D \ {x}) /\ h \in [D \ {x} -> Nat]
        BY FS_RemoveElement
    <2> QED
        BY <2>1, UnitsFinite DEF Total
<1>2. IsFiniteSet(own) /\ Cardinality(own) = g[x]
    <2>1. IsFiniteSet({x}) /\ Cardinality({x}) = 1
        BY FS_Singleton
    <2>2. IsFiniteSet(1 .. g[x]) /\ Cardinality(1 .. g[x]) = g[x]
        BY FS_Interval
    <2>3. PICK T : T = 1 .. g[x]
        OBVIOUS
    <2>4. IsFiniteSet(T) /\ IsFiniteSet({x})
        BY <2>1, <2>2, <2>3
    <2>5. IsFiniteSet({x} \X T) /\ Cardinality({x} \X T) = Cardinality({x}) * Cardinality(T)
        BY <2>4, FS_Product
    <2>6. 1 * g[x] = g[x]
        OBVIOUS
    <2> QED
        BY <2>1, <2>2, <2>3, <2>5, <2>6
<1>3. Units(g) = Units(h) \cup own
    BY DEF Units
<1>4. Units(h) \cap own = {}
    BY DEF Units
<1> HIDE DEF h, own
<1>5. Cardinality(Units(g)) = Cardinality(Units(h)) + Cardinality(own) - Cardinality(Units(h) \cap own)
    BY <1>1, <1>2, <1>3, FS_Union
<1>6. Cardinality(Units(h) \cap own) = 0
    BY <1>4, FS_EmptySet
<1> QED
    BY <1>1, <1>2, <1>5, <1>6 DEF Total, h

\* When one summand changes, the sum changes as much.
LEMMA TotalChange ==
    ASSUME NEW D, IsFiniteSet(D), NEW g \in [D -> Nat], NEW h \in [D -> Nat], NEW x \in D,
           \A y \in D \ {x} : h[y] = g[y]
    PROVE  Total(h) = Total(g) - g[x] + h[x]
<1>1. PICK rest : rest = [y \in D \ {x} |-> g[y]]
    OBVIOUS
<1>2. rest = [y \in D \ {x} |-> h[y]]
    BY <1>1
<1>3. Total(g) = Total(rest) + g[x] /\ Total(h) = Total(rest) + h[x]
    BY <1>1, <1>2, TotalRest
<1>4. Total(rest) \in Nat
    <2>1. IsFiniteSet(D \ {x}) /\ rest \in [D \ {x} -> Nat]
        BY <1>1, FS_RemoveElement
    <2> QED
        BY <2>1, UnitsFinite
<1> QED
    BY <1>3, <1>4

\* The same for functions on different sets, whose values are 0 outside.
LEMMA TotalOfMore ==
    ASSUME NEW D, NEW E, IsFiniteSet(D), D \subseteq E, NEW g \in [D -> Nat], NEW h \in [E -> Nat],
           \A y \in D : h[y] = g[y], \A y \in E \ D : h[y] = 0
    PROVE  Total(h) = Total(g)
<1>1. ASSUME NEW y \in E \ D PROVE 1 .. h[y] = {}
    BY <1>1
<1>2. Units(h) = Units(g)
    BY <1>1 DEF Units
<1> QED
    BY <1>2 DEF Total

-------------------------------------------------------------------------------
\* The places where tokens are.

\* The sum over the calls of PutTokens in a bag that are for the quota s.
Copies(b, p)  == IF p \in DOMAIN b THEN b[p] ELSE 0
For(b, s)     == {p \in DOMAIN b : s \in p.specs}
PutSum(b, s)  == [p \in For(b, s) |-> p.tokens * b[p]]

TokenBag(b) == /\ IsABag(b) /\ IsFiniteSet(DOMAIN b)
               /\ \A p \in DOMAIN b : p.tokens \in Nat

LEMMA PutSumType ==
    ASSUME NEW b, TokenBag(b), NEW s
    PROVE  /\ IsFiniteSet(For(b, s)) /\ PutSum(b, s) \in [For(b, s) -> Nat]
           /\ Total(PutSum(b, s)) \in Nat
<1>1. IsFiniteSet(For(b, s))
    BY FS_Subset DEF TokenBag, For
<1>2. ASSUME NEW p \in For(b, s) PROVE p.tokens * b[p] \in Nat
    BY DEF TokenBag, For, IsABag
<1>3. PutSum(b, s) \in [For(b, s) -> Nat]
    BY <1>2 DEF PutSum
<1> QED
    BY <1>1, <1>3, UnitsFinite

\* One more call for a quota, and no other change to its calls.
LEMMA PutSumGrows ==
    ASSUME NEW b, TokenBag(b), NEW c, TokenBag(c), NEW s, NEW p \in For(c, s),
           For(b, s) \subseteq For(c, s), c[p] = Copies(b, p) + 1,
           \A q \in For(c, s) \ {p} : q \in For(b, s) /\ c[q] = b[q]
    PROVE  Total(PutSum(c, s)) = Total(PutSum(b, s)) + p.tokens
<1> DEFINE D == For(c, s)
           g == [q \in D |-> q.tokens * Copies(b, q)]
<1>1. IsFiniteSet(D) /\ PutSum(c, s) \in [D -> Nat]
    BY PutSumType
<1>2. PutSum(b, s) \in [For(b, s) -> Nat] /\ IsFiniteSet(For(b, s)) /\ Total(PutSum(b, s)) \in Nat
    BY PutSumType
<1>3. ASSUME NEW q \in D PROVE q.tokens \in Nat /\ Copies(b, q) \in Nat
    BY DEF TokenBag, For, IsABag, Copies
<1>4. g \in [D -> Nat]
    BY <1>3
<1>5. Total(g) = Total(PutSum(b, s))
    <2>1. ASSUME NEW q \in For(b, s) PROVE g[q] = PutSum(b, s)[q]
        BY DEF Copies, PutSum, For
    <2>2. ASSUME NEW q \in D \ For(b, s) PROVE g[q] = 0
        <3>1. Copies(b, q) = 0
            BY DEF Copies, For
        <3>2. q.tokens * 0 = 0
            BY <1>3
        <3> QED
            BY <3>1, <3>2
    <2> HIDE DEF g
    <2> QED
        BY <1>2, <1>4, <2>1, <2>2, TotalOfMore
<1>6. ASSUME NEW q \in D \ {p} PROVE PutSum(c, s)[q] = g[q]
    BY DEF PutSum, Copies, For
<1>7. PutSum(c, s)[p] = g[p] + p.tokens
    <2>1. PutSum(c, s)[p] = p.tokens * (Copies(b, p) + 1) /\ g[p] = p.tokens * Copies(b, p)
        BY DEF PutSum
    <2> QED
        BY <1>3, <2>1, OneMore
<1> HIDE DEF g, D
<1>8. Total(PutSum(c, s)) = Total(g) - g[p] + PutSum(c, s)[p]
    BY <1>1, <1>4, <1>6, TotalChange DEF D
<1>9. Total(g) \in Nat /\ g[p] \in Nat /\ p.tokens \in Nat
    BY <1>1, <1>3, <1>4, UnitsFinite DEF D
<1> QED
    BY <1>5, <1>7, <1>8, <1>9

LEMMA PutSumSame ==
    ASSUME NEW b, NEW c, NEW s, For(b, s) = For(c, s), \A q \in For(b, s) : c[q] = b[q]
    PROVE  Total(PutSum(c, s)) = Total(PutSum(b, s))
BY DEF PutSum

Calls == TokenBag(puts)

\* A set of calls, one of which is for the quota s, is added.
LEMMA PutsAdded ==
    ASSUME Calls, NEW S, IsFiniteSet(S), \A q \in S : q.tokens \in Nat, NEW s,
           puts' = puts (+) SetToBag(S)
    PROVE  /\ Calls'
           /\ (\A q \in S : s \notin q.specs) => Total(InPuts(s)') = Total(InPuts(s))
           /\ \A p \in S : s \in p.specs /\ (\A q \in S : s \in q.specs => q = p)
                 => Total(InPuts(s)') = Total(InPuts(s)) + p.tokens
<1>1. /\ IsABag(puts') /\ DOMAIN puts' = DOMAIN puts \cup S
      /\ \A q \in DOMAIN puts' : puts'[q] = Copies(puts, q) + Copies(SetToBag(S), q)
    <2>1. IsABag(puts') /\ DOMAIN puts' = DOMAIN puts \cup S
        BY BagPlus DEF Calls, TokenBag
    <2>2. DOMAIN SetToBag(S) = S
        BY DEF SetToBag
    <2>3. ASSUME NEW q \in DOMAIN puts \cup S
          PROVE  puts'[q] = Copies(puts, q) + Copies(SetToBag(S), q)
        BY <2>2 DEF (+), Copies
    <2> QED
        BY <2>1, <2>3
<1>2. \A q : Copies(SetToBag(S), q) = IF q \in S THEN 1 ELSE 0
    BY DEF SetToBag, Copies
<1>3. Calls'
    <2>1. IsFiniteSet(DOMAIN puts \cup S)
        BY FS_Union DEF Calls, TokenBag
    <2> QED
        BY <1>1, <2>1 DEF Calls, TokenBag
<1>4. InPuts(s) = PutSum(puts, s) /\ InPuts(s)' = PutSum(puts', s)
    BY DEF InPuts, PutSum, For, BagToSet
<1>5. \A q \in DOMAIN puts : puts[q] \in Nat /\ Copies(puts, q) = puts[q]
    BY DEF Calls, TokenBag, IsABag, Copies
<1>6. ASSUME \A q \in S : s \notin q.specs
      PROVE  Total(InPuts(s)') = Total(InPuts(s))
    <2>1. For(puts', s) = For(puts, s)
        BY <1>1, <1>6 DEF For
    <2>2. \A q \in For(puts, s) : puts'[q] = puts[q]
        BY <1>1, <1>2, <1>5, <1>6 DEF For
    <2> QED
        BY <1>4, <2>1, <2>2, PutSumSame
<1>7. ASSUME NEW p \in S, s \in p.specs, \A q \in S : s \in q.specs => q = p
      PROVE  Total(InPuts(s)') = Total(InPuts(s)) + p.tokens
    <2>1. For(puts', s) = For(puts, s) \cup {p} /\ p \in For(puts', s)
        BY <1>1, <1>7 DEF For
    <2>2. puts'[p] = Copies(puts, p) + 1
        BY <1>1, <1>2, <1>7
    <2>3. \A q \in For(puts', s) \ {p} : q \in For(puts, s) /\ puts'[q] = puts[q]
        BY <1>1, <1>2, <1>5, <1>7 DEF For
    <2>4. TokenBag(puts) /\ TokenBag(puts')
        BY <1>3 DEF Calls
    <2> QED
        BY <1>4, <2>1, <2>2, <2>3, <2>4, PutSumGrows
<1> QED
    BY <1>3, <1>6, <1>7

LEMMA OnePutAdded ==
    ASSUME Calls, NEW p, p.tokens \in Nat, NEW s, puts' = puts (+) SetToBag({p})
    PROVE  /\ Calls'
           /\ s \notin p.specs => Total(InPuts(s)') = Total(InPuts(s))
           /\ s \in p.specs => Total(InPuts(s)') = Total(InPuts(s)) + p.tokens
<1>1. PICK S : S = {p}
    OBVIOUS
<1>2. IsFiniteSet(S) /\ \A q \in S : q.tokens \in Nat
    BY <1>1, FS_Singleton
<1>3. puts' = puts (+) SetToBag(S)
    BY <1>1
<1>4. /\ Calls'
      /\ (\A q \in S : s \notin q.specs) => Total(InPuts(s)') = Total(InPuts(s))
      /\ \A r \in S : s \in r.specs /\ (\A q \in S : s \in q.specs => q = r)
            => Total(InPuts(s)') = Total(InPuts(s)) + r.tokens
    BY <1>2, <1>3, PutsAdded
<1> QED
    BY <1>1, <1>4

\* A call is taken out.
LEMMA PutsTaken ==
    ASSUME Calls, NEW p \in BagToSet(puts), NEW s, puts' = puts (-) SetToBag({p})
    PROVE  /\ Calls'
           /\ Total(InPuts(s)') = Total(InPuts(s)) - IF s \in p.specs THEN p.tokens ELSE 0
<1>1. p \in DOMAIN puts /\ puts[p] \in Nat \ {0} /\ \A q \in DOMAIN puts : puts[q] \in Nat \ {0}
    BY DEF BagToSet, Calls, TokenBag, IsABag
<1>2. /\ DOMAIN puts' = IF puts[p] = 1 THEN DOMAIN puts \ {p} ELSE DOMAIN puts
      /\ puts[p] # 1 => puts'[p] = puts[p] - 1
      /\ \A q \in DOMAIN puts \ {p} : puts'[q] = puts[q]
    BY <1>1 DEF (-), SetToBag
<1>3. Calls'
    <2>1. IsABag(puts') /\ DOMAIN puts' \subseteq DOMAIN puts
        BY BagMinus DEF Calls, TokenBag
    <2>2. IsFiniteSet(DOMAIN puts')
        BY <2>1, FS_Subset DEF Calls, TokenBag
    <2> QED
        BY <2>1, <2>2 DEF Calls, TokenBag
<1>4. InPuts(s) = PutSum(puts, s) /\ InPuts(s)' = PutSum(puts', s)
    BY DEF InPuts, PutSum, For, BagToSet
<1>5. TokenBag(puts) /\ TokenBag(puts') /\ p.tokens \in Nat
    BY <1>1, <1>3 DEF Calls, TokenBag
<1>6. ASSUME s \in p.specs PROVE Total(InPuts(s)) = Total(InPuts(s)') + p.tokens
    <2>1. For(puts', s) \subseteq For(puts, s) /\ p \in For(puts, s)
        BY <1>1, <1>2, <1>6 DEF For
    <2>2. puts[p] = Copies(puts', p) + 1
        BY <1>1, <1>2 DEF Copies
    <2>3. \A q \in For(puts, s) \ {p} : q \in For(puts', s) /\ puts[q] = puts'[q]
        BY <1>2 DEF For
    <2>4. PICK b : b = puts'
        OBVIOUS
    <2>5. /\ TokenBag(b) /\ For(b, s) \subseteq For(puts, s) /\ puts[p] = Copies(b, p) + 1
          /\ \A q \in For(puts, s) \ {p} : q \in For(b, s) /\ puts[q] = b[q]
        BY <1>5, <2>1, <2>2, <2>3, <2>4
    <2>6. Total(PutSum(puts, s)) = Total(PutSum(b, s)) + p.tokens
        BY <1>5, <2>1, <2>5, PutSumGrows
    <2> QED
        BY <1>4, <2>4, <2>6
<1>7. ASSUME s \notin p.specs PROVE Total(InPuts(s)') = Total(InPuts(s))
    <2>1. For(puts', s) = For(puts, s)
        BY <1>2, <1>7 DEF For
    <2>2. \A q \in For(puts, s) : puts'[q] = puts[q]
        BY <1>2, <1>7 DEF For
    <2> QED
        BY <1>4, <2>1, <2>2, PutSumSame
<1>8. Total(InPuts(s)) \in Nat /\ Total(InPuts(s)') \in Nat
    BY <1>4, <1>5, PutSumType
<1> QED
    BY <1>3, <1>5, <1>6, <1>7, <1>8

\* Only the cache of one frontend changes.
LEMMA CachesMove ==
    ASSUME CacheOK, CacheOK', NEW f \in Frontend, NEW s,
           \A g \in Frontend \ {f} : cache'[g] = cache[g]
    PROVE  /\ CachedIn(f, s) \in Nat /\ CachedIn(f, s)' \in Nat
           /\ Total(InCaches(s)) \in Nat
           /\ Total(InCaches(s)') = Total(InCaches(s)) - CachedIn(f, s) + CachedIn(f, s)'
<1>1. \A g \in Frontend : CachedIn(g, s) \in Nat /\ CachedIn(g, s)' \in Nat
    BY DEF CacheOK, CachedIn, Cached, Entry
<1>2. PICK a : a = InCaches(s)
    OBVIOUS
<1>3. PICK b : b = InCaches(s)'
    OBVIOUS
<1>4. /\ a \in [Frontend -> Nat] /\ a[f] = CachedIn(f, s)
      /\ b \in [Frontend -> Nat] /\ b[f] = CachedIn(f, s)'
    BY <1>1, <1>2, <1>3 DEF InCaches
<1>5. \A g \in Frontend \ {f} : b[g] = a[g]
    BY <1>2, <1>3 DEF InCaches, CachedIn, Cached
<1>6. Total(b) = Total(a) - a[f] + b[f] /\ Total(a) \in Nat
    BY <1>4, <1>5, SystemAssumption, TotalChange, UnitsFinite
<1> QED
    BY <1>1, <1>2, <1>3, <1>4, <1>6

\* What an RPC holds of a quota.
Holds(r, s) == IF rpc[r].tree \in TreesOf(s) THEN rpc[r].leaves ELSE 0

\* Only one RPC changes.
LEMMA RpcsMove ==
    ASSUME RpcOK, RpcOK', NEW r \in Rpc, NEW s, \A q \in Rpc \ {r} : rpc'[q] = rpc[q]
    PROVE  /\ Holds(r, s) \in Nat /\ Holds(r, s)' \in Nat
           /\ Total(InRpcs(s)) \in Nat
           /\ Total(InRpcs(s)') = Total(InRpcs(s)) - Holds(r, s) + Holds(r, s)'
<1>1. \A q \in Rpc : rpc[q].leaves \in Nat /\ rpc'[q].leaves \in Nat
    BY SystemAssumption DEF RpcOK, NoRpc
<1>2. PICK a : a = InRpcs(s)
    OBVIOUS
<1>3. PICK b : b = InRpcs(s)'
    OBVIOUS
<1>4. /\ a \in [Rpc -> Nat] /\ a[r] = Holds(r, s)
      /\ b \in [Rpc -> Nat] /\ b[r] = Holds(r, s)'
    BY <1>1, <1>2, <1>3 DEF InRpcs, Holds
<1>5. \A q \in Rpc \ {r} : b[q] = a[q]
    BY <1>2, <1>3 DEF InRpcs
<1>6. Total(b) = Total(a) - a[r] + b[r] /\ Total(a) \in Nat
    BY <1>4, <1>5, SystemAssumption, TotalChange, UnitsFinite
<1> QED
    BY <1>1, <1>2, <1>3, <1>4, <1>6 DEF Holds

\* A number of one tree changes: of leaves that wait, or of leaves paid back.
LEMMA TreesMove ==
    ASSUME NEW a \in [TreeQuota -> Nat], NEW b \in [TreeQuota -> Nat], NEW t \in TreeQuota,
           NEW d \in Int, b[t] = a[t] + d, \A u \in TreeQuota \ {t} : b[u] = a[u],
           NEW s, NEW A, A = [u \in TreesOf(s) |-> a[u]], NEW B, B = [u \in TreesOf(s) |-> b[u]]
    PROVE  Total(B) = Total(A) + IF t \in TreesOf(s) THEN d ELSE 0
<1>1. A = [u \in TreesOf(s) |-> a[u]]
    OBVIOUS
<1>2. B = [u \in TreesOf(s) |-> b[u]]
    OBVIOUS
<1>3. TreesOf(s) \subseteq TreeQuota
    BY DEF TreesOf
<1>4. IsFiniteSet(TreesOf(s)) /\ A \in [TreesOf(s) -> Nat] /\ B \in [TreesOf(s) -> Nat]
    <2>1. TreesOf(s) \in SUBSET Quota
        BY <1>3, SystemAssumption
    <2> QED
        BY <1>1, <1>2, <1>3, <2>1, SystemAssumption, FS_Subset
<1>5. Total(A) \in Nat
    BY <1>4, UnitsFinite
<1>6. CASE t \in TreesOf(s)
    <2>1. \A u \in TreesOf(s) \ {t} : B[u] = A[u]
        BY <1>1, <1>2, <1>3
    <2>2. Total(B) = Total(A) - A[t] + B[t]
        BY <1>4, <1>6, <2>1, TotalChange
    <2>3. A[t] = a[t] /\ B[t] = b[t] /\ a[t] \in Nat /\ b[t] \in Nat
        BY <1>1, <1>2, <1>6
    <2> QED
        BY <1>1, <1>2, <1>5, <1>6, <2>2, <2>3
<1>7. CASE t \notin TreesOf(s)
    <2>1. A = B
        BY <1>1, <1>2, <1>3, <1>7
    <2> QED
        BY <1>1, <1>2, <1>5, <1>7, <2>1
<1> QED
    BY <1>6, <1>7

-------------------------------------------------------------------------------
\* The account of a quota.

Counted(s) == /\ s \in Enabled(cfgs) \cap (TreeQuota \cup {GlobalQuota})
              /\ admin = 0 /\ ~TimeBased(cfgs[s]) /\ ~DryRun /\ IncreaseFactor <= 100

Account(s) == buckets[s].tokens + Outstanding(s)

Balanced(s) ==
    Counted(s) =>
        /\ Account(s) <= cfgs[s].max + Total(PaidBack(s))
        /\ failures = 0 /\ IncreaseFactor = 100 => Account(s) = cfgs[s].max

CacheBounded == \A f \in Frontend : f \notin evicting => Cardinality(Cached(f)) <= MaxEntries

TokenInv == /\ Calls /\ CacheBounded
            /\ \A s \in Quota : Balanced(s)

\* The parts of an account are numbers.
Numbers(s) == /\ buckets[s].tokens \in Nat /\ cfgs[s].max \in Nat
              /\ buckets[s].tokens <= cfgs[s].max
              /\ Total(InCaches(s)) \in Nat /\ Total(InRpcs(s)) \in Nat
              /\ Total(InPuts(s)) \in Nat /\ Total(InTrees(s)) \in Nat
              /\ Total(PaidBack(s)) \in Nat

AllNumbers == \A s \in Quota : Counted(s) => Numbers(s)

LEMMA AccountType == QuotaInv /\ Calls => AllNumbers
<1> SUFFICES ASSUME QuotaInv, Calls, NEW s \in Quota, Counted(s) PROVE Numbers(s)
    BY DEF AllNumbers
<1>1. StorageOK /\ PutsOK /\ RpcOK /\ CacheOK /\ HistoryOK
    BY Parts
<1>2. cfgs[s].max \in Nat /\ buckets[s].tokens \in 0 .. cfgs[s].max
    BY <1>1, StorageAssumption DEF StorageOK, Counted, WithinCeiling, Enabled, Configured, Config
<1>3. Total(InCaches(s)) \in Nat
    <2>1. InCaches(s) \in [Frontend -> Nat]
        BY <1>1 DEF InCaches, CacheOK, CachedIn, Entry
    <2> QED
        BY <2>1, SystemAssumption, UnitsFinite
<1>4. Total(InRpcs(s)) \in Nat
    <2>1. InRpcs(s) \in [Rpc -> Nat]
        BY <1>1, SystemAssumption DEF InRpcs, RpcOK, NoRpc
    <2> QED
        BY <2>1, SystemAssumption, UnitsFinite
<1>5. Total(InPuts(s)) \in Nat
    <2>1. InPuts(s) = PutSum(puts, s)
        BY DEF InPuts, PutSum, For, BagToSet
    <2> QED
        BY <2>1, PutSumType DEF Calls
<1>6. IsFiniteSet(TreesOf(s)) /\ TreesOf(s) \subseteq TreeQuota
    <2>1. TreesOf(s) \subseteq TreeQuota
        BY DEF TreesOf
    <2>2. TreesOf(s) \in SUBSET Quota
        BY <2>1, SystemAssumption
    <2> QED
        BY <2>1, <2>2, SystemAssumption, FS_Subset
<1>7. Total(InTrees(s)) \in Nat
    <2>1. InTrees(s) \in [TreesOf(s) -> Nat]
        BY <1>1, <1>6 DEF InTrees, HistoryOK
    <2> QED
        BY <1>6, <2>1, UnitsFinite
<1>8. Total(PaidBack(s)) \in Nat
    <2>1. PaidBack(s) \in [TreesOf(s) -> Nat]
        BY <1>1, <1>6 DEF PaidBack, HistoryOK
    <2> QED
        BY <1>6, <2>1, UnitsFinite
<1> QED
    BY <1>2, <1>3, <1>4, <1>5, <1>7, <1>8 DEF Numbers

LEMMA AccountTypes ==
    ASSUME QuotaInv, QuotaInv', Calls, Calls', NEW s \in Quota, Counted(s), Counted(s)'
    PROVE  /\ Numbers(s) /\ Numbers(s)'
           /\ Account(s) \in Int /\ Account(s)' \in Int
           /\ Total(PaidBack(s)) \in Int /\ Total(PaidBack(s)') \in Int
<1>1. AllNumbers /\ AllNumbers'
    BY AccountType, PTL
<1>2. Numbers(s) /\ Numbers(s)'
    BY <1>1 DEF AllNumbers
<1> QED
    BY <1>2 DEF Numbers, Account, Outstanding

\* What an account comes to when its parts change by these numbers.
LEMMA AccountChange ==
    ASSUME NEW s, Numbers(s), NEW b \in Int, NEW c \in Int, NEW r \in Int, NEW p \in Int, NEW t \in Int,
           buckets'[s].tokens = buckets[s].tokens + b,
           Total(InCaches(s)') = Total(InCaches(s)) + c, Total(InRpcs(s)') = Total(InRpcs(s)) + r,
           Total(InPuts(s)') = Total(InPuts(s)) + p, Total(InTrees(s)') = Total(InTrees(s)) + t
    PROVE  Account(s)' = Account(s) + (b + c + r + p + t)
<1>1. PICK B, C, R, P, T :
          /\ B = buckets[s].tokens /\ C = Total(InCaches(s)) /\ R = Total(InRpcs(s))
          /\ P = Total(InPuts(s)) /\ T = Total(InTrees(s))
    OBVIOUS
<1>2. B \in Nat /\ C \in Nat /\ R \in Nat /\ P \in Nat /\ T \in Nat
    BY <1>1 DEF Numbers
<1>3. Account(s) = B + (C + R + P + T)
    BY <1>1 DEF Account, Outstanding
<1>4. Account(s)' = (B + b) + ((C + c) + (R + r) + (P + p) + (T + t))
    BY <1>1 DEF Account, Outstanding
<1> QED
    BY <1>2, <1>3, <1>4

\* A step that makes no tokens, and loses none unless something fails, keeps the
\* account.
LEMMA StepBalances ==
    ASSUME NEW s \in Quota, Balanced(s), Counted(s)' => Counted(s),
           cfgs' = cfgs,
           failures' = 0 => failures = 0,
           Counted(s) => /\ Numbers(s) /\ Numbers(s)'
                         /\ Account(s)' + Total(PaidBack(s)) <= Account(s) + Total(PaidBack(s)')
                         /\ failures' = 0 /\ IncreaseFactor = 100 /\ Account(s) = cfgs[s].max
                               => Account(s)' = Account(s)
    PROVE  Balanced(s)'
<1>1. SUFFICES ASSUME Counted(s)'
               PROVE  /\ Account(s)' <= cfgs[s].max + Total(PaidBack(s)')
                      /\ failures' = 0 /\ IncreaseFactor = 100 => Account(s)' = cfgs[s].max
    BY DEF Balanced
<1>2. PICK a, b, m, u, v : a = Account(s) /\ b = Account(s)' /\ m = cfgs[s].max
                           /\ u = Total(PaidBack(s)) /\ v = Total(PaidBack(s)')
    OBVIOUS
<1>3. a \in Int /\ b \in Int /\ m \in Int /\ u \in Int /\ v \in Int
    BY <1>1, <1>2 DEF Numbers, Account, Outstanding
<1>4. /\ a <= m + u /\ (failures = 0 /\ IncreaseFactor = 100 => a = m)
      /\ b + u <= a + v
      /\ failures' = 0 /\ IncreaseFactor = 100 /\ a = m => b = a
    BY <1>1, <1>2 DEF Balanced
<1>5. b <= m + v /\ (failures' = 0 /\ IncreaseFactor = 100 => b = m)
    BY <1>3, <1>4
<1> QED
    BY <1>2, <1>5

\* What taking tokens and putting them back does to the bucket of such a quota.
LEMMA BucketTaken ==
    ASSUME QuotaInv, NEW s \in Quota, Counted(s), NEW f \in Frontend, NEW n \in Nat, NEW refill,
           TakeFromBuckets(f, n, refill)
    PROVE  buckets'[s].tokens =
               buckets[s].tokens - IF s \in refill THEN n + MinBatchSize ELSE 0
<1>1. /\ cfgs[s] \in Config /\ buckets[s] \in Bucket /\ buckets[s].tokens \in 0 .. cfgs[s].max
      /\ cfgs[s].max \in Nat /\ s \in Enabled(cfgs) /\ ~TimeBased(cfgs[s])
    BY StorageAssumption DEF QuotaInv, TypeOK, WithinCeiling, Counted, Enabled, Configured, Config
<1>2. MinBatchSize \in Nat
    BY SystemAssumption
<1>3. CASE s \in refill
    <2>1. PICK x \in Nat : x = n + MinBatchSize
        BY <1>2
    <2>2. buckets'[s] = ModBucket(cfgs[s], buckets[s], Clock(f), -x)
        BY <1>1, <1>3, <2>1 DEF TakeFromBuckets, Get, Modified
    <2>3. Replenished(cfgs[s], buckets[s], Clock(f)) = buckets[s]
        BY <1>1 DEF Replenished
    <2>4. Effective(cfgs[s], -x) = -x
        BY <1>1 DEF Effective
    <2>5. Capped(buckets[s].tokens + -x, cfgs[s]) = buckets[s].tokens - x
        BY <1>1, <2>1 DEF Capped
    <2>6. buckets'[s].tokens = buckets[s].tokens - x
        BY <1>1, <2>2, <2>3, <2>4, <2>5 DEF ModBucket, Bucket
    <2> QED
        BY <1>3, <2>1, <2>6
<1>4. CASE s \notin refill
    <2>1. buckets'[s] = buckets[s]
        BY <1>4 DEF TakeFromBuckets, Get, Modified
    <2> QED
        BY <1>1, <1>4, <2>1 DEF Bucket
<1> QED
    BY <1>3, <1>4

LEMMA BucketPut ==
    ASSUME QuotaInv, NEW s \in Quota, Counted(s), NEW names, NEW n \in Nat,
           buckets' = Modified(cfgs, buckets, names, now, n)
    PROVE  /\ s \notin names => buckets'[s].tokens = buckets[s].tokens
           /\ s \in names => buckets'[s].tokens <= buckets[s].tokens + n
           /\ s \in names /\ buckets[s].tokens + n <= cfgs[s].max
                 => buckets'[s].tokens = buckets[s].tokens + n
<1>1. /\ cfgs[s] \in Config /\ buckets[s] \in Bucket /\ buckets[s].tokens \in 0 .. cfgs[s].max
      /\ cfgs[s].max \in Nat /\ s \in Enabled(cfgs) /\ ~TimeBased(cfgs[s])
    BY StorageAssumption DEF QuotaInv, TypeOK, WithinCeiling, Counted, Enabled, Configured, Config
<1>2. CASE s \in names
    <2>1. buckets'[s] = ModBucket(cfgs[s], buckets[s], now, n)
        BY <1>1, <1>2 DEF Modified
    <2>2. Replenished(cfgs[s], buckets[s], now) = buckets[s] /\ Effective(cfgs[s], n) = n
        BY <1>1 DEF Replenished, Effective
    <2>3. buckets'[s].tokens = Capped(buckets[s].tokens + n, cfgs[s])
        BY <1>1, <2>1, <2>2 DEF ModBucket, Bucket
    <2> QED
        BY <1>1, <1>2, <2>3 DEF Capped
<1>3. CASE s \notin names
    BY <1>3 DEF Modified
<1> QED
    BY <1>2, <1>3

\* A request is charged to the quotas that count the leaves of its tree.
LEMMA Charged ==
    ASSUME NEW s \in TreeQuota \cup {GlobalQuota}, NEW t \in TreeQuota
    PROVE  /\ s \in SpecsOf(t) <=> t \in TreesOf(s)
           /\ s \in {t, GlobalQuota} <=> t \in TreesOf(s)
BY SystemAssumption DEF SpecsOf, TreesOf

\* GetTokens moves tokens from the bucket to the cache, and n of them to the caller.
LEMMA GetMoves ==
    ASSUME QuotaInv, NEW s \in Quota, Counted(s), NEW f \in Frontend, NEW n \in Nat,
           NEW specs, GetTokens(f, n, specs)
    PROVE  buckets'[s].tokens + CachedIn(f, s)' + (IF s \in specs THEN n ELSE 0) =
               buckets[s].tokens + CachedIn(f, s)
<1>1. PICK refill : refill = ToRefill(f, n, specs)
    OBVIOUS
<1>2. /\ TakeFromBuckets(f, n, refill)
      /\ cache' = [cache EXCEPT ![f] = Filled(f, n, specs, refill)]
    BY <1>1 DEF GetTokens
<1>3. buckets'[s].tokens = buckets[s].tokens - IF s \in refill THEN n + MinBatchSize ELSE 0
    BY <1>2, BucketTaken
<1>4. CacheOK /\ CachedIn(f, s) \in Nat /\ MinBatchSize \in Nat /\ buckets[s].tokens \in Int
    BY Parts, SystemAssumption DEF CacheOK, CachedIn, Entry, StorageOK, Bucket
<1>5. cache'[f] = Filled(f, n, specs, refill)
    BY <1>2, <1>4 DEF CacheOK
<1>6. refill \subseteq specs
    BY <1>1 DEF ToRefill
<1>7. CASE s \in specs
    <2>1. s \in Cached(f) \cup refill
        BY <1>1, <1>7 DEF ToRefill
    <2>2. CachedIn(f, s)' = CachedIn(f, s) + (IF s \in refill THEN n + MinBatchSize ELSE 0) - n
        BY <1>5, <1>7, <2>1 DEF CachedIn, Cached, Filled
    <2> QED
        BY <1>3, <1>4, <1>7, <2>2
<1>8. CASE s \notin specs
    <2>1. CachedIn(f, s)' = CachedIn(f, s)
        BY <1>5, <1>6, <1>8 DEF CachedIn, Cached, Filled
    <2> QED
        BY <1>3, <1>4, <1>6, <1>8, <2>1
<1> QED
    BY <1>7, <1>8

-------------------------------------------------------------------------------
\* Each step and the accounts.

LEMMA BeforeBalances ==
    ASSUME QuotaInv, QuotaInv', Calls, NEW s \in Quota, Balanced(s),
           NEW r \in Rpc, NEW t \in TreeQuota, NEW n \in 1 .. MaxRequest,
           Before(r, t, n) \/ BeforeCancelled(r, t, n)
    PROVE  Balanced(s)'
<1>1. /\ cfgs' = cfgs /\ admin' = admin /\ puts' = puts /\ backlog' = backlog /\ unpaid' = unpaid
      /\ GetTokens(ServerOf[r], n, SpecsOf(t)) /\ rpc[r] = NoRpc
      /\ failures' = failures \/ Failure
    BY DEF Before, BeforeCancelled, Arrive, Idle
<1>2. /\ n \in Nat /\ ServerOf[r] \in Frontend /\ RpcOK /\ RpcOK' /\ CacheOK /\ CacheOK'
      /\ failures \in Nat
    <2>1. RpcOK' /\ CacheOK'
        BY Parts, PTL
    <2> QED
        BY <2>1, Parts, SystemAssumption DEF BoundsOK
<1>3. Counted(s)' <=> Counted(s)
    BY <1>1 DEF Counted, Enabled
<1>4. failures' = 0 => failures = 0 /\ Before(r, t, n)
    BY <1>2 DEF Before, BeforeCancelled, Failure
<1>5. ASSUME Counted(s)
      PROVE  /\ Numbers(s) /\ Numbers(s)'
             /\ Account(s)' + Total(PaidBack(s)) <= Account(s) + Total(PaidBack(s)')
             /\ Before(r, t, n) => Account(s)' = Account(s)
    <2>1. PICK f \in Frontend : f = ServerOf[r]
        BY <1>2
    <2>2. /\ Numbers(s) /\ Numbers(s)' /\ Account(s) \in Int
          /\ Total(PaidBack(s)) \in Int /\ Total(PaidBack(s)') \in Int
        <3>1. Calls'
            BY <1>1 DEF Calls
        <3> QED
            BY <1>3, <1>5, <3>1, AccountTypes
    <2>3. buckets'[s].tokens + CachedIn(f, s)' + (IF s \in SpecsOf(t) THEN n ELSE 0) =
              buckets[s].tokens + CachedIn(f, s)
        BY <1>1, <1>2, <1>5, <2>1, GetMoves
    <2>4. /\ CachedIn(f, s) \in Nat /\ CachedIn(f, s)' \in Nat
          /\ Total(InCaches(s)') = Total(InCaches(s)) - CachedIn(f, s) + CachedIn(f, s)'
        <3>1. \A g \in Frontend \ {f} : cache'[g] = cache[g]
            BY <1>1, <1>2, <2>1 DEF GetTokens, CacheOK
        <3> QED
            BY <1>2, <3>1, CachesMove
    <2>5. /\ Total(InRpcs(s)') \in Nat
          /\ BeforeCancelled(r, t, n) => Total(InRpcs(s)') = Total(InRpcs(s))
          /\ Before(r, t, n) =>
                Total(InRpcs(s)') = Total(InRpcs(s)) + (IF s \in SpecsOf(t) THEN n ELSE 0)
        <3>1. ASSUME BeforeCancelled(r, t, n) PROVE InRpcs(s)' = InRpcs(s)
            BY <3>1 DEF BeforeCancelled, InRpcs
        <3>2. ASSUME Before(r, t, n)
              PROVE  Total(InRpcs(s)') = Total(InRpcs(s)) + (IF s \in SpecsOf(t) THEN n ELSE 0)
            <4>1. rpc'[r] = [tree |-> t, leaves |-> n] /\ \A q \in Rpc \ {r} : rpc'[q] = rpc[q]
                BY <1>2, <3>2 DEF Before, RpcOK
            <4>2. Holds(r, s) = 0 /\ Holds(r, s)' = IF t \in TreesOf(s) THEN n ELSE 0
                BY <1>1, <4>1 DEF Holds, NoRpc, TreesOf
            <4>3. s \in SpecsOf(t) <=> t \in TreesOf(s)
                BY <1>5, Charged DEF Counted
            <4>4. /\ Total(InRpcs(s)) \in Nat
                  /\ Total(InRpcs(s)') = Total(InRpcs(s)) - Holds(r, s) + Holds(r, s)'
                BY <1>2, <4>1, RpcsMove
            <4> QED
                BY <1>2, <4>2, <4>3, <4>4
        <3> QED
            BY <2>2, <3>1, <3>2 DEF Numbers
    <2>6. InPuts(s)' = InPuts(s) /\ InTrees(s)' = InTrees(s) /\ PaidBack(s)' = PaidBack(s)
        BY <1>1 DEF InPuts, InTrees, PaidBack
    <2>7. PICK x \in Nat : x = IF s \in SpecsOf(t) THEN n ELSE 0
        BY <1>2
    <2>8. PICK c \in Int : /\ Total(InCaches(s)') = Total(InCaches(s)) + c
                           /\ buckets'[s].tokens = buckets[s].tokens + -(c + x)
        <3>1. PICK c \in Int : c = CachedIn(f, s)' - CachedIn(f, s)
            BY <2>4
        <3>2. buckets[s].tokens \in Int /\ buckets'[s].tokens \in Int /\ Total(InCaches(s)) \in Int
            BY <2>2 DEF Numbers
        <3>3. Total(InCaches(s)') = Total(InCaches(s)) + c
            BY <2>4, <3>1, <3>2
        <3>4. buckets'[s].tokens + CachedIn(f, s)' + x = buckets[s].tokens + CachedIn(f, s)
            BY <2>3, <2>7
        <3>5. \A b0, b1, c0, c1 \in Int : b1 + c1 + x = b0 + c0 => b1 = b0 + -((c1 - c0) + x)
            OBVIOUS
        <3>6. buckets'[s].tokens = buckets[s].tokens + -(c + x)
            BY <2>4, <3>1, <3>2, <3>4, <3>5
        <3> QED
            BY <3>3, <3>6
    <2>9. PICK y \in Int : /\ Total(InRpcs(s)') = Total(InRpcs(s)) + y /\ y <= x
                           /\ Before(r, t, n) => y = x
        <3>1. Total(InRpcs(s)) \in Int
            BY <2>2 DEF Numbers
        <3>2. CASE Before(r, t, n)
            BY <2>5, <2>7, <3>1, <3>2
        <3>3. CASE ~Before(r, t, n)
            BY <2>5, <2>7, <3>1, <3>3
        <3> QED
            BY <3>2, <3>3
    <2>10. Total(InPuts(s)') = Total(InPuts(s)) + 0 /\ Total(InTrees(s)') = Total(InTrees(s)) + 0
        BY <2>2, <2>6 DEF Numbers
    <2>11. PICK z \in Int : z = -(c + x)
        OBVIOUS
    <2>12. Account(s)' = Account(s) + (z + c + y + 0 + 0)
        BY <2>2, <2>8, <2>9, <2>10, <2>11, AccountChange
    <2>13. Account(s)' = Account(s) + (y - x)
        BY <2>2, <2>11, <2>12
    <2>14. Account(s)' <= Account(s) /\ (Before(r, t, n) => Account(s)' = Account(s))
        BY <2>2, <2>9, <2>13
    <2>15. Total(PaidBack(s)') = Total(PaidBack(s))
        BY <2>6
    <2> QED
        BY <2>2, <2>13, <2>14, <2>15
<1> QED
    BY <1>1, <1>3, <1>4, <1>5, StepBalances

\* Without tokens nothing is charged; a transaction whose answer was lost takes tokens
\* that nobody will give back.
LEMMA DeniedBalances ==
    ASSUME QuotaInv, QuotaInv', Calls, NEW s \in Quota, Balanced(s),
           NEW r \in Rpc, NEW t \in TreeQuota, NEW n \in 1 .. MaxRequest, BeforeDenied(r, t, n)
    PROVE  Balanced(s)'
<1>1. /\ cfgs' = cfgs /\ admin' = admin /\ puts' = puts /\ backlog' = backlog /\ unpaid' = unpaid
      /\ cache' = cache /\ (DryRun \/ rpc' = rpc)
      /\ \/ UNCHANGED <<buckets, failures>>
         \/ UNCHANGED buckets /\ Failure
         \/ Failure /\ TakeFromBuckets(ServerOf[r], n, ToRefill(ServerOf[r], n, SpecsOf(t)))
    BY DEF BeforeDenied, GetTokensFails
<1>2. n \in Nat /\ MinBatchSize \in Nat /\ ServerOf[r] \in Frontend /\ failures \in Nat
    BY SystemAssumption, Parts DEF BoundsOK
<1>3. Counted(s)' <=> Counted(s)
    BY <1>1 DEF Counted, Enabled
<1>4. failures' = 0 => failures = 0 /\ UNCHANGED buckets
    BY <1>1, <1>2 DEF Failure
<1>5. ASSUME Counted(s)
      PROVE  /\ Numbers(s) /\ Numbers(s)'
             /\ Account(s)' + Total(PaidBack(s)) <= Account(s) + Total(PaidBack(s)')
             /\ UNCHANGED buckets => Account(s)' = Account(s)
    <2>1. /\ Numbers(s) /\ Numbers(s)' /\ Account(s) \in Int /\ Account(s)' \in Int
          /\ Total(PaidBack(s)) \in Int /\ Total(PaidBack(s)') \in Int
        <3>1. Calls'
            BY <1>1 DEF Calls
        <3> QED
            BY <1>3, <1>5, <3>1, AccountTypes
    <2>2. /\ InCaches(s)' = InCaches(s) /\ InRpcs(s)' = InRpcs(s) /\ InPuts(s)' = InPuts(s)
          /\ InTrees(s)' = InTrees(s) /\ PaidBack(s)' = PaidBack(s)
        <3>1. rpc' = rpc
            BY <1>1, <1>5 DEF Counted
        <3> QED
            BY <1>1, <3>1 DEF InCaches, CachedIn, Cached, InRpcs, InPuts, InTrees, PaidBack
    <2>3. buckets'[s].tokens <= buckets[s].tokens
        <3>1. CASE UNCHANGED buckets
            BY <2>1, <3>1 DEF Numbers
        <3>2. CASE TakeFromBuckets(ServerOf[r], n, ToRefill(ServerOf[r], n, SpecsOf(t)))
            <4>1. \/ buckets'[s].tokens = buckets[s].tokens - (n + MinBatchSize)
                  \/ buckets'[s].tokens = buckets[s].tokens - 0
                BY <1>2, <1>5, <3>2, BucketTaken
            <4> QED
                BY <1>2, <2>1, <4>1 DEF Numbers
        <3> QED
            BY <1>1, <3>1, <3>2
    <2>4. UNCHANGED buckets => Account(s)' = Account(s)
        BY <2>2 DEF Account, Outstanding
    <2>5. Account(s)' <= Account(s)
        BY <2>1, <2>2, <2>3 DEF Account, Outstanding, Numbers
    <2>6. Total(PaidBack(s)') = Total(PaidBack(s))
        BY <2>2
    <2> QED
        BY <2>1, <2>4, <2>5, <2>6
<1> QED
    BY <1>1, <1>3, <1>4, <1>5, StepBalances

\* The handler and After: the tokens of a request go to the leaves that it queued and
\* back to the buckets.
LEMMA HandleBalances ==
    ASSUME QuotaInv, QuotaInv', Calls, NEW s \in Quota, Balanced(s),
           NEW r \in Rpc, NEW queued \in 0 .. MaxRequest, NEW ok \in BOOLEAN, Handle(r, queued, ok)
    PROVE  Calls' /\ Balanced(s)'
<1>1. /\ cfgs' = cfgs /\ buckets' = buckets /\ admin' = admin /\ cache' = cache
      /\ failures' = failures \/ Failure
    BY DEF Handle, storageVars
<1>2. PICK t : t = rpc[r].tree
    OBVIOUS
<1>3. PICK n : n = rpc[r].leaves
    OBVIOUS
<1>4. PICK m : m = Returned(r, queued, ok)
    OBVIOUS
<1>5. RpcOK /\ RpcOK' /\ HistoryOK /\ HistoryOK' /\ failures \in Nat
    <2>1. RpcOK' /\ HistoryOK'
        BY Parts, PTL
    <2> QED
        BY <2>1, Parts, SystemAssumption DEF BoundsOK
<1>6. t \in TreeQuota /\ n \in Nat /\ queued \in Nat /\ queued <= n
    BY <1>2, <1>3, <1>5, SystemAssumption DEF Handle, Idle, RpcOK
<1>7. /\ m = IF ok THEN n - queued ELSE n
      /\ m \in Nat /\ (~ok /\ queued # 0 => Failure)
    BY <1>3, <1>4, <1>6 DEF Returned, Handle
<1>8. PICK back : back = [specs |-> SpecsOf(t), tokens |-> m]
    OBVIOUS
<1>9. puts' = IF m = 0 THEN puts ELSE puts (+) SetToBag({back})
    BY <1>2, <1>4, <1>8 DEF Handle, After
<1>11. back.tokens \in Nat
    BY <1>7, <1>8
<1>12. Calls'
    <2>1. CASE m = 0
        BY <1>9, <2>1 DEF Calls
    <2>2. CASE m # 0
        BY <1>9, <1>11, <2>2, OnePutAdded
    <2> QED
        BY <2>1, <2>2
<1>13. Counted(s)' <=> Counted(s)
    BY <1>1 DEF Counted, Enabled
<1>14. failures' = 0 => failures = 0 /\ (ok \/ queued = 0)
    BY <1>1, <1>5, <1>7 DEF Failure
<1>15. ASSUME Counted(s)
       PROVE  /\ Numbers(s) /\ Numbers(s)'
              /\ Account(s)' + Total(PaidBack(s)) <= Account(s) + Total(PaidBack(s)')
              /\ ok \/ queued = 0 => Account(s)' = Account(s)
    <2>1. /\ Numbers(s) /\ Numbers(s)' /\ Account(s) \in Int
          /\ Total(PaidBack(s)) \in Int /\ Total(PaidBack(s)') \in Int
        BY <1>12, <1>13, <1>15, AccountTypes
    <2>2. PICK mine : mine <=> t \in TreesOf(s)
        OBVIOUS
    <2>3. s \in SpecsOf(t) <=> mine
        BY <1>6, <1>15, <2>2, Charged DEF Counted
    <2>4. Total(InRpcs(s)') = Total(InRpcs(s)) + IF mine THEN -n ELSE 0
        <3>1. rpc'[r] = NoRpc /\ \A q \in Rpc \ {r} : rpc'[q] = rpc[q]
            BY <1>5 DEF Handle, RpcOK
        <3>2. Holds(r, s) = (IF mine THEN n ELSE 0) /\ Holds(r, s)' = 0
            BY <1>2, <1>3, <2>2, <3>1 DEF Holds, NoRpc, TreesOf
        <3>3. /\ Total(InRpcs(s)) \in Nat
              /\ Total(InRpcs(s)') = Total(InRpcs(s)) - Holds(r, s) + Holds(r, s)'
            BY <1>5, <3>1, RpcsMove
        <3> QED
            BY <1>6, <3>2, <3>3
    <2>5. Total(InTrees(s)') = Total(InTrees(s)) + IF mine THEN queued ELSE 0
        <3>1. /\ backlog \in [TreeQuota -> Nat] /\ backlog' \in [TreeQuota -> Nat]
              /\ backlog'[t] = backlog[t] + queued /\ \A u \in TreeQuota \ {t} : backlog'[u] = backlog[u]
            BY <1>2, <1>5, <1>6 DEF HistoryOK, Handle
        <3>2. PICK a \in [TreeQuota -> Nat], b \in [TreeQuota -> Nat], d \in Int :
                  a = backlog /\ b = backlog' /\ d = queued
            BY <1>6, <3>1
        <3>3. PICK A, B : A = InTrees(s) /\ B = InTrees(s)'
            OBVIOUS
        <3>4. A = [u \in TreesOf(s) |-> a[u]] /\ B = [u \in TreesOf(s) |-> b[u]]
            BY <3>2, <3>3 DEF InTrees
        <3>5. b[t] = a[t] + d /\ \A u \in TreeQuota \ {t} : b[u] = a[u]
            BY <3>1, <3>2
        <3>6. Total(B) = Total(A) + IF mine THEN d ELSE 0
            BY <1>6, <2>2, <3>4, <3>5, TreesMove
        <3> QED
            BY <3>2, <3>3, <3>6
    <2>6. Total(PaidBack(s)') = Total(PaidBack(s)) + IF mine /\ ~ok THEN queued ELSE 0
        <3>1. /\ unpaid \in [TreeQuota -> Nat] /\ unpaid' \in [TreeQuota -> Nat]
              /\ unpaid'[t] = unpaid[t] + (IF ok THEN 0 ELSE queued)
              /\ \A u \in TreeQuota \ {t} : unpaid'[u] = unpaid[u]
            BY <1>2, <1>5, <1>6 DEF HistoryOK, Handle
        <3>2. PICK a \in [TreeQuota -> Nat], b \in [TreeQuota -> Nat], d \in Int :
                  a = unpaid /\ b = unpaid' /\ d = (IF ok THEN 0 ELSE queued)
            BY <1>6, <3>1
        <3>3. PICK A, B : A = PaidBack(s) /\ B = PaidBack(s)'
            OBVIOUS
        <3>4. A = [u \in TreesOf(s) |-> a[u]] /\ B = [u \in TreesOf(s) |-> b[u]]
            BY <3>2, <3>3 DEF PaidBack
        <3>5. b[t] = a[t] + d /\ \A u \in TreeQuota \ {t} : b[u] = a[u]
            BY <3>1, <3>2
        <3>6. Total(B) = Total(A) + IF mine THEN d ELSE 0
            BY <1>6, <2>2, <3>4, <3>5, TreesMove
        <3> QED
            BY <3>2, <3>3, <3>6
    <2>7. Total(InPuts(s)') = Total(InPuts(s)) + IF mine THEN m ELSE 0
        <3>1. Total(InPuts(s)) \in Nat
            BY <2>1 DEF Numbers
        <3>2. CASE m = 0
            <4>1. InPuts(s)' = InPuts(s)
                BY <1>9, <3>2 DEF InPuts
            <4> QED
                BY <3>1, <3>2, <4>1
        <3>3. CASE m # 0
            <4>1. back.tokens = m /\ (s \in back.specs <=> mine)
                BY <1>8, <2>3
            <4>2. /\ mine => Total(InPuts(s)') = Total(InPuts(s)) + back.tokens
                  /\ ~mine => Total(InPuts(s)') = Total(InPuts(s))
                BY <1>9, <1>11, <3>3, <4>1, OnePutAdded
            <4> QED
                BY <3>1, <4>1, <4>2
        <3> QED
            BY <3>2, <3>3
    <2>8. buckets'[s].tokens = buckets[s].tokens + 0 /\ Total(InCaches(s)') = Total(InCaches(s)) + 0
        <3>1. InCaches(s)' = InCaches(s)
            BY <1>1 DEF InCaches, CachedIn, Cached
        <3> QED
            BY <1>1, <2>1, <3>1 DEF Numbers
    <2>9. CASE mine
        <3>1. PICK k \in Int, p \in Int, q \in Int : k = -n /\ p = m /\ q = queued
            BY <1>6, <1>7
        <3>2. /\ Total(InRpcs(s)') = Total(InRpcs(s)) + k /\ Total(InTrees(s)') = Total(InTrees(s)) + q
              /\ Total(InPuts(s)') = Total(InPuts(s)) + p
            BY <2>4, <2>5, <2>7, <2>9, <3>1
        <3>3. Account(s)' = Account(s) + (0 + 0 + k + p + q)
            BY <2>1, <2>8, <3>2, AccountChange
        <3>4. CASE ok
            <4>1. m = n - queued /\ Account(s)' = Account(s)
                BY <1>6, <1>7, <2>1, <3>1, <3>3, <3>4
            <4>2. Total(PaidBack(s)') = Total(PaidBack(s))
                BY <2>1, <2>6, <3>4
            <4> QED
                BY <2>1, <4>1, <4>2
        <3>5. CASE ~ok
            <4>1. m = n /\ Account(s)' = Account(s) + queued
                BY <1>6, <1>7, <2>1, <3>1, <3>3, <3>5
            <4>2. Total(PaidBack(s)') = Total(PaidBack(s)) + queued
                BY <2>6, <2>9, <3>5
            <4> QED
                BY <1>6, <2>1, <3>5, <4>1, <4>2
        <3> QED
            BY <3>4, <3>5
    <2>10. CASE ~mine
        <3>1. Account(s)' = Account(s) + (0 + 0 + 0 + 0 + 0)
            BY <2>1, <2>4, <2>5, <2>7, <2>8, <2>10, AccountChange
        <3>2. Total(PaidBack(s)') = Total(PaidBack(s))
            BY <2>1, <2>6, <2>10
        <3> QED
            BY <2>1, <3>1, <3>2
    <2> QED
        BY <2>9, <2>10
<1> QED
    BY <1>1, <1>12, <1>13, <1>14, <1>15, StepBalances

\* Eviction sends the tokens of an entry on their way back.
LEMMA EvictBalances ==
    ASSUME QuotaInv, QuotaInv', Calls, NEW f \in Frontend, Evict(f)
    PROVE  Calls' /\ \A s \in Quota : Balanced(s) => Balanced(s)'
<1>1. PICK E \in SUBSET (Cached(f) \ {GlobalQuota}) :
          /\ cache' = [cache EXCEPT ![f] = [s \in Cached(f) \ E |-> cache[f][s]]]
          /\ puts' = puts (+) SetToBag({[specs |-> {e}, tokens |-> cache[f][e].tokens] : e \in E})
    BY DEF Evict
<1>2. /\ cfgs' = cfgs /\ buckets' = buckets /\ admin' = admin /\ failures' = failures
      /\ rpc' = rpc /\ backlog' = backlog /\ unpaid' = unpaid
    BY DEF Evict, storageVars, boundVars
<1>3. CacheOK /\ CacheOK'
    <2>1. CacheOK'
        BY Parts, PTL
    <2> QED
        BY <2>1, Parts
<1>4. PICK S : S = {[specs |-> {e}, tokens |-> cache[f][e].tokens] : e \in E}
    OBVIOUS
<1>5. IsFiniteSet(S)
    <2>1. IsFiniteSet(E)
        <3>1. E \in SUBSET Quota
            BY <1>3 DEF CacheOK
        <3> QED
            BY <3>1, SystemAssumption, FS_Subset
    <2>2. PICK g : g = [e \in E |-> [specs |-> {e}, tokens |-> cache[f][e].tokens]]
        OBVIOUS
    <2>3. g \in Surjection(E, S)
        BY <1>4, <2>2 DEF Surjection
    <2> QED
        BY <2>1, <2>3, FS_Surjection
<1>6. \A e \in E : e \in Cached(f) /\ cache[f][e].tokens \in Nat /\ CachedIn(f, e) = cache[f][e].tokens
    BY <1>3 DEF CacheOK, Entry, CachedIn
<1>7. \A q \in S : q.tokens \in Nat
    BY <1>4, <1>6
<1>8. puts' = puts (+) SetToBag(S)
    BY <1>1, <1>4
<1>9. Calls'
    BY <1>5, <1>7, <1>8, PutsAdded
<1>10. ASSUME NEW s \in Quota, Balanced(s) PROVE Balanced(s)'
    <2>1. Counted(s)' <=> Counted(s)
        BY <1>2 DEF Counted, Enabled
    <2>2. ASSUME Counted(s)
          PROVE  /\ Numbers(s) /\ Numbers(s)'
                 /\ Account(s)' + Total(PaidBack(s)) <= Account(s) + Total(PaidBack(s)')
                 /\ Account(s)' = Account(s)
        <3>1. /\ Numbers(s) /\ Numbers(s)' /\ Account(s) \in Int
              /\ Total(PaidBack(s)) \in Int /\ Total(PaidBack(s)') \in Int
            BY <1>9, <2>1, <2>2, AccountTypes
        <3>2. cache'[f] = [q \in Cached(f) \ E |-> cache[f][q]] /\ \A g \in Frontend \ {f} : cache'[g] = cache[g]
            BY <1>1, <1>3 DEF CacheOK
        <3>3. /\ CachedIn(f, s) \in Nat /\ CachedIn(f, s)' \in Nat
              /\ Total(InCaches(s)') = Total(InCaches(s)) - CachedIn(f, s) + CachedIn(f, s)'
            BY <1>3, <3>2, CachesMove
        <3>4. CachedIn(f, s)' = IF s \in E THEN 0 ELSE CachedIn(f, s)
            BY <3>2 DEF CachedIn, Cached
        <3>5. /\ InRpcs(s)' = InRpcs(s) /\ InTrees(s)' = InTrees(s) /\ PaidBack(s)' = PaidBack(s)
            BY <1>2 DEF InRpcs, InTrees, PaidBack
        <3>6. PICK c \in Int, k \in Int : c = (IF s \in E THEN CachedIn(f, s) ELSE 0) /\ k = -c
            BY <3>3
        <3>7. Total(InCaches(s)') = Total(InCaches(s)) + k
            BY <3>1, <3>3, <3>4, <3>6 DEF Numbers
        <3>8. Total(InPuts(s)') = Total(InPuts(s)) + c
            <4>1. CASE s \in E
                <5>1. PICK p : p = [specs |-> {s}, tokens |-> cache[f][s].tokens]
                    OBVIOUS
                <5>2. p \in S /\ s \in p.specs /\ p.tokens = c
                    BY <1>4, <1>6, <3>6, <4>1, <5>1
                <5>3. \A q \in S : s \in q.specs => q = p
                    BY <1>4, <5>1
                <5> QED
                    BY <1>5, <1>7, <1>8, <5>2, <5>3, PutsAdded
            <4>2. CASE s \notin E
                <5>1. \A q \in S : s \notin q.specs
                    BY <1>4, <4>2
                <5>2. Total(InPuts(s)') = Total(InPuts(s))
                    BY <1>5, <1>7, <1>8, <5>1, PutsAdded
                <5> QED
                    BY <3>1, <3>6, <4>2, <5>2 DEF Numbers
            <4> QED
                BY <4>1, <4>2
        <3>9. /\ buckets'[s].tokens = buckets[s].tokens + 0
              /\ Total(InRpcs(s)') = Total(InRpcs(s)) + 0 /\ Total(InTrees(s)') = Total(InTrees(s)) + 0
            BY <1>2, <3>1, <3>5 DEF Numbers
        <3>10. Account(s)' = Account(s) + (0 + k + 0 + c + 0)
            BY <3>1, <3>7, <3>8, <3>9, AccountChange
        <3>11. Account(s)' = Account(s)
            BY <3>1, <3>6, <3>10
        <3>12. Total(PaidBack(s)') = Total(PaidBack(s))
            BY <3>5
        <3> QED
            BY <3>1, <3>11, <3>12
    <2> QED
        BY <1>2, <1>10, <2>1, <2>2, StepBalances
<1> QED
    BY <1>9, <1>10

\* No more comes back for a batch than was paid for it.
LEMMA Refund ==
    ASSUME NEW n \in Nat, IncreaseFactor <= 100
    PROVE  /\ (n * IncreaseFactor) \div 100 \in Nat /\ (n * IncreaseFactor) \div 100 <= n
           /\ IncreaseFactor = 100 => (n * IncreaseFactor) \div 100 = n
<1>1. IncreaseFactor \in Nat
    BY SystemAssumption
<1>2. PICK x \in Nat : x = n * IncreaseFactor
    BY <1>1
<1>3. x <= n * 100
    BY <1>1, <1>2
<1>4. x \div 100 \in Nat /\ x \div 100 <= n
    BY <1>3
<1>5. IncreaseFactor = 100 => x \div 100 = n
    BY <1>2
<1> QED
    BY <1>2, <1>4, <1>5

\* Sequencing sends the tokens of a batch back.
LEMMA SequenceBalances ==
    ASSUME QuotaInv, QuotaInv', Calls, NEW s \in Quota, Balanced(s),
           NEW t \in TreeQuota, NEW n \in 1 .. backlog[t], Sequence(t, n)
    PROVE  Calls' /\ Balanced(s)'
<1>1. /\ cfgs' = cfgs /\ buckets' = buckets /\ admin' = admin /\ failures' = failures
      /\ rpc' = rpc /\ cache' = cache /\ unpaid' = unpaid
    BY DEF Sequence, storageVars, frontendVars, boundVars
<1>2. HistoryOK /\ HistoryOK'
    <2>1. HistoryOK'
        BY Parts, PTL
    <2> QED
        BY <2>1, Parts
<1>3. backlog[t] \in Nat /\ n \in Nat /\ n <= backlog[t]
    BY <1>2 DEF HistoryOK
<1>4. PICK m : m = (n * IncreaseFactor) \div 100
    OBVIOUS
<1>5. m \in Nat
    <2>1. n * IncreaseFactor \in Nat
        BY <1>3, SystemAssumption
    <2> QED
        BY <1>4, <2>1
<1>6. PICK back : back = [specs |-> {t, GlobalQuota}, tokens |-> m]
    OBVIOUS
<1>7. puts' = puts (+) SetToBag({back})
    BY <1>4, <1>6 DEF Sequence
<1>9. back.tokens \in Nat
    BY <1>5, <1>6
<1>10. Calls'
    BY <1>7, <1>9, OnePutAdded
<1>11. Counted(s)' <=> Counted(s)
    BY <1>1 DEF Counted, Enabled
<1>12. ASSUME Counted(s)
       PROVE  /\ Numbers(s) /\ Numbers(s)'
              /\ Account(s)' + Total(PaidBack(s)) <= Account(s) + Total(PaidBack(s)')
              /\ IncreaseFactor = 100 => Account(s)' = Account(s)
    <2>1. /\ Numbers(s) /\ Numbers(s)' /\ Account(s) \in Int
          /\ Total(PaidBack(s)) \in Int /\ Total(PaidBack(s)') \in Int
        BY <1>10, <1>11, <1>12, AccountTypes
    <2>2. PICK mine : mine <=> t \in TreesOf(s)
        OBVIOUS
    <2>3. s \in {t, GlobalQuota} <=> mine
        BY <1>12, <2>2, Charged DEF Counted
    <2>4. PICK k \in Int : k = -n
        BY <1>3
    <2>5. Total(InTrees(s)') = Total(InTrees(s)) + IF mine THEN k ELSE 0
        <3>1. /\ backlog \in [TreeQuota -> Nat] /\ backlog' \in [TreeQuota -> Nat]
              /\ backlog'[t] = backlog[t] - n /\ \A u \in TreeQuota \ {t} : backlog'[u] = backlog[u]
            BY <1>2 DEF HistoryOK, Sequence
        <3>2. PICK a \in [TreeQuota -> Nat], b \in [TreeQuota -> Nat] : a = backlog /\ b = backlog'
            BY <3>1
        <3>3. PICK A, B : A = InTrees(s) /\ B = InTrees(s)'
            OBVIOUS
        <3>4. A = [u \in TreesOf(s) |-> a[u]] /\ B = [u \in TreesOf(s) |-> b[u]]
            BY <3>2, <3>3 DEF InTrees
        <3>5. b[t] = a[t] + k /\ \A u \in TreeQuota \ {t} : b[u] = a[u]
            BY <1>3, <2>4, <3>1, <3>2
        <3>6. Total(B) = Total(A) + IF mine THEN k ELSE 0
            BY <2>2, <3>4, <3>5, TreesMove
        <3> QED
            BY <3>3, <3>6
    <2>6. Total(InPuts(s)') = Total(InPuts(s)) + IF mine THEN m ELSE 0
        <3>1. Total(InPuts(s)) \in Nat
            BY <2>1 DEF Numbers
        <3>2. back.tokens = m /\ (s \in back.specs <=> mine)
            BY <1>6, <2>3
        <3>3. /\ mine => Total(InPuts(s)') = Total(InPuts(s)) + back.tokens
              /\ ~mine => Total(InPuts(s)') = Total(InPuts(s))
            BY <1>7, <1>9, <3>2, OnePutAdded
        <3> QED
            BY <3>1, <3>2, <3>3
    <2>7. /\ InCaches(s)' = InCaches(s) /\ InRpcs(s)' = InRpcs(s) /\ PaidBack(s)' = PaidBack(s)
        BY <1>1 DEF InCaches, CachedIn, Cached, InRpcs, PaidBack
    <2>8. /\ buckets'[s].tokens = buckets[s].tokens + 0
          /\ Total(InCaches(s)') = Total(InCaches(s)) + 0 /\ Total(InRpcs(s)') = Total(InRpcs(s)) + 0
        BY <1>1, <2>1, <2>7 DEF Numbers
    <2>9. Total(PaidBack(s)') = Total(PaidBack(s))
        BY <2>7
    <2>10. CASE mine
        <3>1. /\ Total(InTrees(s)') = Total(InTrees(s)) + k /\ Total(InPuts(s)') = Total(InPuts(s)) + m
              /\ m \in Int
            BY <1>5, <2>5, <2>6, <2>10
        <3>2. Account(s)' = Account(s) + (0 + 0 + 0 + m + k)
            BY <2>1, <2>8, <3>1, AccountChange
        <3>3. m <= n /\ (IncreaseFactor = 100 => m = n)
            BY <1>3, <1>4, <1>12, Refund DEF Counted
        <3>4. Account(s)' <= Account(s) /\ (IncreaseFactor = 100 => Account(s)' = Account(s))
            BY <1>3, <1>5, <2>1, <2>4, <3>2, <3>3
        <3> QED
            BY <1>5, <2>1, <2>9, <3>2, <3>4
    <2>11. CASE ~mine
        <3>1. Account(s)' = Account(s) + (0 + 0 + 0 + 0 + 0)
            BY <2>1, <2>5, <2>6, <2>8, <2>11, AccountChange
        <3> QED
            BY <2>1, <2>9, <3>1
    <2> QED
        BY <2>10, <2>11
<1> QED
    BY <1>1, <1>10, <1>11, <1>12, StepBalances

\* The tokens of a call reach the bucket, or are lost.  A bucket that would go over its
\* maximum is one that was paid back twice.
LEMMA PutBalances ==
    ASSUME QuotaInv, QuotaInv', Calls, NEW s \in Quota, Balanced(s),
           NEW p \in BagToSet(puts), PutTokens(p) \/ PutTokensFails(p)
    PROVE  Calls' /\ Balanced(s)'
<1>1. /\ cfgs' = cfgs /\ admin' = admin /\ rpc' = rpc /\ cache' = cache
      /\ backlog' = backlog /\ unpaid' = unpaid /\ puts' = puts (-) SetToBag({p})
    BY DEF PutTokens, PutTokensFails, storageVars, frontendVars, boundVars
<1>2. failures \in Nat /\ p.tokens \in Nat
    BY Parts, SystemAssumption DEF BoundsOK, PutsOK
<1>3. Calls'
    BY <1>1, PutsTaken
<1>4. Counted(s)' <=> Counted(s)
    BY <1>1 DEF Counted, Enabled
<1>5. failures' = 0 => failures = 0 /\ PutTokens(p)
    BY <1>2 DEF PutTokens, PutTokensFails, Failure, boundVars
<1>6. ASSUME Counted(s)
      PROVE  /\ Numbers(s) /\ Numbers(s)'
             /\ Account(s)' + Total(PaidBack(s)) <= Account(s) + Total(PaidBack(s)')
             /\ PutTokens(p) /\ Account(s) = cfgs[s].max => Account(s)' = Account(s)
    <2>1. /\ Numbers(s) /\ Numbers(s)' /\ Account(s) \in Int
          /\ Total(PaidBack(s)) \in Int /\ Total(PaidBack(s)') \in Int
        BY <1>3, <1>4, <1>6, AccountTypes
    <2>2. PICK k \in Int : k = IF s \in p.specs THEN -p.tokens ELSE 0
        BY <1>2
    <2>3. Total(InPuts(s)') = Total(InPuts(s)) + k
        <3>1. Total(InPuts(s)') = Total(InPuts(s)) - IF s \in p.specs THEN p.tokens ELSE 0
            BY <1>1, PutsTaken
        <3> QED
            BY <1>2, <2>1, <2>2, <3>1 DEF Numbers
    <2>4. /\ InCaches(s)' = InCaches(s) /\ InRpcs(s)' = InRpcs(s) /\ InTrees(s)' = InTrees(s)
          /\ PaidBack(s)' = PaidBack(s)
        BY <1>1 DEF InCaches, CachedIn, Cached, InRpcs, InTrees, PaidBack
    <2>5. /\ Total(InCaches(s)') = Total(InCaches(s)) + 0 /\ Total(InRpcs(s)') = Total(InRpcs(s)) + 0
          /\ Total(InTrees(s)') = Total(InTrees(s)) + 0
        BY <2>1, <2>4 DEF Numbers
    <2>6. Total(PaidBack(s)') = Total(PaidBack(s))
        BY <2>4
    <2>7. PICK b \in Int : /\ buckets'[s].tokens = buckets[s].tokens + b
                           /\ b + k <= 0
                           /\ PutTokens(p) /\ Account(s) = cfgs[s].max => b + k = 0
        <3>1. buckets[s].tokens \in Int /\ buckets'[s].tokens \in Int
            BY <2>1 DEF Numbers
        <3>2. CASE PutTokens(p)
            <4>1. buckets' = Modified(cfgs, buckets, p.specs, now, p.tokens)
                BY <3>2 DEF PutTokens, Put
            <4>2. /\ s \notin p.specs => buckets'[s].tokens = buckets[s].tokens
                  /\ s \in p.specs => buckets'[s].tokens <= buckets[s].tokens + p.tokens
                  /\ s \in p.specs /\ buckets[s].tokens + p.tokens <= cfgs[s].max
                         => buckets'[s].tokens = buckets[s].tokens + p.tokens
                BY <1>2, <1>6, <4>1, BucketPut
            <4>3. s \in p.specs /\ Account(s) = cfgs[s].max => buckets[s].tokens + p.tokens <= cfgs[s].max
                <5>1. Total(InPuts(s)) + k \in Nat
                    BY <2>1, <2>3 DEF Numbers
                <5>2. buckets[s].tokens + Total(InPuts(s)) <= Account(s)
                    BY <2>1 DEF Account, Outstanding, Numbers
                <5> QED
                    BY <1>2, <2>1, <2>2, <5>1, <5>2 DEF Numbers
            <4>4. PICK b \in Int : b = buckets'[s].tokens - buckets[s].tokens
                BY <3>1
            <4>5. buckets'[s].tokens = buckets[s].tokens + b
                BY <3>1, <4>4
            <4>6. b + k <= 0
                BY <1>2, <2>2, <3>1, <4>2, <4>4
            <4>7. Account(s) = cfgs[s].max => b + k = 0
                BY <1>2, <2>2, <3>1, <4>2, <4>3, <4>4
            <4> QED
                BY <4>5, <4>6, <4>7
        <3>3. CASE ~PutTokens(p)
            <4>1. buckets'[s].tokens = buckets[s].tokens + 0
                BY <3>1, <3>3 DEF PutTokensFails, storageVars
            <4>2. 0 + k <= 0
                BY <1>2, <2>2
            <4> QED
                BY <3>3, <4>1, <4>2
        <3> QED
            BY <3>2, <3>3
    <2>8. Account(s)' = Account(s) + (b + 0 + 0 + k + 0)
        BY <2>1, <2>3, <2>5, <2>7, AccountChange
    <2>9. Account(s)' <= Account(s)
        BY <2>1, <2>7, <2>8
    <2>10. PutTokens(p) /\ Account(s) = cfgs[s].max => Account(s)' = Account(s)
        BY <2>1, <2>7, <2>8
    <2> QED
        BY <2>1, <2>6, <2>8, <2>9, <2>10
<1> QED
    BY <1>1, <1>3, <1>4, <1>5, <1>6, StepBalances

\* Looking at buckets, the clock, and administrators.
LEMMA RestBalances ==
    ASSUME QuotaInv, QuotaInv', Calls, NEW s \in Quota, Balanced(s),
           \/ ListConfigs \/ Tick \/ UNCHANGED vars \/ \E q \in Quota : Administrate(q)
    PROVE  Calls' /\ Balanced(s)'
<1>1. Calls'
    BY DEF Calls, ListConfigs, Tick, vars, Administrate
<1>2. CASE \E q \in Quota : Administrate(q)
    <2>1. admin' # 0
        BY <1>2, Parts, SystemAssumption DEF BoundsOK, Administrate
    <2> QED
        BY <1>1, <2>1 DEF Balanced, Counted
<1>3. CASE ListConfigs \/ Tick \/ UNCHANGED vars
    <2>1. /\ cfgs' = cfgs /\ admin' = admin /\ failures' = failures /\ rpc' = rpc /\ cache' = cache
          /\ puts' = puts /\ backlog' = backlog /\ unpaid' = unpaid
          /\ buckets' = buckets \/ buckets' = Modified(cfgs, buckets, Quota, now, 0)
        BY <1>3 DEF ListConfigs, Peek, Tick, vars, storageVars, frontendVars, boundVars
    <2>2. Counted(s)' <=> Counted(s)
        BY <2>1 DEF Counted, Enabled
    <2>3. ASSUME Counted(s)
          PROVE  /\ Numbers(s) /\ Numbers(s)'
                 /\ Account(s)' + Total(PaidBack(s)) <= Account(s) + Total(PaidBack(s)')
                 /\ Account(s)' = Account(s)
        <3>1. /\ Numbers(s) /\ Numbers(s)' /\ Account(s) \in Int
              /\ Total(PaidBack(s)) \in Int /\ Total(PaidBack(s)') \in Int
            BY <1>1, <2>2, <2>3, AccountTypes
        <3>2. buckets'[s].tokens = buckets[s].tokens
            <4>1. CASE buckets' = Modified(cfgs, buckets, Quota, now, 0)
                <5>1. 0 \in Nat /\ buckets[s].tokens + 0 <= cfgs[s].max
                    BY <3>1 DEF Numbers
                <5>2. buckets'[s].tokens = buckets[s].tokens + 0
                    BY <2>3, <4>1, <5>1, BucketPut
                <5> QED
                    BY <3>1, <5>2 DEF Numbers
            <4> QED
                BY <2>1, <4>1
        <3>3. /\ InCaches(s)' = InCaches(s) /\ InRpcs(s)' = InRpcs(s) /\ InPuts(s)' = InPuts(s)
              /\ InTrees(s)' = InTrees(s) /\ PaidBack(s)' = PaidBack(s)
            BY <2>1 DEF InCaches, CachedIn, Cached, InRpcs, InPuts, InTrees, PaidBack
        <3>4. Account(s)' = Account(s)
            BY <3>2, <3>3 DEF Account, Outstanding
        <3>5. Total(PaidBack(s)') = Total(PaidBack(s))
            BY <3>3
        <3> QED
            BY <3>1, <3>4, <3>5
    <2> QED
        BY <1>1, <2>1, <2>2, <2>3, StepBalances
<1> QED
    BY <1>2, <1>3

-------------------------------------------------------------------------------
\* The size of the caches.

\* A cache that gets no new entry stays as large as it is.
LEMMA CacheSameSize ==
    ASSUME CacheBounded, evicting \subseteq evicting',
           \A g \in Frontend : Cached(g)' = Cached(g) \/ g \in evicting'
    PROVE  CacheBounded'
BY DEF CacheBounded

LEMMA GetBounded ==
    ASSUME CacheOK, CacheBounded, NEW f \in Frontend, NEW n, NEW specs, GetTokens(f, n, specs)
    PROVE  CacheBounded'
<1>1. PICK refill : refill = ToRefill(f, n, specs)
    OBVIOUS
<1>2. /\ cache' = [cache EXCEPT ![f] = Filled(f, n, specs, refill)]
      /\ evicting' = IF refill = {} THEN evicting ELSE evicting \cup {f}
    BY <1>1 DEF GetTokens, SpawnEvict
<1>3. cache'[f] = Filled(f, n, specs, refill) /\ \A g \in Frontend \ {f} : cache'[g] = cache[g]
    BY <1>2 DEF CacheOK
<1>4. Cached(f)' = Cached(f) \cup refill /\ \A g \in Frontend \ {f} : Cached(g)' = Cached(g)
    BY <1>3 DEF Cached, Filled
<1>5. \A g \in Frontend : Cached(g)' = Cached(g) \/ g \in evicting'
    BY <1>2, <1>4
<1> QED
    BY <1>2, <1>5, CacheSameSize

LEMMA EvictBounded ==
    ASSUME CacheOK, CacheBounded, NEW f \in Frontend, Evict(f)
    PROVE  CacheBounded'
<1>1. PICK E \in SUBSET (Cached(f) \ {GlobalQuota}) :
          /\ Cardinality(E) = IF Cardinality(Cached(f)) - MaxEntries > 0
                              THEN Cardinality(Cached(f)) - MaxEntries ELSE 0
          /\ cache' = [cache EXCEPT ![f] = [s \in Cached(f) \ E |-> cache[f][s]]]
    BY DEF Evict
<1>2. IsFiniteSet(Cached(f)) /\ Cardinality(Cached(f)) \in Nat /\ MaxEntries \in Nat
    <2>1. Cached(f) \in SUBSET Quota
        BY DEF CacheOK
    <2>2. IsFiniteSet(Cached(f))
        BY <2>1, SystemAssumption, FS_Subset
    <2> QED
        BY <2>2, SystemAssumption, FS_CardinalityType
<1>3. Cardinality(Cached(f) \ E) = Cardinality(Cached(f)) - Cardinality(E)
    <2>1. Cached(f) \cap E = E
        OBVIOUS
    <2> QED
        BY <1>2, <2>1, FS_Difference
<1>4. Cardinality(Cached(f) \ E) <= MaxEntries
    BY <1>1, <1>2, <1>3
<1>5. cache'[f] = [s \in Cached(f) \ E |-> cache[f][s]] /\ \A g \in Frontend \ {f} : cache'[g] = cache[g]
    BY <1>1 DEF CacheOK
<1>6. Cached(f)' = Cached(f) \ E /\ \A g \in Frontend \ {f} : Cached(g)' = Cached(g)
    BY <1>5 DEF Cached
<1>7. \A g \in Frontend \ {f} : g \in evicting' <=> g \in evicting
    BY DEF Evict
<1> QED
    BY <1>4, <1>6, <1>7 DEF CacheBounded

LEMMA NextBounded ==
    ASSUME CacheOK, CacheBounded, [Next]_vars
    PROVE  CacheBounded'
<1>1. ASSUME NEW r \in Rpc, NEW t \in TreeQuota, NEW n \in 1 .. MaxRequest,
             Before(r, t, n) \/ BeforeCancelled(r, t, n)
      PROVE  CacheBounded'
    <2>1. ServerOf[r] \in Frontend /\ GetTokens(ServerOf[r], n, SpecsOf(t))
        BY <1>1, SystemAssumption DEF Before, BeforeCancelled
    <2> QED
        BY <2>1, GetBounded
<1>2. ASSUME NEW r \in Rpc, NEW t \in TreeQuota, NEW n \in 1 .. MaxRequest, BeforeDenied(r, t, n)
      PROVE  CacheBounded'
    <2>1. cache' = cache /\ evicting \subseteq evicting'
        BY <1>2 DEF BeforeDenied, GetTokensFails, SpawnEvict
    <2>2. \A g \in Frontend : Cached(g)' = Cached(g)
        BY <2>1 DEF Cached
    <2> QED
        BY <2>1, <2>2, CacheSameSize
<1>3. ASSUME UNCHANGED <<cache, evicting>> PROVE CacheBounded'
    BY <1>3 DEF CacheBounded, Cached
<1>4. ASSUME \/ \E r \in Rpc, queued \in 0 .. MaxRequest, ok \in BOOLEAN : Handle(r, queued, ok)
             \/ \E t \in TreeQuota : \E n \in 1 .. backlog[t] : Sequence(t, n)
             \/ \E p \in BagToSet(puts) : PutTokens(p) \/ PutTokensFails(p)
             \/ \E s \in Quota : Administrate(s)
             \/ ListConfigs \/ Tick \/ UNCHANGED vars
      PROVE  UNCHANGED <<cache, evicting>>
    BY <1>4 DEF Handle, Sequence, PutTokens, PutTokensFails, Administrate, ListConfigs, Tick, vars,
                frontendVars
<1> QED
    BY <1>1, <1>2, <1>3, <1>4, EvictBounded DEF Next

-------------------------------------------------------------------------------
LEMMA InitBalances == Init => TokenInv
<1> SUFFICES ASSUME Init PROVE TokenInv
    OBVIOUS
<1>1. QuotaInv
    BY InitEstablishes
<1>2. Calls
    <2>1. puts = EmptyBag /\ DOMAIN EmptyBag = {} /\ IsABag(EmptyBag)
        BY DEF Init, EmptyBag, SetToBag, IsABag
    <2> QED
        BY <2>1, FS_EmptySet DEF Calls, TokenBag
<1>3. CacheBounded
    <2>1. ASSUME NEW f \in Frontend PROVE Cached(f) = {}
        BY DEF Init, Cached
    <2> QED
        BY <2>1, FS_EmptySet, SystemAssumption DEF CacheBounded
<1>4. ASSUME NEW s \in Quota PROVE Balanced(s)
    <2>1. SUFFICES ASSUME Counted(s)
                   PROVE  Account(s) <= cfgs[s].max + Total(PaidBack(s)) /\ Account(s) = cfgs[s].max
        BY DEF Balanced
    <2>2. Numbers(s)
        BY <1>1, <1>2, <2>1, AccountType DEF AllNumbers
    <2>3. ASSUME NEW g, \A x \in DOMAIN g : g[x] = 0 PROVE Total(g) = 0
        <3>1. \A x \in DOMAIN g : 1 .. g[x] = {}
            BY <2>3
        <3>2. Units(g) = {}
            BY <3>1 DEF Units
        <3> QED
            BY <3>2, FS_EmptySet DEF Total
    <2>4. Total(InCaches(s)) = 0
        <3>1. \A f \in DOMAIN InCaches(s) : InCaches(s)[f] = 0
            BY DEF InCaches, CachedIn, Cached, Init
        <3> QED
            BY <2>3, <3>1
    <2>5. Total(InRpcs(s)) = 0
        <3>1. \A r \in DOMAIN InRpcs(s) : InRpcs(s)[r] = 0
            BY DEF InRpcs, Init, NoRpc
        <3> QED
            BY <2>3, <3>1
    <2>6. Total(InPuts(s)) = 0
        <3>1. DOMAIN InPuts(s) = {}
            BY DEF InPuts, Init, BagToSet, EmptyBag, SetToBag
        <3> QED
            BY <2>3, <3>1
    <2>7. Total(InTrees(s)) = 0
        <3>1. \A t \in DOMAIN InTrees(s) : InTrees(s)[t] = 0
            BY DEF InTrees, Init, TreesOf
        <3> QED
            BY <2>3, <3>1
    <2>8. buckets[s].tokens = cfgs[s].max
        BY DEF Init
    <2>9. Account(s) = cfgs[s].max
        BY <2>2, <2>4, <2>5, <2>6, <2>7, <2>8 DEF Account, Outstanding, Numbers
    <2> QED
        BY <2>2, <2>9 DEF Numbers
<1> QED
    BY <1>2, <1>3, <1>4 DEF TokenInv

LEMMA NextBalances ==
    ASSUME QuotaInv, QuotaInv', TokenInv, [Next]_vars
    PROVE  TokenInv'
<1>1. Calls /\ CacheBounded /\ CacheOK /\ \A s \in Quota : Balanced(s)
    BY Parts DEF TokenInv
<1>2. CacheBounded'
    BY <1>1, NextBounded
<1>3. ASSUME NEW s \in Quota PROVE Calls' /\ Balanced(s)'
    <2>1. Calls /\ Balanced(s)
        BY <1>1
    <2>2. ASSUME NEW r \in Rpc, NEW t \in TreeQuota, NEW n \in 1 .. MaxRequest,
                 Before(r, t, n) \/ BeforeCancelled(r, t, n) \/ BeforeDenied(r, t, n)
          PROVE  Calls' /\ Balanced(s)'
        <3>1. Calls'
            BY <2>1, <2>2 DEF Calls, Before, BeforeCancelled, BeforeDenied
        <3> QED
            BY <2>1, <2>2, <3>1, BeforeBalances, DeniedBalances
    <2>3. ASSUME NEW r \in Rpc, NEW queued \in 0 .. MaxRequest, NEW ok \in BOOLEAN,
                 Handle(r, queued, ok)
          PROVE  Calls' /\ Balanced(s)'
        BY <2>1, <2>3, HandleBalances
    <2>4. ASSUME NEW f \in Frontend, Evict(f) PROVE Calls' /\ Balanced(s)'
        BY <2>1, <2>4, EvictBalances
    <2>5. ASSUME NEW t \in TreeQuota, NEW n \in 1 .. backlog[t], Sequence(t, n)
          PROVE  Calls' /\ Balanced(s)'
        BY <2>1, <2>5, SequenceBalances
    <2>6. ASSUME NEW p \in BagToSet(puts), PutTokens(p) \/ PutTokensFails(p)
          PROVE  Calls' /\ Balanced(s)'
        BY <2>1, <2>6, PutBalances
    <2>7. ASSUME ListConfigs \/ Tick \/ UNCHANGED vars \/ \E q \in Quota : Administrate(q)
          PROVE  Calls' /\ Balanced(s)'
        BY <2>1, <2>7, RestBalances
    <2> QED
        BY <2>2, <2>3, <2>4, <2>5, <2>6, <2>7 DEF Next
<1>4. Quota # {}
    BY SystemAssumption
<1> QED
    BY <1>2, <1>3, <1>4 DEF TokenInv

\* Tokens are conserved, for any number of frontends, requests and trees and any sizes
\* of batches and caches: whatever frontends cache, evict and refill while requests
\* succeed, are refused, cancelled or paid back and signers sequence, a bucket and
\* what is outside of it come to no more than the maximum of the quota and what a
\* queueing error paid back twice, and to exactly the maximum if nothing failed; and
\* a cache is too large only while it is being evicted (cacheqm/cache.go,
\* interceptor.go, sequencer.go).
THEOREM TokensAreConserved == Spec => []TokensConserved
<1>1. TokenInv => TokensConserved
    <2> SUFFICES ASSUME TokenInv PROVE TokensConserved
        OBVIOUS
    <2>1. CacheBounded /\ \A s \in Quota : Balanced(s)
        BY DEF TokenInv
    <2>2. ASSUME NEW s \in Enabled(cfgs) \cap (TreeQuota \cup {GlobalQuota}),
                 admin = 0 /\ ~TimeBased(cfgs[s]) /\ ~DryRun /\ IncreaseFactor <= 100
          PROVE  /\ Account(s) <= cfgs[s].max + Total(PaidBack(s))
                 /\ failures = 0 /\ IncreaseFactor = 100 => Account(s) = cfgs[s].max
        <3>1. s \in Quota /\ Counted(s)
            BY <2>2 DEF Counted, Enabled
        <3> QED
            BY <2>1, <3>1 DEF Balanced
    <2> QED
        BY <2>1, <2>2 DEF TokensConserved, CacheBounded, Account
<1> QED
    BY <1>1, InitEstablishes, NextPreserves, InitBalances, NextBalances, PTL DEF Spec

===============================================================================
