----------------------------- MODULE QuotaStorage -----------------------------
(***************************************************************************)
(* The quotas in etcd: quota/etcd/storage/quota_storage.go, and the RPCs   *)
(* that configure them, quota/etcd/quotaapi/quota_server.go.               *)
(*                                                                         *)
(* All quotas have their configurations under one key and a bucket of      *)
(* tokens each under a key of their own.  An operation is one serializable *)
(* transaction of etcd's software transactional memory, hence one step.    *)
(***************************************************************************)
EXTENDS Integers

CONSTANTS Quota,          \* the names of the quotas
          UserQuota,      \* those of users, which sequencing must not replenish
          MaxTokens      \* bound on what a configuration may ask for

ASSUME StorageAssumption ==
    /\ UserQuota \subseteq Quota
    /\ MaxTokens \in Nat

VARIABLES cfgs,          \* cfgs[s] is the configuration of the quota s
          buckets        \* buckets[s] is the content of the key of its bucket

storageVars == <<cfgs, buckets>>

\* A quota without configuration has the state "NONE" here.  The strategy is to
\* replenish by time or, with interval 0, by sequencing.
Config == [state     : {"NONE", "ENABLED", "DISABLED"},
           max       : 0 .. MaxTokens,
           replenish : 0 .. MaxTokens,
           interval  : Nat]

NoConfig == [state |-> "NONE", max |-> 0, replenish |-> 0, interval |-> 0]

TimeBased(cfg) == cfg.interval > 0

Configured(cs) == {s \in Quota : cs[s].state # "NONE"}
Enabled(cs)    == {s \in Quota : cs[s].state = "ENABLED"}

\* A key that was never written reads as the empty bucket.
Bucket      == [tokens : Int, last : Int]
EmptyBucket == [tokens |-> 0, last |-> 0]

-------------------------------------------------------------------------------
Capped(tokens, cfg) == IF tokens > cfg.max THEN cfg.max ELSE tokens

\* Mutant: a replenished bucket keeps the time of the replenishment before.
ReplenishedKeepingTime(cfg, b, now) ==
    IF TimeBased(cfg) /\ now >= b.last + cfg.interval
    THEN [tokens |-> Capped(b.tokens + cfg.replenish, cfg), last |-> b.last]
    ELSE b

\* The first part of modBucket: a time-based quota that is due is replenished.
Replenished(cfg, b, now) ==
    IF TimeBased(cfg) /\ now >= b.last + cfg.interval
    THEN [tokens |-> Capped(b.tokens + cfg.replenish, cfg), last |-> now]
    ELSE b

\* Time-based quotas ignore tokens that are put back.
Effective(cfg, add) == IF TimeBased(cfg) /\ add > 0 THEN 0 ELSE add

\* modBucket succeeds if this holds and then leaves ModBucket in the key.
Sufficient(cfg, b, now, add) == Replenished(cfg, b, now).tokens + Effective(cfg, add) >= 0

ModBucket(cfg, b, now, add) ==
    LET r == Replenished(cfg, b, now)
    IN  [r EXCEPT !.tokens = Capped(r.tokens + Effective(cfg, add), cfg)]

\* mod: one transaction over the enabled quotas of the request.  If one of them
\* has too few tokens the transaction is abandoned.
Modifiable(names, now, add) ==
    \A s \in names \cap Enabled(cfgs) : Sufficient(cfgs[s], buckets[s], now, add)

Modified(cs, bs, names, now, add) ==
    [s \in Quota |-> IF s \in names \cap Enabled(cs)
                    THEN ModBucket(cs[s], bs[s], now, add)
                    ELSE bs[s]]

Get(names, n, now) ==
    /\ Modifiable(names, now, -n)
    /\ buckets' = Modified(cfgs, buckets, names, now, -n)

Put(names, n, now) == buckets' = Modified(cfgs, buckets, names, now, n)

\* Peek writes too: it replenishes what is due.
Peek(names, now) ==
    /\ buckets' = Modified(cfgs, buckets, names, now, 0)
    /\ cfgs' = cfgs

\* Reset, the manager's ResetQuota.
Reset(names, now) ==
    /\ buckets' = [s \in Quota |-> IF s \in names \cap Enabled(cfgs)
                                  THEN [tokens |-> cfgs[s].max, last |-> now]
                                  ELSE buckets[s]]
    /\ cfgs' = cfgs

-------------------------------------------------------------------------------
\* validate, for one configuration.
Valid(s, cfg) ==
    /\ cfg.max > 0
    /\ TimeBased(cfg) => cfg.replenish > 0
    /\ s \in UserQuota => TimeBased(cfg)

\* Mutant: a lowered maximum waits for the next request.
BucketNotLowered(s, old, new, reset, now) ==
    IF old.state # "ENABLED" \/ reset
    THEN [tokens |-> new.max, last |-> now]
    ELSE buckets[s]

\* What UpdateConfigs does to the bucket of a quota that has a configuration.
NewBucket(s, old, new, reset, now) ==
    IF old.state # "ENABLED" \/ reset
    THEN [tokens |-> new.max, last |-> now]
    ELSE IF new.max < old.max THEN ModBucket(new, buckets[s], now, 0)
    ELSE buckets[s]

\* UpdateConfigs: all configurations are written back, and the buckets of all of
\* them are looked at, not only the bucket of the one that was updated.
AfterUpdate(new, reset, now) ==
    [s \in Quota |-> IF s \in Configured(new)
                    THEN NewBucket(s, cfgs[s], new[s], reset, now)
                    ELSE buckets[s]]

UpdateConfigs(new, reset, now) ==
    /\ \A s \in Configured(new) : Valid(s, new[s])
    /\ cfgs' = new
    /\ buckets' = AfterUpdate(new, reset, now)

\* CreateConfig and UpdateConfig return the configuration through getConfig, which
\* peeks at the bucket, in a transaction of its own.
UpdateConfigsAndPeek(s, new, reset, now) ==
    /\ \A q \in Configured(new) : Valid(q, new[q])
    /\ cfgs' = new
    /\ buckets' = Modified(new, AfterUpdate(new, reset, now), {s}, now, 0)

\* The RPCs.  Those that are refused change nothing, except that an update with
\* reset_quota of a quota that does not exist is only found out after the
\* transaction has committed.
CreateConfig(s, cfg, now) ==
    /\ s \notin Configured(cfgs)
    /\ UpdateConfigsAndPeek(s, [cfgs EXCEPT ![s] = cfg], FALSE, now)

DeleteConfig(s, now) ==
    /\ s \in Configured(cfgs)
    /\ UpdateConfigs([cfgs EXCEPT ![s] = NoConfig], FALSE, now)

UpdateConfig(s, cfg, reset, now) ==
    /\ s \in Configured(cfgs)
    /\ UpdateConfigsAndPeek(s, [cfgs EXCEPT ![s] = cfg], reset, now)

UpdateMissingConfig(s, now) ==
    /\ s \notin Configured(cfgs)
    /\ UpdateConfigs(cfgs, TRUE, now)

-------------------------------------------------------------------------------
\* A configured quota never has fewer than no tokens or more than its maximum,
\* whatever sequence of updates, disabling, lowering and putting back came before:
\* "the new ceiling is enforced" (UpdateConfigs).
WithinCeiling == \A s \in Configured(cfgs) : buckets[s].tokens \in 0 .. cfgs[s].max

===============================================================================
