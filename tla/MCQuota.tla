-------------------------------- MODULE MCQuota -------------------------------
(***************************************************************************)
(* Instances of QuotaSystem for TLC.                                       *)
(***************************************************************************)
EXTENDS QuotaSystem, TLC

Sequenced(max) == [state |-> "ENABLED", max |-> max, replenish |-> 0, interval |-> 0]
Timed(max, n, interval) ==
    [state |-> "ENABLED", max |-> max, replenish |-> n, interval |-> interval]

\* Users are limited by time, the tree and the whole system by sequencing.  Another
\* tree, to which no requests are made, has no quota yet.
MCInitConfig == ("user" :> Timed(3, 1, 1)) @@ ("t1" :> Sequenced(3)) @@
                ("t2" :> NoConfig) @@ ("global" :> Sequenced(4))

\* What administrators write: a lower maximum, enabled or not.
MCNewConfig == {Timed(2, 1, 1), [Sequenced(2) EXCEPT !.state = "DISABLED"]}

TwoServers == [r \in Rpc |-> IF r = "r1" THEN "f1" ELSE "f2"]
MCSkew     == [f \in Frontend |-> IF f = "f1" THEN 0 ELSE 1]
===============================================================================
