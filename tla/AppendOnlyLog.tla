---------------------------- MODULE AppendOnlyLog -----------------------------
(***************************************************************************)
(* What a log promises, without transactions, signers or clocks: leaves    *)
(* are accepted once, and the log grows by whole batches of accepted       *)
(* leaves.  Each growth signs the size it reaches.                         *)
(***************************************************************************)
EXTENDS Integers, Sequences

CONSTANT Leaf

VARIABLES queue,   \* the accepted leaves that are not in the log yet
          log,     \* the leaves of the log, in order
          heads    \* the sizes that have been signed

alogVars == <<queue, log, heads>>

AInit == queue = {} /\ log = << >> /\ heads = {}

\* The log is created.
ACreate ==
    /\ heads = {}
    /\ heads' = {0}
    /\ UNCHANGED <<queue, log>>

\* New leaves are accepted: none of them is in the queue or in the log.
AAccept ==
    /\ heads # {}
    /\ queue' \in SUBSET Leaf
    /\ queue \subseteq queue'
    /\ \A i \in 1 .. Len(log) : log[i] \notin queue' \ queue
    /\ UNCHANGED <<log, heads>>

\* The leaves by which the log grows from `old' to `new'.
Added(old, new) == {new[i] : i \in Len(old) + 1 .. Len(new)}

\* A batch of accepted leaves is appended, each once, and leaves the queue.
AIntegrate ==
    /\ heads # {}
    /\ Len(log') >= Len(log)
    /\ \A i \in 1 .. Len(log) : log'[i] = log[i]
    /\ \A i, j \in Len(log) + 1 .. Len(log') : log'[i] = log'[j] => i = j
    /\ Added(log, log') \subseteq queue
    /\ queue' = queue \ Added(log, log')
    /\ heads' = heads \cup {Len(log')}

ANext == ACreate \/ AAccept \/ AIntegrate

ASpec == AInit /\ [][ANext]_alogVars

===============================================================================
