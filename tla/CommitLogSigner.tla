--------------------------- MODULE CommitLogSigner ----------------------------
(***************************************************************************)
(* The sample signer of the commit-log storage design                      *)
(* (docs/storage/commit_log).  Leaves and STHs are topics of a Kafka-like  *)
(* log; each signer builds a database of its own from them.  Any number of *)
(* signers may be master at once: an STH says at which offset its writer   *)
(* expects it, and counts only if it got there.                            *)
(*                                                                         *)
(* A leaf is its offset in the Leaves topic, so that the topic is its      *)
(* length, and a database that holds the first n leaves of it is n.        *)
(***************************************************************************)
EXTENDS Integers, Sequences, FiniteSets

CONSTANTS Signer,
          BatchSize,     \* the leaves signed in one run
          Election,      \* whether signers ask an election who is master
          SteppingClock, \* whether the clock may be set back
          MaxLeaves,     \* bound: the leaves that are added
          MaxTime,       \* bound: the values of the clock
          MaxSTHs        \* bound: the length of the STHs topic

ASSUME CommitLogAssumption ==
    /\ BatchSize \in Nat \ {0}
    /\ Election \in BOOLEAN /\ SteppingClock \in BOOLEAN
    /\ MaxLeaves \in Nat /\ MaxTime \in Nat /\ MaxSTHs \in Nat

VARIABLES leaves,        \* the length of the topic Leaves/<treeID>
          sths,          \* the topic STHs/<treeID>; offset o is sths[o + 1]
          masters,       \* the election's masters
          clock,         \* time.Now, which is one clock for all signers
          dbSTHInfo,     \* the STHInfo of each signer's database
          db,            \* the number of leaves in each signer's database
          pc, nextOffset, newSTH    \* the step and the locals of each signer's Run

vars == <<leaves, sths, masters, clock, dbSTHInfo, db, pc, nextOffset, newSTH>>

STH     == [size : Nat, ts : Nat, off : Int]
NoSTH   == [size |-> 0, ts |-> 0, off |-> 0]
STHInfo == [rev : Int, off : Int, sth : STH]

Init ==
    /\ leaves = 0
    /\ sths = << >>
    /\ masters = {}
    /\ clock = 0
    /\ dbSTHInfo = [s \in Signer |-> [rev |-> -1, off |-> -1, sth |-> NoSTH]]
    /\ db = [s \in Signer |-> 0]
    /\ pc = [s \in Signer |-> "idle"]
    /\ nextOffset = [s \in Signer |-> 0]
    /\ newSTH = [s \in Signer |-> NoSTH]

-------------------------------------------------------------------------------
\* simkafka.Read; an offset beyond the end of the topic reads as nothing.
Exists(offset) == offset < Len(sths)
STHAt(offset)  == sths[offset + 1]

\* The check that the STHs topic has what the database knows.
SanityOK(s) ==
    LET info == dbSTHInfo[s]
    IN  info.sth.size > 0 =>
            /\ Exists(info.off)
            /\ STHAt(info.off).off = info.off
            /\ STHAt(info.off).ts = info.sth.ts
            /\ STHAt(info.off).size = info.sth.size

\* Mutant: every STH counts, whether it got the offset its writer expected or not.
FirstCountingAny(s) == dbSTHInfo[s].off + 1

\* The offset at which the loop over the topic stops: the first one after the
\* database's own whose STH is not there or was not written for an earlier offset.
FirstCounting(s) ==
    CHOOSE o \in dbSTHInfo[s].off + 1 .. Len(sths) :
        /\ Exists(o) => STHAt(o).off >= o
        /\ \A p \in dbSTHInfo[s].off + 1 .. o - 1 : STHAt(p).off < p

\* The STH at that offset is one the database can move to.
SuccessorOK(s, o) ==
    /\ STHAt(o).off = o
    /\ STHAt(o).ts >= dbSTHInfo[s].sth.ts
    /\ STHAt(o).size >= dbSTHInfo[s].sth.size

\* The leaves of the topic after the first n, at most max of them.
ReadMultiple(n, max) == IF n + max > leaves THEN leaves - n ELSE max

-------------------------------------------------------------------------------
\* Run looks at the topic, then pauses.
Scan(s) ==
    /\ pc[s] = "idle"
    /\ SanityOK(s)
    /\ Exists(FirstCounting(s)) => SuccessorOK(s, FirstCounting(s))
    /\ nextOffset' = [nextOffset EXCEPT ![s] = FirstCounting(s)]
    /\ pc' = [pc EXCEPT ![s] = IF Exists(FirstCounting(s)) THEN "follow" ELSE "lead"]
    /\ UNCHANGED <<leaves, sths, masters, clock, dbSTHInfo, db, newSTH>>

IsMaster(s) == ~Election \/ s \in masters

\* A run that ends; its locals are gone.
EndRun(s) ==
    /\ pc' = [pc EXCEPT ![s] = "idle"]
    /\ nextOffset' = [nextOffset EXCEPT ![s] = 0]
    /\ newSTH' = [newSTH EXCEPT ![s] = NoSTH]

\* Nothing is ahead of the database, but the signer is not master or there are no
\* more leaves.
NothingToDo(s) ==
    /\ pc[s] = "lead"
    /\ ~IsMaster(s) \/ ReadMultiple(dbSTHInfo[s].sth.size, BatchSize) = 0
    /\ EndRun(s)
    /\ UNCHANGED <<leaves, sths, masters, clock, dbSTHInfo, db>>

\* The master prepares an STH over the next leaves.
Sign(s) ==
    LET batch == ReadMultiple(dbSTHInfo[s].sth.size, BatchSize)
    IN  /\ pc[s] = "lead"
        /\ IsMaster(s)
        /\ batch > 0
        /\ Len(sths) < MaxSTHs
        /\ newSTH' = [newSTH EXCEPT ![s] = [size |-> db[s] + batch, ts |-> clock,
                                            off |-> nextOffset[s]]]
        /\ pc' = [pc EXCEPT ![s] = "append"]
        /\ UNCHANGED <<leaves, sths, masters, clock, dbSTHInfo, db, nextOffset>>

\* Mutant: the database takes the STH although it did not get its offset.
AppendSTHAnyway(s) ==
    LET offset == Len(sths)
        sth    == newSTH[s]
    IN  /\ pc[s] = "append"
        /\ sths' = Append(sths, sth)
        /\ db' = [db EXCEPT ![s] = sth.size]
        /\ dbSTHInfo' = [dbSTHInfo EXCEPT ![s] =
                            [rev |-> @.rev + 1, off |-> offset, sth |-> sth]]
        /\ EndRun(s)
        /\ UNCHANGED <<leaves, masters, clock>>

\* The STH is appended, and the offset it got compared with the one expected: only
\* if they agree does the database move on to it.
AppendSTH(s) ==
    LET offset == Len(sths)
        sth    == newSTH[s]
    IN  /\ pc[s] = "append"
        /\ sths' = Append(sths, sth)
        /\ \/ /\ offset = nextOffset[s]
              /\ db' = [db EXCEPT ![s] = sth.size]
              /\ dbSTHInfo' = [dbSTHInfo EXCEPT ![s] =
                                  [rev |-> @.rev + 1, off |-> offset, sth |-> sth]]
           \/ /\ offset # nextOffset[s]
              /\ UNCHANGED <<db, dbSTHInfo>>
        /\ EndRun(s)
        /\ UNCHANGED <<leaves, masters, clock>>

\* Mutant: a signer that is behind waits for its own turn.
FollowNothing(s) ==
    /\ pc[s] = "follow"
    /\ EndRun(s)
    /\ UNCHANGED <<leaves, sths, masters, clock, dbSTHInfo, db>>

\* Somebody's STH is ahead: read the leaves up to it and move the database there.
Follow(s) ==
    LET sth   == STHAt(nextOffset[s])
        count == sth.size - dbSTHInfo[s].sth.size
    IN  /\ pc[s] = "follow"
        /\ ReadMultiple(dbSTHInfo[s].sth.size, count) = count
        /\ db' = [db EXCEPT ![s] = @ + count]
        /\ dbSTHInfo' = [dbSTHInfo EXCEPT ![s] =
                            [rev |-> @.rev + 1, off |-> nextOffset[s],
                             sth |-> [size |-> db[s] + count, ts |-> sth.ts,
                                      off |-> nextOffset[s]]]]
        /\ EndRun(s)
        /\ UNCHANGED <<leaves, sths, masters, clock>>

SignerStep(s) == Scan(s) \/ NothingToDo(s) \/ Sign(s) \/ AppendSTH(s) \/ Follow(s)

-------------------------------------------------------------------------------
\* The program around the signers: leaves are added, masters come and go, one or two
\* at a time, and time passes.
AddLeaf ==
    /\ leaves < MaxLeaves
    /\ leaves' = leaves + 1
    /\ UNCHANGED <<sths, masters, clock, dbSTHInfo, db, pc, nextOffset, newSTH>>

SetMasters ==
    /\ Election
    /\ \E s, t \in Signer : masters' = {s, t}
    /\ UNCHANGED <<leaves, sths, clock, dbSTHInfo, db, pc, nextOffset, newSTH>>

Tick ==
    /\ \/ clock < MaxTime /\ clock' = clock + 1
       \/ SteppingClock /\ clock > 0 /\ clock' = clock - 1
    /\ UNCHANGED <<leaves, sths, masters, dbSTHInfo, db, pc, nextOffset, newSTH>>

Next == (\E s \in Signer : SignerStep(s)) \/ AddLeaf \/ SetMasters \/ Tick

Spec == Init /\ [][Next]_vars

\* Every signer runs again and again (once a second), whatever else happens.
FairSpec == Spec /\ \A s \in Signer : WF_vars(SignerStep(s))

-------------------------------------------------------------------------------
\* The offsets whose STH counts.
Accepted == {o \in 0 .. Len(sths) - 1 : STHAt(o).off = o}

\* Every database is at an STH that counts, and its revision says how many counted
\* before: all signers go through the same STHs in the same order, however many of
\* them wrote at the same time ("Kafka adjudicates the clash").
DatabasesAgree ==
    \A s \in Signer :
        /\ db[s] = dbSTHInfo[s].sth.size
        /\ dbSTHInfo[s].off # -1 =>
            /\ dbSTHInfo[s].off \in Accepted
            /\ dbSTHInfo[s].sth = STHAt(dbSTHInfo[s].off)
        /\ dbSTHInfo[s].rev + 1 = Cardinality({o \in Accepted : o <= dbSTHInfo[s].off})

\* The STHs that count are over more and more leaves, all of which exist.
AcceptedGrow ==
    \A o \in Accepted :
        /\ STHAt(o).size <= leaves
        /\ \A p \in Accepted : p < o => STHAt(p).size < STHAt(o).size

\* None of the errors of Run that are marked "!!" happens ("should not happen" in
\* the design document): a signer that met one would meet it in every later run.
\* For that the STHs that count have to grow.
NoSurprise ==
    /\ AcceptedGrow
    /\ \A s \in Signer :
        /\ pc[s] = "idle" =>
            /\ SanityOK(s)
            /\ Exists(FirstCounting(s)) => SuccessorOK(s, FirstCounting(s))
        /\ pc[s] = "append" => Len(sths) >= nextOffset[s]
        /\ pc[s] = "follow" => STHAt(nextOffset[s]).size <= leaves

\* Every leaf gets into the database of every signer once there is a single master
\* for good (in behaviours that do not fill the bounded topic).
LeavesAreIntegrated ==
    (\E s \in Signer : <>[](masters = {s})) /\ [](Len(sths) < MaxSTHs)
        => \A n \in 1 .. MaxLeaves : \A s \in Signer : leaves >= n ~> db[s] >= n

===============================================================================
