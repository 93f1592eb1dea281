------------------------- MODULE LogOperationManager --------------------------
(***************************************************************************)
(* The signer processes (server/log_operation_manager.go): the loop of     *)
(* each LogOperationManager, its workers, its MasterTracker and the        *)
(* electionRunner goroutine it starts for every log.                       *)
(*                                                                         *)
(*   loop:    start -> run -> drain -> start ... -> join -> ended          *)
(*            start -> failed -> join                                      *)
(*   runner:  none -> campaign -> waiting -> master -> campaign ...        *)
(*            master -> sending -> sent -> campaign                        *)
(*            campaign, waiting, master -> ended                           *)
(*                                                                         *)
(* The pass of a worker on a log is one integration of module Sequencer.   *)
(***************************************************************************)
EXTENDS Integers, Sequences, FiniteSets

(* Master election through etcd (util/etcd/election.go). A candidate of the election of
   a log has a key there, bound to a lease that its session keeps alive; the leader
   is the candidate whose key was created first.

   A call that etcd does not answer returns an error. A lease that is not kept alive
   lapses: the key is gone, but the instance learns of it only when it asks. Every
   election of an instance shares one etcd client, and Close closes it. *)

CONSTANTS Instance,      \* the signer processes
          Log,           \* the trees that may be active
          MaxFailures    \* bound: how many etcd and storage failures may happen

ASSUME ElectionAssumption == Log \subseteq Int /\ MaxFailures \in Nat

VARIABLES candidates,    \* the candidates of each election, in order of their keys
          lapsed,        \* lapsed[l]: the instances whose lease has lapsed
          closed,        \* the instances whose etcd client is closed
          failures       \* the failures so far

electionVars == <<candidates, lapsed, closed, failures>>

ElectionInit ==
    /\ candidates = [l \in Log |-> << >>]
    /\ lapsed = [l \in Log |-> {}]
    /\ closed = {}
    /\ failures = 0

IsCandidate(i, l) == \E k \in 1 .. Len(candidates[l]) : candidates[l][k] = i

\* The candidates whose keys are in etcd.
Live(l) == {k \in 1 .. Len(candidates[l]) : candidates[l][k] \notin lapsed[l]}

\* Election.Leader: the first key, if there is one.
HasLeader(l)    == Live(l) # {}
IsLeader(i, l)  ==
    \E k \in Live(l) : candidates[l][k] = i /\ \A j \in Live(l) : k <= j

\* The sequence without the instance.
Without(s, i) ==
    IF \E k \in 1 .. Len(s) : s[k] = i
    THEN LET k == CHOOSE k \in 1 .. Len(s) : s[k] = i
         IN  [n \in 1 .. Len(s) - 1 |-> IF n < k THEN s[n] ELSE s[n + 1]]
    ELSE s

\* A call to etcd returns an error, which uses up a failure unless the client is
\* closed.
CallFails(i) ==
    \/ i \in closed /\ failures' = failures
    \/ failures < MaxFailures /\ failures' = failures + 1

-------------------------------------------------------------------------------
\* Campaign, the first half of WaitForMastership: put the key, unless it is there.
JoinElection(i, l) ==
    /\ i \notin closed
    /\ i \notin lapsed[l]
    /\ candidates' = [candidates EXCEPT ![l] = IF IsCandidate(i, l) THEN @ ELSE Append(@, i)]
    /\ UNCHANGED <<lapsed, closed, failures>>

\* The key cannot be put under a lease that has lapsed, or etcd does not answer.
JoinFails(i, l) == (i \in lapsed[l] /\ failures' = failures) \/ CallFails(i)

\* Campaign returns when all the keys before the instance's own are gone.
CampaignWon(i, l) ==
    /\ i \notin closed
    /\ \E k \in 1 .. Len(candidates[l]) :
        /\ candidates[l][k] = i
        /\ \A j \in 1 .. k - 1 : candidates[l][j] \in lapsed[l]

\* Mutant: resigning leaves the key where it is.
ResignNothing(i, l) == UNCHANGED electionVars

\* ResignAndRestart deletes the key; if that fails the instance stays a candidate.
ResignAndRestart(i, l) ==
    \/ /\ i \notin closed
       /\ candidates' = [candidates EXCEPT ![l] = Without(@, i)]
       /\ UNCHANGED <<lapsed, closed, failures>>
    \/ /\ CallFails(i)
       /\ UNCHANGED <<candidates, lapsed, closed>>

\* Mutant: Close does nothing, and the session keeps its lease alive.
CloseNothing(i, l) == UNCHANGED <<candidates, lapsed, closed>>

\* Close deletes the key (or revokes its lease) and closes the client of the
\* instance.  If the client is closed already nothing can be deleted, and the key
\* stays until its lease lapses.
Close(i, l) ==
    /\ candidates' = [candidates EXCEPT ![l] = IF i \in closed THEN @ ELSE Without(@, i)]
    /\ closed' = closed \cup {i}
    /\ lapsed' = lapsed

\* A lease lapses: the client is closed and keeps no lease alive, or the instance
\* was cut off for too long.
Lapse(i, l) ==
    /\ i \notin lapsed[l]
    /\ \/ i \in closed /\ failures' = failures
       \/ failures < MaxFailures /\ failures' = failures + 1
    /\ lapsed' = [lapsed EXCEPT ![l] = @ \cup {i}]
    /\ UNCHANGED <<candidates, closed>>

-----------------------------------------------------------------------------
(* The signer processes. *)

CONSTANTS NumWorkers,    \* the workers of an instance
          PendingCap,    \* the capacity of pendingResignations
          Stoppable      \* the instances that may be told to exit

ASSUME ManagerAssumption ==
    /\ NumWorkers \in Nat \ {0}
    /\ PendingCap \in Nat \ {0}
    /\ Stoppable \subseteq Instance

VARIABLES active,        \* the logs the storage has listed as active
          cancelled,     \* the instances whose context is done
          loop,          \* where the OperationLoop of an instance is
          toProcess,     \* the logs its current run has still to work on
          running,       \* the logs its workers are working on
          tracker,       \* the logs it is master of, as far as it knows
          pending,       \* pendingResignations, a channel of logs
          runner         \* runner[i][l]: where the electionRunner of a log is

managerVars == <<active, cancelled, loop, toProcess, running, tracker, pending, runner>>

vars == <<electionVars, managerVars>>

Init ==
    /\ ElectionInit
    /\ active \in SUBSET Log
    /\ cancelled = {}
    /\ loop = [i \in Instance |-> "start"]
    /\ toProcess = [i \in Instance |-> {}]
    /\ running = [i \in Instance |-> {}]
    /\ tracker = [i \in Instance |-> {}]
    /\ pending = [i \in Instance |-> << >>]
    /\ runner = [i \in Instance |-> [l \in Log |-> "none"]]

LoopGoto(i, label)      == loop' = [loop EXCEPT ![i] = label]
RunnerGoto(i, l, label) == runner' = [runner EXCEPT ![i][l] = label]

\* tracker.Set
SetMaster(i, l, val) ==
    tracker' = [tracker EXCEPT ![i] = IF val THEN @ \cup {l} ELSE @ \ {l}]

-------------------------------------------------------------------------------
\* The loop of an instance.

\* The runners that masterFor starts for the given logs.
StartRunners(i, logs) ==
    runner' = [runner EXCEPT ![i] =
                  [l \in Log |-> IF l \in logs THEN "campaign" ELSE runner[i][l]]]

NewLogs(i) == {l \in active : runner[i][l] = "none"}

\* getLogsAndExecutePass up to the start of the workers: list the active logs, start
\* an election runner for each new one, and take the logs the tracker says are held.
\* With a closed client no election can be made.
StartRun(i) ==
    /\ loop[i] = "start"
    /\ NewLogs(i) = {} \/ i \notin closed
    /\ StartRunners(i, NewLogs(i))
    /\ toProcess' = [toProcess EXCEPT ![i] = tracker[i]]
    /\ LoopGoto(i, "run")
    /\ UNCHANGED <<electionVars, active, cancelled, running, tracker, pending>>

\* Listing the logs fails, or making the election of one of them; the runners of
\* the logs before that one have been started.
StartRunFails(i) ==
    /\ loop[i] = "start"
    /\ \/ i \in cancelled /\ failures' = failures
       \/ NewLogs(i) # {} /\ i \in closed /\ failures' = failures
       \/ failures < MaxFailures /\ failures' = failures + 1
    /\ \E logs \in SUBSET NewLogs(i) :
        /\ logs = {} \/ (logs # NewLogs(i) /\ i \notin closed)
        /\ StartRunners(i, logs)
    /\ LoopGoto(i, "failed")
    /\ UNCHANGED <<candidates, lapsed, closed, active, cancelled, toProcess, running,
                   tracker, pending>>

\* A free worker receives the next log from toProcess, which was filled in the
\* (sorted) order of tracker.Held.
TakeLog(i) ==
    /\ loop[i] = "run"
    /\ Cardinality(running[i]) < NumWorkers
    /\ \E l \in toProcess[i] :
        /\ \A m \in toProcess[i] : l <= m
        /\ toProcess' = [toProcess EXCEPT ![i] = @ \ {l}]
        /\ running' = [running EXCEPT ![i] = @ \cup {l}]
    /\ UNCHANGED <<electionVars, active, cancelled, loop, tracker, pending, runner>>

\* ExecutePass returns; an error is logged and counted.
PassDone(i, l) ==
    /\ l \in running[i]
    /\ running' = [running EXCEPT ![i] = @ \ {l}]
    /\ UNCHANGED <<electionVars, active, cancelled, loop, toProcess, tracker, pending, runner>>

\* wg.Wait returns when the workers are done; then see if it is time to quit.
RunDone(i) ==
    /\ loop[i] = "run"
    /\ toProcess[i] = {} /\ running[i] = {}
    /\ LoopGoto(i, IF i \in cancelled THEN "join" ELSE "drain")
    /\ UNCHANGED <<electionVars, active, cancelled, toProcess, running, tracker, pending, runner>>

\* After a failure the loop receives from ctx.Done(), which blocks until the context
\* is done; the loop then quits.
FailureHandled(i) ==
    /\ loop[i] = "failed"
    /\ i \in cancelled
    /\ LoopGoto(i, "join")
    /\ UNCHANGED <<electionVars, active, cancelled, toProcess, running, tracker, pending, runner>>

\* Mutant: a resignation is received but the runner is not told.
ExecuteUntold(i) ==
    /\ loop[i] = "drain"
    /\ pending[i] # << >>
    /\ ResignAndRestart(i, Head(pending[i]))
    /\ pending' = [pending EXCEPT ![i] = Tail(@)]
    /\ UNCHANGED <<active, cancelled, loop, toProcess, running, tracker, runner>>

\* resignation.execute: give up mastership and let the runner go on, whether that
\* worked or not.
ExecuteResignation(i) ==
    /\ loop[i] = "drain"
    /\ pending[i] # << >>
    /\ ResignAndRestart(i, Head(pending[i]))
    /\ pending' = [pending EXCEPT ![i] = Tail(@)]
    /\ RunnerGoto(i, Head(pending[i]), "campaign")
    /\ UNCHANGED <<active, cancelled, loop, toProcess, running, tracker>>

\* No more resignations; sleep for the rest of the interval and start over.
Sleep(i) ==
    /\ loop[i] = "drain"
    /\ pending[i] = << >>
    /\ LoopGoto(i, "start")
    /\ UNCHANGED <<electionVars, active, cancelled, toProcess, running, tracker, pending, runner>>

\* runnerWG.Wait: the loop returns when all its runners have.
RunnersJoined(i) ==
    /\ loop[i] = "join"
    /\ \A l \in Log : runner[i][l] \in {"none", "ended"}
    /\ LoopGoto(i, "ended")
    /\ UNCHANGED <<electionVars, active, cancelled, toProcess, running, tracker, pending, runner>>

LoopStep(i) ==
    \/ StartRun(i) \/ TakeLog(i) \/ (\E l \in Log : PassDone(i, l)) \/ RunDone(i)
    \/ FailureHandled(i) \/ ExecuteResignation(i) \/ Sleep(i) \/ RunnersJoined(i)
    \/ i \in cancelled /\ StartRunFails(i)

-------------------------------------------------------------------------------
\* The electionRunner of a log.

RunnerUnchanged == UNCHANGED <<active, cancelled, loop, toProcess, running>>

\* WaitForMastership begins.
Campaign(i, l) ==
    /\ runner[i][l] = "campaign"
    /\ i \notin cancelled
    /\ JoinElection(i, l)
    /\ RunnerGoto(i, l, "waiting")
    /\ RunnerUnchanged /\ UNCHANGED <<tracker, pending>>

\* WaitForMastership returns an error: the runner closes its election and returns,
\* for good.  What the tracker says stays.
WaitFails(i, l) ==
    /\ \/ runner[i][l] = "campaign" /\ JoinFails(i, l)
       \/ runner[i][l] = "waiting" /\ CallFails(i)
       \/ runner[i][l] \in {"campaign", "waiting"} /\ i \in cancelled /\ failures' = failures
    /\ Close(i, l)
    /\ RunnerGoto(i, l, "ended")
    /\ RunnerUnchanged /\ UNCHANGED <<tracker, pending>>

\* WaitForMastership returns: the instance is master.
Elected(i, l) ==
    /\ runner[i][l] = "waiting"
    /\ CampaignWon(i, l)
    /\ SetMaster(i, l, TRUE)
    /\ RunnerGoto(i, l, "master")
    /\ RunnerUnchanged /\ UNCHANGED <<electionVars, pending>>

\* The check of the while-master loop finds the context done.
Terminated(i, l) ==
    /\ runner[i][l] = "master"
    /\ i \in cancelled
    /\ Close(i, l)
    /\ failures' = failures
    /\ RunnerGoto(i, l, "ended")
    /\ RunnerUnchanged /\ UNCHANGED <<tracker, pending>>

\* IsMaster returns an error: etcd does not answer, or nobody is leader.  The
\* runner goes back to WaitForMastership without telling the tracker.
CheckFails(i, l) ==
    /\ runner[i][l] = "master"
    /\ i \notin cancelled
    /\ (~HasLeader(l) /\ failures' = failures) \/ CallFails(i)
    /\ RunnerGoto(i, l, "campaign")
    /\ RunnerUnchanged /\ UNCHANGED <<candidates, lapsed, closed, tracker, pending>>

\* IsMaster says no.
MastershipLost(i, l) ==
    /\ runner[i][l] = "master"
    /\ i \notin cancelled \cup closed
    /\ HasLeader(l) /\ ~IsLeader(i, l)
    /\ SetMaster(i, l, FALSE)
    /\ RunnerGoto(i, l, "campaign")
    /\ RunnerUnchanged /\ UNCHANGED <<electionVars, pending>>

\* Mutant: the runner resigns by itself, without waiting for a pause of the loop.
ResignAtOnce(i, l) ==
    /\ runner[i][l] = "master"
    /\ i \notin cancelled \cup closed
    /\ IsLeader(i, l)
    /\ ResignAndRestart(i, l)
    /\ SetMaster(i, l, FALSE)
    /\ RunnerGoto(i, l, "campaign")
    /\ RunnerUnchanged /\ UNCHANGED pending

\* IsMaster says yes and shouldResign too: the hold interval is over and the dice
\* were rolled.  The tracker is told before the resignation is queued.
QueueResignation(i, l) ==
    /\ runner[i][l] = "master"
    /\ i \notin cancelled \cup closed
    /\ IsLeader(i, l)
    /\ SetMaster(i, l, FALSE)
    /\ RunnerGoto(i, l, "sending")
    /\ RunnerUnchanged /\ UNCHANGED <<electionVars, pending>>

\* The channel has room; the runner then waits for the resignation to be acted on.
SendResignation(i, l) ==
    /\ runner[i][l] = "sending"
    /\ Len(pending[i]) < PendingCap
    /\ pending' = [pending EXCEPT ![i] = Append(@, l)]
    /\ RunnerGoto(i, l, "sent")
    /\ RunnerUnchanged /\ UNCHANGED <<electionVars, tracker>>

RunnerStep(i, l) ==
    \/ Campaign(i, l) \/ Elected(i, l) \/ Terminated(i, l) \/ MastershipLost(i, l)
    \/ QueueResignation(i, l) \/ SendResignation(i, l)
    \/ (WaitFails(i, l) \/ CheckFails(i, l)) /\ failures' = failures

-------------------------------------------------------------------------------
\* The world outside: logs are created (deleting one does not stop its runners),
\* leases lapse, and a process is told to exit (util.AwaitSignal cancels the context).

CreateLog ==
    /\ \E l \in Log \ active : active' = active \cup {l}
    /\ UNCHANGED <<electionVars, cancelled, loop, toProcess, running, tracker, pending, runner>>

LeaseLapses(i, l) ==
    /\ runner[i][l] # "none"
    /\ Lapse(i, l)
    /\ UNCHANGED managerVars

ToldToExit(i) ==
    /\ i \in Stoppable \ cancelled
    /\ cancelled' = cancelled \cup {i}
    /\ UNCHANGED <<electionVars, active, loop, toProcess, running, tracker, pending, runner>>

Next ==
    \/ \E i \in Instance : LoopStep(i) \/ StartRunFails(i) \/ ToldToExit(i)
    \/ \E i \in Instance, l \in Log : RunnerStep(i, l) \/ WaitFails(i, l) \/ CheckFails(i, l)
                                        \/ LeaseLapses(i, l)
    \/ CreateLog

Spec == Init /\ [][Next]_vars

\* Goroutines are scheduled, passes return, and a lease that nobody keeps alive
\* lapses.  The dice of shouldResign are rolled at every check, so a master that is
\* never stopped resigns some time; and goroutines that block on a full channel are
\* served in their order.
Fairness ==
    /\ \A i \in Instance : WF_vars(LoopStep(i))
    /\ \A i \in Instance : \A l \in Log :
        /\ WF_vars(RunnerStep(i, l))
        /\ WF_vars(i \in closed /\ LeaseLapses(i, l))
        /\ SF_vars(QueueResignation(i, l))
        /\ SF_vars(SendResignation(i, l))

FairSpec == Spec /\ Fairness

-------------------------------------------------------------------------------
\* Every variable has its type, and no more workers run than an instance has.
TypeOK ==
    /\ candidates \in [Log -> Seq(Instance)]
    /\ lapsed \in [Log -> SUBSET Instance]
    /\ closed \subseteq Instance
    /\ failures \in 0 .. MaxFailures
    /\ active \subseteq Log
    /\ cancelled \subseteq Instance
    /\ loop \in [Instance -> {"start", "run", "failed", "drain", "join", "ended"}]
    /\ toProcess \in [Instance -> SUBSET Log]
    /\ running \in [Instance -> SUBSET Log]
    /\ tracker \in [Instance -> SUBSET Log]
    /\ pending \in [Instance -> Seq(Log)]
    /\ runner \in [Instance -> [Log -> {"none", "campaign", "waiting", "master",
                                        "sending", "sent", "ended"}]]
    /\ \A i \in Instance : Cardinality(running[i]) <= NumWorkers

\* An instance works on a log: it is in its current run.
WorksOn(i, l) == l \in toProcess[i] \cup running[i]

\* No two instances work on a log at the same time, as long as etcd works and nobody
\* is stopped: mastership is only given up between two runs ("Process any pending
\* resignations while there's no activity").
Undisturbed == failures = 0 /\ cancelled = {}

OneSignerPerLog ==
    Undisturbed =>
        \A l \in Log : \A i, j \in Instance : WorksOn(i, l) /\ WorksOn(j, l) => i = j

\* A runner that waits for its resignation to be acted on has it in the channel,
\* once, and the channel holds nothing else: no resignation is lost, executed twice
\* or executed for a runner that has gone on.  (No more workers run than an instance
\* has: TypeOK.)
ResignationsMatch ==
    /\ TypeOK
    /\ \A i \in Instance : \A l \in Log :
        Cardinality({k \in 1 .. Len(pending[i]) : pending[i][k] = l})
            = IF runner[i][l] = "sent" THEN 1 ELSE 0

\* Whoever is a candidate for a log becomes its master some time, as long as nothing
\* fails and nobody is stopped.
EveryoneGetsATurn ==
    []Undisturbed =>
        \A i \in Instance : \A l \in Log : runner[i][l] = "waiting" ~> l \in tracker[i]

\* OperationLoop "continues until told to exit".
ExitsWhenTold == \A i \in Instance : i \in cancelled ~> loop[i] = "ended"

\* The loop waits for a runner that waits for the loop to act on its resignation.
Deadlocked(i) == loop[i] = "join" /\ \E l \in Log : runner[i][l] = "sent"

\* A runner that has ended does not keep the others from mastership: its key is
\* deleted, or its lease is not kept alive any longer.  And an instance that is told
\* to exit stops to work on logs and either exits or is deadlocked; there is no other
\* way for it to hang.
MastershipIsReleased ==
    \A i \in Instance :
        /\ \A l \in Log : runner[i][l] = "ended" ~> ~IsLeader(i, l)
        /\ i \in cancelled ~> /\ loop[i] = "ended" \/ Deadlocked(i)
                              /\ \A l \in Log : ~WorksOn(i, l)
=============================================================================
