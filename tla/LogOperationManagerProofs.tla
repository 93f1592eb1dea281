----------------------- MODULE LogOperationManagerProofs ----------------------
(***************************************************************************)
(* Proofs about LogOperationManager: resignations are neither lost nor     *)
(* executed twice, and no two signers work on a log as long as etcd works. *)
(***************************************************************************)
EXTENDS LogOperationManager, FiniteSetTheorems, SequenceTheorems, TLAPS

-------------------------------------------------------------------------------
\* The inductive invariant.

\* The channel of an instance holds the logs whose runners wait, each of them once.
ChannelExact(i) ==
    /\ \A k, m \in 1 .. Len(pending[i]) : pending[i][k] = pending[i][m] => k = m
    /\ \A l \in Log : runner[i][l] = "sent" <=> \E k \in 1 .. Len(pending[i]) : pending[i][k] = l

ResignInv ==
    \A i \in Instance : IsFiniteSet(running[i]) /\ ChannelExact(i)

\* Between its election and its resignation the runner of a log has the first key.
Holding    == {"master", "sending", "sent"}
Leads(i, l) == candidates[l] # << >> /\ candidates[l][1] = i

\* While nothing is disturbed no client is closed and no lease lapses; who holds
\* a log leads its election, the tracker knows only logs that are held and not about
\* to be resigned, and an instance works only on logs it holds, and only in a run.
HoldInv(i, l) ==
    /\ runner[i][l] \in Holding => Leads(i, l)
    /\ l \in tracker[i] => runner[i][l] = "master"
    /\ WorksOn(i, l) => loop[i] = "run" /\ runner[i][l] \in Holding

CalmInv ==
    Undisturbed =>
        /\ closed = {} /\ \A l \in Log : lapsed[l] = {}
        /\ \A i \in Instance, l \in Log : HoldInv(i, l)

ManagerInv == TypeOK /\ ResignInv /\ CalmInv
-------------------------------------------------------------------------------
\* Types.

LEMMA WithoutType ==
    ASSUME NEW s \in Seq(Instance), NEW i \in Instance
    PROVE  Without(s, i) \in Seq(Instance)
<1>1. CASE \E k \in 1 .. Len(s) : s[k] = i
  <2> DEFINE k == CHOOSE k \in 1 .. Len(s) : s[k] = i
             t == [n \in 1 .. Len(s) - 1 |-> IF n < k THEN s[n] ELSE s[n + 1]]
  <2>1. k \in 1 .. Len(s) /\ Len(s) \in Nat
    BY <1>1
  <2>2. Len(s) - 1 \in Nat /\ \A n \in 1 .. Len(s) - 1 : n \in 1 .. Len(s) /\ n + 1 \in 1 .. Len(s)
    BY <2>1
  <2>3. \A n \in 1 .. Len(s) : s[n] \in Instance
    BY ElementOfSeq
  <2> HIDE DEF k
  <2>4. t \in [1 .. Len(s) - 1 -> Instance]
    BY <2>2, <2>3
  <2>5. t \in Seq(Instance)
    BY <2>2, <2>4
  <2>6. Without(s, i) = t
    BY <1>1 DEF Without, k
  <2> QED BY <2>5, <2>6
<1>2. CASE ~\E k \in 1 .. Len(s) : s[k] = i
  BY <1>2 DEF Without
<1> QED BY <1>1, <1>2

\* What a step may do to the election and the failures keeps their types.
ElectionTypes ==
    /\ candidates \in [Log -> Seq(Instance)]
    /\ lapsed \in [Log -> SUBSET Instance]
    /\ closed \subseteq Instance
    /\ failures \in 0 .. MaxFailures

LEMMA CloseTypes ==
    ASSUME ElectionTypes, NEW i \in Instance, NEW l \in Log, Close(i, l),
           failures' \in 0 .. MaxFailures
    PROVE  ElectionTypes'
<1>1. candidates[l] \in Seq(Instance) /\ Without(candidates[l], i) \in Seq(Instance)
  BY WithoutType DEF ElectionTypes
<1> QED BY <1>1 DEF ElectionTypes, Close

LEMMA ResignTypes ==
    ASSUME ElectionTypes, NEW i \in Instance, NEW l \in Log, ResignAndRestart(i, l)
    PROVE  ElectionTypes'
<1>1. candidates[l] \in Seq(Instance) /\ Without(candidates[l], i) \in Seq(Instance)
  BY WithoutType DEF ElectionTypes
<1> QED BY <1>1, ElectionAssumption DEF ElectionTypes, ResignAndRestart, CallFails

LEMMA JoinTypes ==
    ASSUME ElectionTypes, NEW i \in Instance, NEW l \in Log, JoinElection(i, l)
    PROVE  ElectionTypes'
<1>1. candidates[l] \in Seq(Instance) /\ Append(candidates[l], i) \in Seq(Instance)
  BY DEF ElectionTypes
<1> QED BY <1>1 DEF ElectionTypes, JoinElection
Workers == \A i \in Instance : IsFiniteSet(running[i]) /\ Cardinality(running[i]) <= NumWorkers

LEMMA TypeParts == TypeOK => ElectionTypes
  BY DEF TypeOK, ElectionTypes

\* The workers take a log only if one of them is free, and give it back.
LEMMA TakeLogTypes ==
    ASSUME TypeOK, Workers, NEW i \in Instance, TakeLog(i)
    PROVE  TypeOK' /\ Workers'
<1>1. PICK l \in toProcess[i] :
          /\ toProcess' = [toProcess EXCEPT ![i] = @ \ {l}]
          /\ running' = [running EXCEPT ![i] = @ \cup {l}]
  BY DEF TakeLog
<1>2. running \in [Instance -> SUBSET Log] /\ l \in Log
  BY DEF TypeOK
<1>3. /\ \A j \in Instance \ {i} : running'[j] = running[j]
      /\ running'[i] = running[i] \cup {l}
  BY <1>1, <1>2
<1>4. IsFiniteSet(running'[i]) /\ Cardinality(running'[i]) <= Cardinality(running[i]) + 1
  <2>1. IsFiniteSet(running[i]) /\ Cardinality(running[i]) \in Nat
    BY FS_CardinalityType DEF Workers
  <2>2. Cardinality(running[i] \cup {l}) \in {Cardinality(running[i]), Cardinality(running[i]) + 1}
    BY <2>1, FS_AddElement
  <2>3. IsFiniteSet(running[i] \cup {l})
    BY <2>1, FS_AddElement
  <2> QED BY <1>3, <2>1, <2>2, <2>3
<1>5. Cardinality(running'[i]) <= NumWorkers
  <2>1. Cardinality(running[i]) < NumWorkers
    BY DEF TakeLog
  <2>2. Cardinality(running[i]) \in Nat /\ Cardinality(running'[i]) \in Nat
    BY <1>4, FS_CardinalityType DEF Workers
  <2> QED BY <1>4, <2>1, <2>2, ManagerAssumption
<1>6. Workers'
  BY <1>3, <1>4, <1>5 DEF Workers
<1>7. running' \in [Instance -> SUBSET Log] /\ toProcess' \in [Instance -> SUBSET Log]
  BY <1>1, <1>2 DEF TypeOK
<1> QED BY <1>6, <1>7 DEF TypeOK, TakeLog, electionVars, Workers

LEMMA PassDoneTypes ==
    ASSUME TypeOK, Workers, NEW i \in Instance, NEW l \in Log, PassDone(i, l)
    PROVE  TypeOK' /\ Workers'
<1>1. running \in [Instance -> SUBSET Log] /\ running' = [running EXCEPT ![i] = @ \ {l}]
  BY DEF TypeOK, PassDone
<1>2. /\ \A j \in Instance \ {i} : running'[j] = running[j]
      /\ running'[i] = running[i] \ {l}
  BY <1>1
<1>3. IsFiniteSet(running'[i]) /\ Cardinality(running'[i]) <= NumWorkers
  <2>1. /\ IsFiniteSet(running[i]) /\ Cardinality(running[i]) <= NumWorkers
        /\ running'[i] \in SUBSET running[i]
    BY <1>2 DEF Workers
  <2>2. IsFiniteSet(running'[i]) /\ Cardinality(running'[i]) <= Cardinality(running[i])
    BY <2>1, FS_Subset
  <2>3. Cardinality(running[i]) \in Nat /\ Cardinality(running'[i]) \in Nat
    BY <2>1, <2>2, FS_CardinalityType
  <2> QED BY <2>1, <2>2, <2>3, ManagerAssumption
<1>4. Workers'
  BY <1>2, <1>3 DEF Workers
<1>5. running' \in [Instance -> SUBSET Log]
  BY <1>1
<1> QED BY <1>4, <1>5 DEF TypeOK, PassDone, electionVars, Workers

LEMMA StartTypes ==
    ASSUME TypeOK, NEW i \in Instance, StartRun(i) \/ StartRunFails(i)
    PROVE  TypeOK' /\ running' = running
<1>1. PICK logs \in SUBSET NewLogs(i) : StartRunners(i, logs)
  BY DEF StartRun, StartRunFails
<1>2. runner' \in [Instance -> [Log -> {"none", "campaign", "waiting", "master",
                                        "sending", "sent", "ended"}]]
  BY <1>1 DEF StartRunners, TypeOK
<1>3. failures' \in 0 .. MaxFailures
  BY ElectionAssumption DEF TypeOK, StartRun, StartRunFails, electionVars
<1>4. loop' \in [Instance -> {"start", "run", "failed", "drain", "join", "ended"}]
  BY DEF TypeOK, StartRun, StartRunFails, LoopGoto
<1>5. toProcess' \in [Instance -> SUBSET Log]
  BY DEF TypeOK, StartRun, StartRunFails
<1> QED
  BY <1>2, <1>3, <1>4, <1>5 DEF TypeOK, StartRun, StartRunFails, electionVars

LEMMA LoopTypes ==
    ASSUME TypeOK, NEW i \in Instance,
           \/ RunDone(i) \/ FailureHandled(i) \/ Sleep(i) \/ RunnersJoined(i)
    PROVE  TypeOK' /\ running' = running
<1>1. loop' \in [Instance -> {"start", "run", "failed", "drain", "join", "ended"}]
  BY DEF TypeOK, RunDone, FailureHandled, Sleep, RunnersJoined, LoopGoto
<1> QED
  BY <1>1 DEF TypeOK, RunDone, FailureHandled, Sleep, RunnersJoined, electionVars

LEMMA RunnerGotoType ==
    ASSUME TypeOK, NEW i \in Instance, NEW l \in Log,
           NEW label \in {"none", "campaign", "waiting", "master", "sending", "sent", "ended"},
           RunnerGoto(i, l, label)
    PROVE  runner' \in [Instance -> [Log -> {"none", "campaign", "waiting", "master",
                                             "sending", "sent", "ended"}]]
  BY DEF TypeOK, RunnerGoto

LEMMA ExecuteTypes ==
    ASSUME TypeOK, NEW i \in Instance, ExecuteResignation(i)
    PROVE  TypeOK' /\ running' = running
<1> DEFINE l == Head(pending[i])
<1>1. pending[i] \in Seq(Log) /\ pending[i] # << >>
  BY DEF TypeOK, ExecuteResignation
<1>2. l \in Log /\ Tail(pending[i]) \in Seq(Log)
  BY <1>1
<1>3. ElectionTypes'
  BY <1>2, TypeParts, ResignTypes DEF ExecuteResignation
<1>4. runner' \in [Instance -> [Log -> {"none", "campaign", "waiting", "master",
                                        "sending", "sent", "ended"}]]
  BY <1>2, RunnerGotoType DEF ExecuteResignation
<1>5. pending' \in [Instance -> Seq(Log)]
  BY <1>2 DEF TypeOK, ExecuteResignation
<1> QED BY <1>3, <1>4, <1>5 DEF TypeOK, ElectionTypes, ExecuteResignation
\* The steps of a runner: WaitFails and CheckFails may use up a failure.
RunnerAct(i, l) == RunnerStep(i, l) \/ WaitFails(i, l) \/ CheckFails(i, l)

LEMMA RunnerTypes ==
    ASSUME TypeOK, NEW i \in Instance, NEW l \in Log, RunnerAct(i, l)
    PROVE  TypeOK' /\ running' = running
<1>1. /\ active' = active /\ cancelled' = cancelled /\ loop' = loop
      /\ toProcess' = toProcess /\ running' = running
  BY DEF RunnerAct, RunnerStep, Campaign, WaitFails, Elected, Terminated, CheckFails,
         MastershipLost, QueueResignation, SendResignation, RunnerUnchanged
<1>2. ElectionTypes'
  <2>1. CASE Campaign(i, l)
    BY <2>1, TypeParts, JoinTypes DEF Campaign
  <2>2. CASE WaitFails(i, l)
    <3>1. failures' \in 0 .. MaxFailures
      BY <2>2, ElectionAssumption DEF TypeOK, WaitFails, JoinFails, CallFails
    <3> QED BY <2>2, <3>1, TypeParts, CloseTypes DEF WaitFails
  <2>3. CASE Terminated(i, l)
    <3>1. failures' \in 0 .. MaxFailures
      BY <2>3 DEF TypeOK, Terminated
    <3> QED BY <2>3, <3>1, TypeParts, CloseTypes DEF Terminated
  <2>4. CASE CheckFails(i, l)
    <3>1. failures' \in 0 .. MaxFailures
      BY <2>4, ElectionAssumption DEF TypeOK, CheckFails, CallFails
    <3> QED BY <2>4, <3>1 DEF TypeOK, ElectionTypes, CheckFails
  <2>5. CASE Elected(i, l) \/ MastershipLost(i, l) \/ QueueResignation(i, l) \/ SendResignation(i, l)
    BY <2>5 DEF TypeOK, ElectionTypes, Elected, MastershipLost, QueueResignation,
                SendResignation, electionVars
  <2> QED BY <2>1, <2>2, <2>3, <2>4, <2>5 DEF RunnerAct, RunnerStep
<1>3. PICK label \in {"none", "campaign", "waiting", "master", "sending", "sent", "ended"} :
          RunnerGoto(i, l, label)
  BY DEF RunnerAct, RunnerStep, Campaign, WaitFails, Elected, Terminated, CheckFails,
         MastershipLost, QueueResignation, SendResignation
<1>4. runner' \in [Instance -> [Log -> {"none", "campaign", "waiting", "master",
                                        "sending", "sent", "ended"}]]
  BY <1>3, RunnerGotoType
<1>5. tracker' \in [Instance -> SUBSET Log]
  <2>1. tracker' = tracker \/ SetMaster(i, l, TRUE) \/ SetMaster(i, l, FALSE)
    BY DEF RunnerAct, RunnerStep, Campaign, WaitFails, Elected, Terminated, CheckFails,
           MastershipLost, QueueResignation, SendResignation
  <2>2. SetMaster(i, l, TRUE) => tracker' = [tracker EXCEPT ![i] = @ \cup {l}]
    BY DEF SetMaster
  <2>3. SetMaster(i, l, FALSE) => tracker' = [tracker EXCEPT ![i] = @ \ {l}]
    BY DEF SetMaster
  <2>4. tracker \in [Instance -> SUBSET Log]
    BY DEF TypeOK
  <2>5. [tracker EXCEPT ![i] = @ \cup {l}] \in [Instance -> SUBSET Log]
    BY <2>4
  <2>6. [tracker EXCEPT ![i] = @ \ {l}] \in [Instance -> SUBSET Log]
    BY <2>4
  <2> QED BY <2>1, <2>2, <2>3, <2>4, <2>5, <2>6
<1>6. pending' \in [Instance -> Seq(Log)]
  <2>1. pending[i] \in Seq(Log) /\ Append(pending[i], l) \in Seq(Log)
    BY DEF TypeOK
  <2> QED BY <2>1 DEF TypeOK, RunnerAct, RunnerStep, Campaign, WaitFails, Elected,
         Terminated, CheckFails, MastershipLost, QueueResignation, SendResignation
<1> QED BY <1>1, <1>2, <1>4, <1>5, <1>6 DEF TypeOK, ElectionTypes

\* The world outside, and steps that change nothing.
Outside ==
    \/ CreateLog
    \/ \E i \in Instance, l \in Log : LeaseLapses(i, l)
    \/ \E i \in Instance : ToldToExit(i)

LEMMA OutsideTypes ==
    ASSUME TypeOK, Outside \/ UNCHANGED vars
    PROVE  TypeOK' /\ running' = running
<1>1. CASE CreateLog
  BY <1>1 DEF TypeOK, CreateLog, electionVars
<1>2. ASSUME NEW i \in Instance, NEW l \in Log, LeaseLapses(i, l)
      PROVE  TypeOK' /\ running' = running
  <2>1. ElectionTypes'
    BY <1>2, ElectionAssumption DEF TypeOK, ElectionTypes, LeaseLapses, Lapse
  <2> QED BY <1>2, <2>1 DEF TypeOK, ElectionTypes, LeaseLapses, managerVars
<1>3. ASSUME NEW i \in Instance, ToldToExit(i) PROVE TypeOK' /\ running' = running
  BY <1>3, ManagerAssumption DEF TypeOK, ToldToExit, electionVars
<1>4. CASE UNCHANGED vars
  BY <1>4 DEF TypeOK, vars, electionVars, managerVars
<1> QED BY <1>1, <1>2, <1>3, <1>4 DEF Outside

\* The disjuncts of Next.
LEMMA NextKinds ==
    ASSUME [Next]_vars
    PROVE  \/ \E i \in Instance : StartRun(i) \/ StartRunFails(i)
           \/ \E i \in Instance : TakeLog(i)
           \/ \E i \in Instance, l \in Log : PassDone(i, l)
           \/ \E i \in Instance : RunDone(i) \/ FailureHandled(i) \/ Sleep(i) \/ RunnersJoined(i)
           \/ \E i \in Instance : ExecuteResignation(i)
           \/ \E i \in Instance, l \in Log : RunnerAct(i, l)
           \/ Outside \/ UNCHANGED vars
  BY DEF Next, LoopStep, RunnerAct, Outside

LEMMA TypeNext ==
    ASSUME TypeOK, Workers, [Next]_vars
    PROVE  TypeOK' /\ Workers'
<1>1. ASSUME TypeOK', running' = running PROVE TypeOK' /\ Workers'
  BY <1>1 DEF Workers
<1> QED
  BY <1>1, NextKinds, StartTypes, TakeLogTypes, PassDoneTypes, LoopTypes, ExecuteTypes,
     RunnerTypes, OutsideTypes

-------------------------------------------------------------------------------
\* The resignations.

\* Everything but sending and executing a resignation leaves the channels alone, and
\* no runner begins or ceases to wait.
LEMMA ChannelKept ==
    ASSUME \A i \in Instance : ChannelExact(i), pending' = pending,
           \A i \in Instance, l \in Log : runner'[i][l] = "sent" <=> runner[i][l] = "sent"
    PROVE  \A i \in Instance : ChannelExact(i)'
  BY DEF ChannelExact

LEMMA OtherChannels ==
    ASSUME \A j \in Instance : ChannelExact(j), NEW i \in Instance, ChannelExact(i)',
           \A j \in Instance \ {i} : pending'[j] = pending[j] /\ runner'[j] = runner[j]
    PROVE  \A j \in Instance : ChannelExact(j)'
<1>1. ASSUME NEW j \in Instance \ {i} PROVE ChannelExact(j)'
  <2>1. ChannelExact(j) /\ pending'[j] = pending[j] /\ runner'[j] = runner[j]
    OBVIOUS
  <2> QED BY <2>1 DEF ChannelExact
<1> QED BY <1>1

LEMMA SendChannel ==
    ASSUME TypeOK, \A j \in Instance : ChannelExact(j),
           NEW i \in Instance, NEW l \in Log, SendResignation(i, l)
    PROVE  \A j \in Instance : ChannelExact(j)'
<1>1. /\ pending[i] \in Seq(Log) /\ Len(pending[i]) \in Nat
      /\ pending'[i] = Append(pending[i], l) /\ runner[i][l] = "sending"
  BY DEF TypeOK, SendResignation
<1>2. /\ runner'[i][l] = "sent" /\ \A m \in Log \ {l} : runner'[i][m] = runner[i][m]
      /\ \A j \in Instance \ {i} : pending'[j] = pending[j] /\ runner'[j] = runner[j]
  BY DEF TypeOK, SendResignation, RunnerGoto
<1> DEFINE n == Len(pending[i])
<1>3. /\ Len(pending'[i]) = n + 1 /\ pending'[i][n + 1] = l
      /\ \A k \in 1 .. n : pending'[i][k] = pending[i][k]
  BY <1>1
<1>4. \A k \in 1 .. n : pending[i][k] # l
  BY <1>1 DEF ChannelExact
<1>5. ChannelExact(i)'
  <2>1. \A k, m \in 1 .. n + 1 : pending'[i][k] = pending'[i][m] => k = m
    BY <1>1, <1>3, <1>4 DEF ChannelExact
  <2>2. \A m \in Log : runner'[i][m] = "sent" <=> \E k \in 1 .. n + 1 : pending'[i][k] = m
    <3>1. ASSUME NEW m \in Log \ {l}
          PROVE  runner'[i][m] = "sent" <=> \E k \in 1 .. n + 1 : pending'[i][k] = m
      BY <1>1, <1>2, <1>3 DEF ChannelExact
    <3> QED BY <1>1, <1>2, <1>3, <3>1
  <2> QED BY <1>3, <2>1, <2>2 DEF ChannelExact
<1> QED BY <1>2, <1>5, OtherChannels

LEMMA ExecuteChannel ==
    ASSUME TypeOK, \A j \in Instance : ChannelExact(j), NEW i \in Instance, ExecuteResignation(i)
    PROVE  \A j \in Instance : ChannelExact(j)'
<1> DEFINE l == Head(pending[i])
           n == Len(pending[i])
<1>1. /\ pending[i] \in Seq(Log) /\ pending[i] # << >> /\ n \in Nat \ {0}
      /\ pending'[i] = Tail(pending[i]) /\ l = pending[i][1] /\ l \in Log
  BY DEF TypeOK, ExecuteResignation
<1>2. /\ runner'[i][l] = "campaign" /\ \A m \in Log \ {l} : runner'[i][m] = runner[i][m]
      /\ \A j \in Instance \ {i} : pending'[j] = pending[j] /\ runner'[j] = runner[j]
  BY <1>1 DEF TypeOK, ExecuteResignation, RunnerGoto
<1>3. /\ Len(pending'[i]) = n - 1
      /\ \A k \in 1 .. n - 1 : pending'[i][k] = pending[i][k + 1]
  BY <1>1
<1>4. ChannelExact(i)
  OBVIOUS
<1> HIDE DEF l, n
<1>5. ChannelExact(i)'
  <2>1. ASSUME NEW k \in 1 .. n - 1, NEW m \in 1 .. n - 1, pending'[i][k] = pending'[i][m]
        PROVE  k = m
    <3>1. k + 1 \in 1 .. n /\ m + 1 \in 1 .. n /\ pending[i][k + 1] = pending[i][m + 1]
      BY <1>1, <1>3, <2>1
    <3>2. k + 1 = m + 1
      BY <1>4, <3>1 DEF ChannelExact, n
    <3> QED BY <1>1, <3>2
  <2>2. \A k \in 1 .. n - 1 : pending'[i][k] # l
    BY <1>1, <1>3, <1>4 DEF ChannelExact, n
  <2>3. ASSUME NEW m \in Log \ {l}
        PROVE  runner[i][m] = "sent" <=> \E k \in 1 .. n - 1 : pending'[i][k] = m
    <3>1. ASSUME NEW k \in 1 .. n, pending[i][k] = m PROVE \E j \in 1 .. n - 1 : pending'[i][j] = m
      <4>1. k # 1
        BY <1>1, <3>1
      <4>2. k - 1 \in 1 .. n - 1 /\ (k - 1) + 1 = k
        BY <1>1, <4>1
      <4>3. pending'[i][k - 1] = m
        BY <1>3, <3>1, <4>2
      <4> QED BY <4>2, <4>3
    <3>2. ASSUME NEW k \in 1 .. n - 1, pending'[i][k] = m PROVE \E j \in 1 .. n : pending[i][j] = m
      BY <1>1, <1>3, <3>2
    <3> QED BY <1>4, <3>1, <3>2 DEF ChannelExact, n
  <2> QED BY <1>2, <1>3, <2>1, <2>2, <2>3 DEF ChannelExact
<1> QED BY <1>2, <1>5, OtherChannels

LEMMA ChannelNext ==
    ASSUME TypeOK, \A j \in Instance : ChannelExact(j), [Next]_vars
    PROVE  \A j \in Instance : ChannelExact(j)'
<1>1. ASSUME NEW i \in Instance, StartRun(i) \/ StartRunFails(i)
      PROVE  \A j \in Instance : ChannelExact(j)'
  <2>1. PICK logs \in SUBSET NewLogs(i) : StartRunners(i, logs)
    BY <1>1 DEF StartRun, StartRunFails
  <2>2. \A j \in Instance, l \in Log : runner'[j][l] = "sent" <=> runner[j][l] = "sent"
    BY <2>1 DEF StartRunners, NewLogs, TypeOK
  <2>3. pending' = pending
    BY <1>1 DEF StartRun, StartRunFails
  <2> QED BY <2>2, <2>3, ChannelKept
<1>2. ASSUME UNCHANGED <<pending, runner>> PROVE \A j \in Instance : ChannelExact(j)'
  BY <1>2, ChannelKept
<1>3. ASSUME NEW i \in Instance, NEW l \in Log, RunnerAct(i, l), ~SendResignation(i, l)
      PROVE  \A j \in Instance : ChannelExact(j)'
  <2>1. pending' = pending
    BY <1>3 DEF RunnerAct, RunnerStep, Campaign, WaitFails, Elected, Terminated, CheckFails,
                MastershipLost, QueueResignation
  <2>2. runner[i][l] # "sent" /\ \E label \in {"campaign", "waiting", "master", "sending", "ended"} :
            RunnerGoto(i, l, label)
    BY <1>3 DEF RunnerAct, RunnerStep, Campaign, WaitFails, Elected, Terminated, CheckFails,
                MastershipLost, QueueResignation
  <2>3. \A j \in Instance, m \in Log : runner'[j][m] = "sent" <=> runner[j][m] = "sent"
    BY <2>2 DEF RunnerGoto, TypeOK
  <2> QED BY <2>1, <2>3, ChannelKept
<1>4. ASSUME \/ \E i \in Instance : TakeLog(i)
             \/ \E i \in Instance, l \in Log : PassDone(i, l)
             \/ \E i \in Instance : RunDone(i) \/ FailureHandled(i) \/ Sleep(i) \/ RunnersJoined(i)
             \/ Outside \/ UNCHANGED vars
      PROVE  UNCHANGED <<pending, runner>>
  BY <1>4 DEF TakeLog, PassDone, RunDone, FailureHandled, Sleep, RunnersJoined, Outside,
       CreateLog, LeaseLapses, ToldToExit, vars, managerVars
<1> QED BY <1>1, <1>2, <1>3, <1>4, NextKinds, SendChannel, ExecuteChannel
-------------------------------------------------------------------------------
\* Who works on a log.

\* Failures and cancellations are not undone.
LEMMA StaysDisturbed ==
    ASSUME TypeOK, [Next]_vars, Undisturbed'
    PROVE  Undisturbed
<1> DEFINE Monotone == /\ cancelled' = cancelled \/ \E i \in Instance : ToldToExit(i)
                       /\ failures' = failures \/ failures' = failures + 1
<1>1. ASSUME NEW i \in Instance, StartRun(i) \/ StartRunFails(i) PROVE Monotone
  BY <1>1 DEF StartRun, StartRunFails, electionVars
<1>2. ASSUME NEW i \in Instance, TakeLog(i) PROVE Monotone
  BY <1>2 DEF TakeLog, electionVars
<1>3. ASSUME NEW i \in Instance, NEW l \in Log, PassDone(i, l) PROVE Monotone
  BY <1>3 DEF PassDone, electionVars
<1>4. ASSUME NEW i \in Instance, RunDone(i) \/ FailureHandled(i) \/ Sleep(i) \/ RunnersJoined(i)
      PROVE  Monotone
  BY <1>4 DEF RunDone, FailureHandled, Sleep, RunnersJoined, electionVars
<1>5. ASSUME NEW i \in Instance, ExecuteResignation(i) PROVE Monotone
  BY <1>5 DEF ExecuteResignation, ResignAndRestart, CallFails
<1>6. ASSUME NEW i \in Instance, NEW l \in Log, RunnerAct(i, l) PROVE Monotone
  <2>1. CASE Campaign(i, l)
    BY <2>1 DEF Campaign, JoinElection, RunnerUnchanged
  <2>2. CASE WaitFails(i, l) \/ CheckFails(i, l)
    BY <2>2 DEF WaitFails, CheckFails, CallFails, JoinFails, RunnerUnchanged
  <2>3. CASE Elected(i, l) \/ Terminated(i, l) \/ MastershipLost(i, l)
    BY <2>3 DEF Elected, Terminated, MastershipLost, electionVars, RunnerUnchanged
  <2>4. CASE QueueResignation(i, l) \/ SendResignation(i, l)
    BY <2>4 DEF QueueResignation, SendResignation, electionVars, RunnerUnchanged
  <2> QED BY <1>6, <2>1, <2>2, <2>3, <2>4 DEF RunnerAct, RunnerStep
<1>7. ASSUME Outside PROVE Monotone
  <2>1. ASSUME CreateLog PROVE Monotone
    BY <2>1 DEF CreateLog, electionVars
  <2>2. ASSUME NEW i \in Instance, NEW l \in Log, LeaseLapses(i, l) PROVE Monotone
    BY <2>2 DEF LeaseLapses, Lapse, managerVars
  <2>3. ASSUME NEW i \in Instance, ToldToExit(i) PROVE Monotone
    BY <2>3 DEF ToldToExit, electionVars
  <2> QED BY <1>7, <2>1, <2>2, <2>3 DEF Outside
<1>8. ASSUME UNCHANGED vars PROVE Monotone
  BY <1>8 DEF vars, electionVars, managerVars
<1>9. Monotone
  <2> HIDE DEF Monotone
  <2> QED BY <1>1, <1>2, <1>3, <1>4, <1>5, <1>6, <1>7, <1>8, NextKinds
<1>10. cancelled \subseteq cancelled'
  BY <1>9 DEF ToldToExit
<1>11. failures \in Nat
  BY ElectionAssumption DEF TypeOK
<1> QED BY <1>9, <1>10, <1>11 DEF Undisturbed

\* Somebody who leads an election whose leases are all alive is its leader.
LEMMA LeadsIsLeader ==
    ASSUME TypeOK, NEW i \in Instance, NEW l \in Log, lapsed[l] = {}, Leads(i, l)
    PROVE  HasLeader(l) /\ IsLeader(i, l)
<1>1. candidates[l] \in Seq(Instance) /\ candidates[l] # << >>
  BY DEF TypeOK, Leads
<1>2. Len(candidates[l]) \in Nat \ {0} /\ Live(l) = 1 .. Len(candidates[l])
  BY <1>1, EmptySeq DEF Live
<1>3. 1 \in Live(l) /\ candidates[l][1] = i /\ \A j \in Live(l) : 1 <= j
  BY <1>2 DEF Leads
<1> QED BY <1>3 DEF HasLeader, IsLeader

\* What holds of an instance and a log is kept by steps of others that leave the
\* first key alone.
LEMMA HoldFrame ==
    ASSUME NEW j, NEW m, HoldInv(j, m), runner'[j][m] = runner[j][m],
           m \in tracker'[j] => m \in tracker[j], loop'[j] = loop[j],
           WorksOn(j, m)' => WorksOn(j, m), Leads(j, m) => Leads(j, m)'
    PROVE  HoldInv(j, m)'
  BY DEF HoldInv

\* A step of the loop that neither starts a run nor touches the election.
LEMMA LoopCalm ==
    ASSUME TypeOK, NEW i \in Instance, \A j \in Instance, m \in Log : HoldInv(j, m),
           \/ TakeLog(i)
           \/ \E l \in Log : PassDone(i, l)
           \/ RunDone(i) \/ Sleep(i) \/ RunnersJoined(i)
    PROVE  \A j \in Instance, m \in Log : HoldInv(j, m)'
<1>1. /\ candidates' = candidates /\ runner' = runner /\ tracker' = tracker
      /\ \A j \in Instance \ {i} : /\ loop'[j] = loop[j] /\ toProcess'[j] = toProcess[j]
                                   /\ running'[j] = running[j]
  BY DEF TypeOK, TakeLog, PassDone, RunDone, Sleep, RunnersJoined, LoopGoto, electionVars
<1>2. ASSUME NEW j \in Instance, NEW m \in Log PROVE Leads(j, m) => Leads(j, m)'
  BY <1>1 DEF Leads
<1>3. ASSUME NEW j \in Instance \ {i}, NEW m \in Log PROVE HoldInv(j, m)'
  BY <1>1, <1>2, HoldFrame DEF WorksOn
<1>4. CASE TakeLog(i) \/ \E l \in Log : PassDone(i, l)
  <2>1. loop' = loop /\ toProcess'[i] \cup running'[i] \subseteq toProcess[i] \cup running[i]
    BY <1>4 DEF TypeOK, TakeLog, PassDone
  <2>2. ASSUME NEW m \in Log PROVE HoldInv(i, m)'
    BY <1>1, <1>2, <2>1, HoldFrame DEF WorksOn
  <2> QED BY <1>3, <2>2
<1>5. CASE RunDone(i) \/ Sleep(i) \/ RunnersJoined(i)
  <2>1. /\ toProcess' = toProcess /\ running' = running
        /\ \/ loop[i] # "run"
           \/ toProcess[i] = {} /\ running[i] = {}
    BY <1>5 DEF RunDone, Sleep, RunnersJoined
  <2>2. ASSUME NEW m \in Log PROVE HoldInv(i, m)'
    <3>1. HoldInv(i, m) /\ ~WorksOn(i, m) /\ ~WorksOn(i, m)'
      BY <2>1 DEF WorksOn, HoldInv
    <3> QED BY <1>1, <1>2, <3>1 DEF HoldInv
  <2> QED BY <1>3, <2>2
<1> QED BY <1>4, <1>5

\* A run begins with the logs that the tracker knows, which are held.
LEMMA StartCalm ==
    ASSUME TypeOK, NEW i \in Instance, \A j \in Instance, m \in Log : HoldInv(j, m), StartRun(i)
    PROVE  \A j \in Instance, m \in Log : HoldInv(j, m)'
<1>1. /\ candidates' = candidates /\ tracker' = tracker /\ running' = running
      /\ \A j \in Instance \ {i} : /\ loop'[j] = loop[j] /\ toProcess'[j] = toProcess[j]
                                   /\ runner'[j] = runner[j]
      /\ loop[i] = "start" /\ loop'[i] = "run" /\ toProcess'[i] = tracker[i]
  BY DEF TypeOK, StartRun, LoopGoto, StartRunners, electionVars
<1>2. \A m \in Log : \/ runner'[i][m] = runner[i][m]
                     \/ runner[i][m] = "none" /\ runner'[i][m] = "campaign"
  BY DEF TypeOK, StartRun, StartRunners, NewLogs
<1>3. ASSUME NEW j \in Instance, NEW m \in Log PROVE Leads(j, m) => Leads(j, m)'
  BY <1>1 DEF Leads
<1>4. ASSUME NEW j \in Instance \ {i}, NEW m \in Log PROVE HoldInv(j, m)'
  BY <1>1, <1>3, HoldFrame DEF WorksOn
<1>5. ASSUME NEW m \in Log PROVE HoldInv(i, m)'
  <2>1. HoldInv(i, m) /\ m \notin running[i]
    BY <1>1 DEF HoldInv, WorksOn
  <2>2. WorksOn(i, m)' => m \in tracker[i]
    BY <1>1, <2>1 DEF WorksOn
  <2> QED BY <1>1, <1>2, <1>3, <2>1, <2>2 DEF HoldInv, Holding
<1> QED BY <1>4, <1>5

\* A resignation is executed when the instance works on nothing.
LEMMA ExecuteCalm ==
    ASSUME TypeOK, NEW i \in Instance, ChannelExact(i),
           \A j \in Instance, m \in Log : HoldInv(j, m), ExecuteResignation(i)
    PROVE  \A j \in Instance, m \in Log : HoldInv(j, m)'
<1>1. PICK l \in Log : l = Head(pending[i]) /\ runner[i][l] = "sent"
  <2>1. pending[i] \in Seq(Log) /\ pending[i] # << >>
    BY DEF TypeOK, ExecuteResignation
  <2>2. /\ Head(pending[i]) = pending[i][1] /\ 1 \in 1 .. Len(pending[i])
        /\ Head(pending[i]) \in Log
    BY <2>1
  <2>3. runner[i][Head(pending[i])] = "sent"
    BY <2>2 DEF ChannelExact
  <2> QED BY <2>2, <2>3
<1>2. /\ tracker' = tracker /\ running' = running /\ toProcess' = toProcess /\ loop' = loop
      /\ loop[i] = "drain" /\ runner'[i][l] = "campaign"
      /\ \A j \in Instance, m \in Log : <<j, m>> # <<i, l>> => runner'[j][m] = runner[j][m]
      /\ \A m \in Log \ {l} : candidates'[m] = candidates[m]
  BY <1>1 DEF TypeOK, ExecuteResignation, RunnerGoto, ResignAndRestart
<1>3. Leads(i, l) /\ l \notin tracker[i]
  BY <1>1 DEF HoldInv, Holding
<1>4. ASSUME NEW j \in Instance, NEW m \in Log \ {l} PROVE HoldInv(j, m)'
  <2>1. Leads(j, m) => Leads(j, m)'
    BY <1>2 DEF Leads
  <2> QED BY <1>2, <2>1, HoldFrame DEF WorksOn
<1>5. ASSUME NEW j \in Instance \ {i} PROVE HoldInv(j, l)'
  <2>1. HoldInv(j, l) /\ ~Leads(j, l)
    BY <1>1, <1>3 DEF Leads
  <2> QED BY <1>1, <1>2, <2>1, HoldFrame DEF WorksOn
<1>6. HoldInv(i, l)'
  <2>1. ~WorksOn(i, l)
    BY <1>1, <1>2 DEF HoldInv
  <2> QED BY <1>2, <1>3, <2>1 DEF HoldInv, WorksOn, Holding
<1> QED BY <1>4, <1>5, <1>6
\* The steps of a runner.  The failures among them cannot happen while nothing is
\* disturbed: a runner that holds a log leads its election.
LEMMA RunnerCalm ==
    ASSUME TypeOK, NEW i \in Instance, NEW l \in Log,
           \A j \in Instance, m \in Log : HoldInv(j, m),
           Undisturbed, Undisturbed', closed = {}, lapsed[l] = {}, RunnerAct(i, l)
    PROVE  /\ \A j \in Instance, m \in Log : HoldInv(j, m)'
           /\ closed' = closed /\ lapsed' = lapsed
<1>1. /\ cancelled = {} /\ failures = 0 /\ failures' = 0
      /\ running' = running /\ toProcess' = toProcess /\ loop' = loop
  BY DEF Undisturbed, RunnerAct, RunnerStep, Campaign, WaitFails, Elected, Terminated,
         CheckFails, MastershipLost, QueueResignation, SendResignation, RunnerUnchanged
<1>2. ~CallFails(i)
  BY <1>1 DEF CallFails
<1>3. runner[i][l] = "master" => HasLeader(l) /\ IsLeader(i, l)
  <2>1. runner[i][l] = "master" => Leads(i, l)
    BY DEF HoldInv, Holding
  <2> QED BY <2>1, LeadsIsLeader
<1>4. ~WaitFails(i, l) /\ ~Terminated(i, l) /\ ~CheckFails(i, l) /\ ~MastershipLost(i, l)
  BY <1>1, <1>2, <1>3 DEF WaitFails, JoinFails, Terminated, CheckFails, MastershipLost
<1>5. \/ Campaign(i, l) \/ Elected(i, l) \/ QueueResignation(i, l) \/ SendResignation(i, l)
  BY <1>4 DEF RunnerAct, RunnerStep
<1>6. closed' = closed /\ lapsed' = lapsed
  BY <1>5 DEF Campaign, JoinElection, Elected, QueueResignation, SendResignation, electionVars
<1>7. /\ \A j \in Instance, m \in Log : <<j, m>> # <<i, l>> => runner'[j][m] = runner[j][m]
      /\ \A j \in Instance \ {i} : tracker'[j] = tracker[j]
  BY <1>5 DEF TypeOK, Campaign, Elected, QueueResignation, SendResignation, RunnerGoto, SetMaster
<1>8. \A m \in Log \ {l} : m \in tracker'[i] => m \in tracker[i]
  BY <1>5 DEF TypeOK, Campaign, Elected, QueueResignation, SendResignation, SetMaster
<1>9. ASSUME NEW j \in Instance, NEW m \in Log PROVE Leads(j, m) => Leads(j, m)'
  <2>1. CASE candidates' = candidates
    BY <2>1 DEF Leads
  <2>2. CASE Campaign(i, l)
    <3>1. candidates[l] \in Seq(Instance) /\ candidates[m] \in Seq(Instance)
      BY DEF TypeOK
    <3>2. candidates'[m] \in {candidates[m], Append(candidates[m], i)}
      BY <2>2 DEF TypeOK, Campaign, JoinElection
    <3>3. candidates[m] # << >> => /\ Append(candidates[m], i) # << >>
                                   /\ Append(candidates[m], i)[1] = candidates[m][1]
      BY <3>1
    <3> QED BY <3>2, <3>3 DEF Leads
  <2> QED
    BY <1>5, <2>1, <2>2 DEF Elected, QueueResignation, SendResignation, electionVars
<1>10. ASSUME NEW j \in Instance, NEW m \in Log, <<j, m>> # <<i, l>> PROVE HoldInv(j, m)'
  <2>1. m \in tracker'[j] => m \in tracker[j]
    BY <1>7, <1>8, <1>10
  <2> QED BY <1>1, <1>7, <1>9, <1>10, <2>1, HoldFrame DEF WorksOn
<1>11. HoldInv(i, l)'
  <2>1. HoldInv(i, l) /\ (WorksOn(i, l)' <=> WorksOn(i, l))
    BY <1>1 DEF WorksOn
  <2>2. CASE Campaign(i, l)
    <3>1. runner[i][l] = "campaign" /\ runner'[i][l] = "waiting" /\ tracker' = tracker
      BY <2>2 DEF TypeOK, Campaign, RunnerGoto
    <3> QED BY <1>1, <2>1, <3>1 DEF HoldInv, Holding
  <2>3. CASE Elected(i, l)
    <3>1. runner[i][l] = "waiting" /\ runner'[i][l] = "master" /\ candidates' = candidates
      BY <2>3 DEF TypeOK, Elected, RunnerGoto, electionVars
    <3>2. Leads(i, l)
      <4>1. candidates[l] \in Seq(Instance)
        BY DEF TypeOK
      <4>2. PICK k \in 1 .. Len(candidates[l]) :
                candidates[l][k] = i /\ \A j \in 1 .. k - 1 : candidates[l][j] \in lapsed[l]
        BY <2>3 DEF Elected, CampaignWon
      <4>3. k = 1 /\ candidates[l] # << >>
        BY <4>1, <4>2
      <4> QED BY <4>2, <4>3 DEF Leads
    <3> QED BY <1>1, <1>9, <2>1, <3>1, <3>2 DEF HoldInv, Holding
  <2>4. CASE QueueResignation(i, l)
    <3>1. /\ runner[i][l] = "master" /\ runner'[i][l] = "sending"
          /\ l \notin tracker'[i]
      BY <2>4 DEF TypeOK, QueueResignation, RunnerGoto, SetMaster
    <3> QED BY <1>1, <1>9, <2>1, <3>1 DEF HoldInv, Holding
  <2>5. CASE SendResignation(i, l)
    <3>1. runner[i][l] = "sending" /\ runner'[i][l] = "sent" /\ tracker' = tracker
      BY <2>5 DEF TypeOK, SendResignation, RunnerGoto
    <3> QED BY <1>1, <1>9, <2>1, <3>1 DEF HoldInv, Holding
  <2> QED BY <1>5, <2>2, <2>3, <2>4, <2>5
<1> QED BY <1>6, <1>10, <1>11

LEMMA CalmNext ==
    ASSUME TypeOK, ResignInv, CalmInv, [Next]_vars
    PROVE  CalmInv'
<1> SUFFICES ASSUME Undisturbed'
             PROVE  /\ closed' = {} /\ \A l \in Log : lapsed'[l] = {}
                    /\ \A j \in Instance, m \in Log : HoldInv(j, m)'
  BY DEF CalmInv
<1>1. /\ Undisturbed /\ closed = {} /\ \A l \in Log : lapsed[l] = {}
      /\ \A j \in Instance, m \in Log : HoldInv(j, m)
  BY StaysDisturbed DEF CalmInv
<1>2. cancelled = {} /\ cancelled' = {} /\ failures = 0 /\ failures' = 0
  BY <1>1 DEF Undisturbed
<1>3. ASSUME NEW i \in Instance
      PROVE  /\ ~StartRunFails(i) /\ ~FailureHandled(i) /\ ~ToldToExit(i) /\ ~CallFails(i)
             /\ \A l \in Log : ~LeaseLapses(i, l)
  BY <1>1, <1>2 DEF StartRunFails, FailureHandled, ToldToExit, CallFails, LeaseLapses, Lapse
<1>4. ASSUME NEW i \in Instance, StartRun(i)
      PROVE  closed' = closed /\ lapsed' = lapsed /\ \A j \in Instance, m \in Log : HoldInv(j, m)'
  BY <1>1, <1>4, StartCalm DEF StartRun, electionVars
<1>5. ASSUME NEW i \in Instance,
             \/ TakeLog(i) \/ (\E l \in Log : PassDone(i, l))
             \/ RunDone(i) \/ Sleep(i) \/ RunnersJoined(i)
      PROVE  closed' = closed /\ lapsed' = lapsed /\ \A j \in Instance, m \in Log : HoldInv(j, m)'
  <2>1. closed' = closed /\ lapsed' = lapsed
    BY <1>5 DEF TakeLog, PassDone, RunDone, Sleep, RunnersJoined, electionVars
  <2> QED BY <1>1, <1>5, <2>1, LoopCalm
<1>6. ASSUME NEW i \in Instance, ExecuteResignation(i)
      PROVE  closed' = closed /\ lapsed' = lapsed /\ \A j \in Instance, m \in Log : HoldInv(j, m)'
  <2>1. closed' = closed /\ lapsed' = lapsed
    BY <1>6 DEF ExecuteResignation, ResignAndRestart
  <2>2. ChannelExact(i)
    BY DEF ResignInv
  <2> QED BY <1>1, <1>6, <2>1, <2>2, ExecuteCalm
<1>7. ASSUME NEW i \in Instance, NEW l \in Log, RunnerAct(i, l)
      PROVE  closed' = closed /\ lapsed' = lapsed /\ \A j \in Instance, m \in Log : HoldInv(j, m)'
  BY <1>1, <1>7, RunnerCalm
<1>8. ASSUME CreateLog \/ UNCHANGED vars
      PROVE  closed' = closed /\ lapsed' = lapsed /\ \A j \in Instance, m \in Log : HoldInv(j, m)'
  BY <1>1, <1>8 DEF CreateLog, vars, electionVars, managerVars, HoldInv, Leads, WorksOn
<1> QED BY <1>1, <1>3, <1>4, <1>5, <1>6, <1>7, <1>8, NextKinds DEF Outside

-------------------------------------------------------------------------------
\* The theorems.

LEMMA ManagerInit == Init => ManagerInv
<1> SUFFICES ASSUME Init PROVE ManagerInv
  OBVIOUS
<1>1. TypeOK
  <2>1. Cardinality({}) <= NumWorkers
    BY FS_EmptySet, ManagerAssumption
  <2>2. << >> \in Seq(Instance) /\ << >> \in Seq(Log)
    OBVIOUS
  <2> QED BY <2>1, <2>2, ElectionAssumption DEF Init, ElectionInit, TypeOK
<1>2. ResignInv
  <2>1. ASSUME NEW i \in Instance PROVE IsFiniteSet(running[i]) /\ ChannelExact(i)
    <3>1. /\ running[i] = {} /\ Len(pending[i]) = 0
          /\ \A l \in Log : runner[i][l] = "none"
      BY DEF Init
    <3> QED BY <3>1, FS_EmptySet DEF ChannelExact
  <2> QED BY <2>1 DEF ResignInv
<1>3. CalmInv
  BY DEF Init, ElectionInit, CalmInv, HoldInv, WorksOn, Holding
<1> QED BY <1>1, <1>2, <1>3 DEF ManagerInv

\* The inductive invariant of the signer processes holds in every behaviour.
THEOREM ManagerInvariance == Spec => []ManagerInv
<1>1. ManagerInv /\ [Next]_vars => ManagerInv'
  <2> SUFFICES ASSUME ManagerInv, [Next]_vars PROVE ManagerInv'
    OBVIOUS
  <2>1. TypeOK /\ ResignInv /\ CalmInv /\ Workers
    BY DEF ManagerInv, ResignInv, Workers, TypeOK
  <2>2. TypeOK' /\ Workers'
    BY <2>1, TypeNext
  <2>3. \A j \in Instance : ChannelExact(j)'
    BY <2>1, ChannelNext DEF ResignInv
  <2>4. CalmInv'
    BY <2>1, CalmNext
  <2> QED BY <2>2, <2>3, <2>4 DEF ManagerInv, ResignInv, Workers
<1> QED BY <1>1, ManagerInit, PTL DEF Spec

\* No two signer processes work on a log at the same time as long as etcd works and
\* nobody is stopped, for any number of processes, logs and workers: resignations are
\* executed between runs only (server/log_operation_manager.go, OperationLoop).
THEOREM AlwaysOneSigner == Spec => []OneSignerPerLog
<1>1. ManagerInv => OneSignerPerLog
  BY DEF ManagerInv, CalmInv, HoldInv, Leads, OneSignerPerLog
<1> QED BY <1>1, ManagerInvariance, PTL

\* Every resignation that a runner waits for is in the channel exactly once and the
\* channel holds nothing else, whatever fails and whoever is told to exit
\* (electionRunner's done channel and pendingResignations).
THEOREM ResignationsAlwaysMatch == Spec => []ResignationsMatch
<1>1. ManagerInv => ResignationsMatch
  <2> SUFFICES ASSUME ManagerInv, NEW i \in Instance, NEW l \in Log
               PROVE  Cardinality({k \in 1 .. Len(pending[i]) : pending[i][k] = l})
                          = IF runner[i][l] = "sent" THEN 1 ELSE 0
    BY DEF ManagerInv, ResignationsMatch
  <2> DEFINE places == {k \in 1 .. Len(pending[i]) : pending[i][k] = l}
  <2>1. ChannelExact(i)
    BY DEF ManagerInv, ResignInv
  <2>2. CASE runner[i][l] = "sent"
    <3>1. PICK k \in 1 .. Len(pending[i]) : pending[i][k] = l
      BY <2>1, <2>2 DEF ChannelExact
    <3>2. places = {k}
      BY <2>1, <3>1 DEF ChannelExact
    <3> QED BY <2>2, <3>2, FS_Singleton
  <2>3. CASE runner[i][l] # "sent"
    <3>1. places = {}
      BY <2>1, <2>3 DEF ChannelExact
    <3> QED BY <2>3, <3>1, FS_EmptySet
  <2> QED BY <2>2, <2>3
<1> QED BY <1>1, ManagerInvariance, PTL

===============================================================================
