---------------------------- MODULE Scheduler_proofs ----------------------------
(*****************************************************************************)
(* Proofs about Scheduler, for any number of cells, workers, retries, faults *)
(* and launches.  The first part assumes nothing of the schedule; the second *)
(* that distinct cells have distinct run directories and that the experiment *)
(* is launched with resume.                                                  *)
(*****************************************************************************)
EXTENDS Scheduler, TLAPS

\* Two entries of the schedule never share a run directory.
DistinctRunDirs == \A b, c \in Cells : DirOf[b] = DirOf[c] => b = c

\* Appending to the streams makes a run directory of a run directory.
LEMMA DiskAppended == \A d \in Disk : Appended(d) \in Disk
  <1> SUFFICES ASSUME NEW d \in Disk
               PROVE  Appended(d) \in Disk
    OBVIOUS
  <1>1. (IF d.logged = 2 THEN 2 ELSE d.logged + 1) \in 0..2
    BY DEF Disk
  <1> QED
    BY <1>1 DEF Disk, Appended

\* What the writers of RunDirectory make of a run directory is one.
LEMMA DiskWriters ==
    ASSUME NEW d \in Disk, NEW p \in Artifact, NEW fate \in {"valid", "infra"},
           NEW torn \in BOOLEAN
    PROVE  /\ Created(d) \in Disk
           /\ Appended(d) \in Disk
           /\ AppendCut(d, torn) \in Disk
           /\ StatusWritten(d) \in Disk
           /\ PatchWritten(d, p) \in Disk
           /\ [d EXCEPT !.report = p] \in Disk
           /\ EvalWritten(d, p) \in Disk
           /\ CardOpened(d) \in Disk
           /\ CardWritten(d, fate) \in Disk
  <1>1. /\ Created(d) \in Disk
        /\ StatusWritten(d) \in Disk
    BY DEF Disk, Created, StatusWritten
  <1>2. /\ PatchWritten(d, p) \in Disk
        /\ [d EXCEPT !.report = p] \in Disk
        /\ EvalWritten(d, p) \in Disk
    BY DEF Disk, PatchWritten, EvalWritten
  <1>3. CardOpened(d) \in Disk /\ CardWritten(d, fate) \in Disk
    BY DEF Disk, CardOpened, CardWritten
  <1>4. Appended(d) \in Disk
    BY DiskAppended
  <1>5. ASSUME NEW e \in Disk
        PROVE  [e EXCEPT !.torn = @ \/ torn] \in Disk
    <2>1. (e.torn \/ torn) \in BOOLEAN
      BY DEF Disk
    <2> QED
      BY <2>1 DEF Disk
  <1>6. AppendCut(d, torn) \in Disk
    BY <1>4, <1>5 DEF AppendCut
  <1> QED
    BY <1>1, <1>2, <1>3, <1>4, <1>6

\* The initial state is well typed.
LEMMA InitType == Init => TypeOK
  BY DirOfAssumption, SchedulerAssumption, MaxFaultsAssumption
  DEF Init, PipeInit, TypeOK, EmptyDisk, Disk, Artifact, Stage, RunStage, InfraStage, Row

\* A stage of a run keeps the types.
LEMMA RunType ==
    ASSUME TypeOK, NEW c \in Cells, Run(c)
    PROVE  TypeOK'
  <1>d. DirOf[c] \in Dirs /\ dsk(c) \in Disk
    BY DirOfAssumption DEF TypeOK, dsk
  <1>a. /\ cand[c] \in Artifact /\ verdict[c] \in Artifact
        /\ dsk(c).report \in Artifact /\ Empty \in Artifact
    BY <1>d DEF TypeOK, Disk, Artifact
  <1> USE DEF Run, TypeOK, Goto, Put, NoFault, Fault, localVars, schedVars, Stage, RunStage, InfraStage
  <1>1. CASE StartWorkspace(c)
    BY <1>1 DEF StartWorkspace
  <1>2. CASE S0Snapshot(c)
    BY <1>2, MaxFaultsAssumption DEF S0Snapshot, CleanSnapshot, UncleanSnapshot
  <1>3. CASE Setup(c)
    BY <1>3 DEF Setup
  <1>4. CASE S1Snapshot(c)
    BY <1>4, MaxFaultsAssumption DEF S1Snapshot, CleanSnapshot, UncleanSnapshot
  <1>5. CASE AgentRun(c)
    BY <1>5, <1>d, DiskWriters, <1>a DEF AgentRun
  <1>6. CASE Extract(c)
    BY <1>6 DEF Extract, Artifact
  <1>7. CASE WritePatch(c)
    BY <1>7, <1>d, <1>a, DiskWriters DEF WritePatch
  <1>8. CASE EvaluateLocal(c)
    BY <1>8 DEF EvaluateLocal
  <1>9. CASE EvaluateDocker(c)
    BY <1>9, <1>d, <1>a, DiskWriters DEF EvaluateDocker
  <1>10. CASE EvaluateDockerSilent(c)
    BY <1>10, <1>a, MaxFaultsAssumption DEF EvaluateDockerSilent
  <1>11. CASE WriteEval(c)
    BY <1>11, <1>d, <1>a, DiskWriters DEF WriteEval
  <1>12. CASE ValidCard(c)
    BY <1>12, <1>d, <1>a, DiskWriters DEF ValidCard, BuildCard, WriteCard
  <1>13. CASE InfraStatus(c)
    BY <1>13, <1>d, <1>a, DiskWriters DEF InfraStatus
  <1>14. CASE InfraPatch(c)
    BY <1>14, <1>d, <1>a, DiskWriters DEF InfraPatch
  <1>15. CASE InfraEval(c)
    BY <1>15, <1>d, <1>a, DiskWriters DEF InfraEval
  <1>16. CASE InfraCard(c)
    BY <1>16, <1>d, <1>a, DiskWriters DEF InfraCard, InfraCardOpen, WriteCard
  <1>17. CASE StartRaises(c) \/ StartLeaks(c) \/ StageRaises(c)
    BY <1>17, MaxFaultsAssumption DEF StartRaises, StartLeaks, StageRaises
  <1>18. CASE Close(c)
    BY <1>18 DEF Close, BoxAfter
  <1> QED
    BY <1>1, <1>2, <1>3, <1>4, <1>5, <1>6, <1>7, <1>8, <1>9, <1>10, <1>11, <1>12, <1>13,
       <1>14, <1>15, <1>16, <1>17, <1>18 DEF RunStep

\* Creating the directory of an attempt keeps the types of what it changes.
LEMMA CreateType ==
    ASSUME TypeOK, NEW c \in Cells, Create(c), attempt' \in [Cells -> 0..MaxInfraRetries],
           UNCHANGED <<proc, launches, rows>>
    PROVE  TypeOK'
  <1>1. DirOf[c] \in Dirs /\ Created(dsk(c)) \in Disk
    <2>1. DirOf[c] \in Dirs /\ dsk(c) \in Disk
      BY DirOfAssumption DEF TypeOK, dsk
    <2> QED
      BY <2>1 DEF Disk, Created
  <1>2. PICK h \in Helpers : helper' = [helper EXCEPT ![c] = h /\ UseContainer]
    BY DEF Create
  <1>3. (h /\ UseContainer) \in BOOLEAN
    OBVIOUS
  <1>4. helper' \in [Cells -> BOOLEAN]
    BY <1>2, <1>3 DEF TypeOK
  <1> QED
    BY <1>1, <1>4
    DEF TypeOK, Create, Put, Goto, NoFault, Stage, RunStage, InfraStage, Artifact

\* Forgetting the attempts keeps the types.
LEMMA ForgetType ==
    ASSUME Forget
    PROVE  /\ pc' \in [Cells -> Stage]
           /\ rows' \in [Cells -> Row]
           /\ attempt' \in [Cells -> 0..MaxInfraRetries]
           /\ helper' \in [Cells -> BOOLEAN]
           /\ before' \in [Cells -> {"none", "host"}]
           /\ lost' \in [Cells -> BOOLEAN]
           /\ cand' \in [Cells -> Artifact]
           /\ verdict' \in [Cells -> Artifact]
           /\ outcome' \in [Cells -> {"none", "ok", "infra", "raise"}]
  <1>1. 0 \in 0..MaxInfraRetries
    BY SchedulerAssumption
  <1> QED
    BY <1>1 DEF Forget, Stage, Row, Artifact

\* A crash leaves well typed run directories.
LEMMA CrashDisk ==
    ASSUME TypeOK, NEW d \in Dirs, NEW cut \in SUBSET Dirs
    PROVE  DiskAfterCrash(d, cut) \in Disk
  <1>1. disk[d] \in Disk /\ (d \in cut) \in BOOLEAN
    BY DEF TypeOK
  <1>2. AppendCut(disk[d], d \in cut) \in Disk
    <2>1. "valid" \in {"valid", "infra"} /\ Empty \in Artifact
      BY DEF Artifact
    <2> QED
      BY <1>1, <2>1, DiskWriters
  <1> QED
    BY <1>1, <1>2 DEF DiskAfterCrash

\* Every step keeps the types.
LEMMA StepType == TypeOK /\ [Next]_vars => TypeOK'
  <1> SUFFICES ASSUME TypeOK, [Next]_vars
               PROVE  TypeOK'
    OBVIOUS
  <1>1. CASE Launch
    <2>1. launches' \in 0..MaxLaunches
      BY <1>1, SchedulerAssumption DEF Launch, TypeOK
    <2> QED
      BY <1>1, <2>1, ForgetType DEF Launch, TypeOK
  <1>2. ASSUME NEW c \in Cells, CellStep(c)
        PROVE  TypeOK'
    <2>1. CASE Skip(c)
      BY <2>1 DEF Skip, TypeOK, Goto, NoFault, localVars, Stage, RowFromDir, Row
    <2>2. CASE Execute(c)
      <3>1. attempt' \in [Cells -> 0..MaxInfraRetries]
        BY <2>2, SchedulerAssumption DEF Execute, TypeOK
      <3> QED
        BY <2>2, <3>1, CreateType DEF Execute
    <2>3. CASE Run(c)
      BY <2>3, RunType
    <2>4. CASE Return(c)
      BY <2>4 DEF Return, TypeOK, Goto, NoFault, localVars, Stage, RowOf, Row
    <2>5. CASE Retry(c)
      <3>1. attempt' \in [Cells -> 0..MaxInfraRetries]
        BY <2>5, SchedulerAssumption DEF Retry, TypeOK
      <3> QED
        BY <2>5, <3>1, CreateType DEF Retry
    <2>6. CASE GiveUp(c)
      BY <2>6 DEF GiveUp, TypeOK, Goto, NoFault, localVars, Stage, Row
    <2> QED
      BY <1>2, <2>1, <2>2, <2>3, <2>4, <2>5, <2>6 DEF CellStep
  <1>3. ASSUME NEW c \in Cells, BoxStops(c)
        PROVE  TypeOK'
    BY <1>3, MaxFaultsAssumption
    DEF BoxStops, ContainerStops, TypeOK, Fault, schedVars
  <1>4. CASE Finish
    BY <1>4 DEF Finish, TypeOK, pipeVars, localVars
  <1>5. CASE Crash
    <2>1. disk' \in [Dirs -> Disk]
      BY <1>5, CrashDisk DEF Crash
    <2>2. box' \in [Cells -> {"none", "up", "dead", "orphan", "leaked"}]
      BY <1>5 DEF Crash, TypeOK
    <2>3. faults' \in 0..MaxFaults
      BY <1>5, MaxFaultsAssumption DEF Crash, TypeOK
    <2> QED
      BY <1>5, <2>1, <2>2, <2>3, ForgetType DEF Crash, TypeOK
  <1>6. CASE UNCHANGED vars
    BY <1>6 DEF vars, pipeVars, localVars, schedVars, TypeOK
  <1> QED
    BY <1>1, <1>2, <1>3, <1>4, <1>5, <1>6 DEF Next, Stopped

\* The scheduler's variables, run directories included, have their types in
\* every reachable state (run_experiment, run_single).
THEOREM TypeCorrect == Spec => []TypeOK
  BY InitType, StepType, PTL DEF Spec

-----------------------------------------------------------------------------
(* What holds for any schedule, equal run directories included.              *)

\* A cell that is not in a run has no container, but for an orphan of a crash or
\* of a start that failed.
NoBoxAtRest ==
    \A c \in Cells : pc[c] \in {"idle", "start", "end", "done"} =>
                        box[c] \in {"none", "orphan", "leaked"}

\* Without a process there are no runs.
AtRestWhenDown == proc # "up" => \A c \in Cells : pc[c] \in {"idle", "done"}

\* A run past the first step of _infrastructure_failure is marked.
MarkedFirst ==
    \A c \in Cells : pc[c] \in InfraStage \ {"i_status"} => dsk(c).status

\* A directory whose card is of an infrastructure failure is marked.
InfraIsMarked == \A d \in Dirs : disk[d].fate = "infra" => disk[d].status

\* A run whose helper has gone with its container is on its way to failure; a
\* good outcome is only there once the stages are done.
HelperLossIsSeen ==
    \A c \in Cells :
        /\ helper[c] /\ lost[c] =>
              pc[c] \in InfraStage \cup {"close", "end", "done"} /\ outcome[c] # "ok"
        /\ outcome[c] = "ok" => pc[c] \in {"close", "end", "done"}

\* Containers: every stage that starts or keeps one lies before the finally
\* clause, which every way out of a run goes through.
LEMMA StepBoxes ==
    ASSUME TypeOK, NoBoxAtRest, AtRestWhenDown, [Next]_vars
    PROVE  NoBoxAtRest' /\ AtRestWhenDown'
  <1> USE DEF TypeOK, NoBoxAtRest, AtRestWhenDown, Goto, localVars, schedVars
  <1>1. CASE Launch
    BY <1>1 DEF Launch, Forget
  <1>2. ASSUME NEW c \in Cells, CellStep(c)
        PROVE  NoBoxAtRest' /\ AtRestWhenDown'
    <2>1. CASE Skip(c) \/ Return(c) \/ GiveUp(c)
      BY <2>1 DEF Skip, Return, GiveUp
    <2>2. CASE Execute(c) \/ Retry(c)
      BY <2>2 DEF Execute, Retry, Create
    <2>3. CASE Run(c)
      <3>0. proc = "up" /\ proc' = "up"
        BY <2>3 DEF Run
      <3>1. CASE Close(c)
        BY <3>0, <3>1 DEF Close, BoxAfter
      <3>2. CASE StartWorkspace(c)
        BY <3>0, <3>2 DEF StartWorkspace
      <3>4. CASE StartRaises(c) \/ StartLeaks(c)
        BY <3>0, <3>4 DEF StartRaises, StartLeaks
      <3>3. CASE ~Close(c) /\ ~StartWorkspace(c) /\ ~StartRaises(c) /\ ~StartLeaks(c)
        <4>1. UNCHANGED box
          BY <2>3, <3>3
          DEF Run, RunStep, S0Snapshot, CleanSnapshot, UncleanSnapshot, Setup, S1Snapshot,
              AgentRun, Extract, WritePatch, EvaluateLocal, EvaluateDocker,
              EvaluateDockerSilent, WriteEval, ValidCard, BuildCard, WriteCard, InfraStatus,
              InfraPatch, InfraEval, InfraCard, InfraCardOpen, StartRaises, StartLeaks,
            StageRaises
        <4>2. \E stage \in RunStage \ {"start"} : pc' = [pc EXCEPT ![c] = stage]
          BY <2>3, <3>3
          DEF Run, RunStep, S0Snapshot, CleanSnapshot, UncleanSnapshot, Setup, S1Snapshot,
              AgentRun, Extract, WritePatch, EvaluateLocal, EvaluateDocker,
              EvaluateDockerSilent, WriteEval, ValidCard, BuildCard, WriteCard, InfraStatus,
              InfraPatch, InfraEval, InfraCard, InfraCardOpen, StartRaises, StartLeaks,
            StageRaises, RunStage, InfraStage
        <4> QED
          BY <3>0, <4>1, <4>2 DEF RunStage, InfraStage
      <3> QED
        BY <3>1, <3>2, <3>3, <3>4
    <2> QED
      BY <1>2, <2>1, <2>2, <2>3 DEF CellStep
  <1>3. ASSUME NEW c \in Cells, BoxStops(c)
        PROVE  NoBoxAtRest' /\ AtRestWhenDown'
    BY <1>3 DEF BoxStops, ContainerStops
  <1>4. CASE Finish
    BY <1>4 DEF Finish, pipeVars
  <1>5. CASE Crash
    BY <1>5 DEF Crash, Forget
  <1>6. CASE UNCHANGED vars
    BY <1>6 DEF vars, pipeVars
  <1> QED
    BY <1>1, <1>2, <1>3, <1>4, <1>5, <1>6 DEF Next, Stopped

\* No attempt leaves a container it has worked in running, whether it returns,
\* raises or is cut short by an infrastructure failure (finally of run_single);
\* what may be left is the container of a killed process and one whose own start
\* failed half-way (ContainerWorkspace.start).
THEOREM ContainersAreRemoved == Spec => []ContainersRemoved
  <1>1. Init => NoBoxAtRest /\ AtRestWhenDown
    BY DEF Init, PipeInit, NoBoxAtRest, AtRestWhenDown
  <1>2. NoBoxAtRest => ContainersRemoved
    BY DEF NoBoxAtRest, ContainersRemoved
  <1> QED
    BY <1>1, <1>2, TypeCorrect, StepBoxes, PTL DEF Spec

\* What the writers leave of the marks of a run directory.
LEMMA WriterMarks ==
    ASSUME NEW d \in Disk, NEW p, NEW fate
    PROVE  /\ (Created(d).status <=> d.status) /\ Created(d).fate = d.fate
           /\ (Appended(d).status <=> d.status) /\ Appended(d).fate = d.fate
           /\ StatusWritten(d).status /\ StatusWritten(d).fate = d.fate
           /\ (PatchWritten(d, p).status <=> d.status) /\ PatchWritten(d, p).fate = d.fate
           /\ [d EXCEPT !.report = p].status <=> d.status
           /\ [d EXCEPT !.report = p].fate = d.fate
           /\ (EvalWritten(d, p).status <=> d.status) /\ EvalWritten(d, p).fate = d.fate
           /\ (CardOpened(d).status <=> d.status) /\ CardOpened(d).fate = d.fate
           /\ CardWritten(d, fate).status <=> d.status
           /\ CardWritten(d, fate).fate = fate
  BY DEF Disk, Created, Appended, StatusWritten, PatchWritten, EvalWritten,
         CardOpened, CardWritten

\* What a stage writes to the directory of its run: marks stay, and only the
\* last stage of _infrastructure_failure makes its card one of a failure.
LEMMA RunKeepsMarks ==
    ASSUME TypeOK, NEW c \in Cells, RunStep(c)
    PROVE  \E e \in Disk :
              /\ disk' = [disk EXCEPT ![DirOf[c]] = e]
              /\ dsk(c).status => e.status
              /\ e.fate = "infra" => dsk(c).fate = "infra" \/ pc[c] = "i_cardw"
              /\ pc[c] = "i_status" => e.status \/ pc'[c] = "close"
  <1>d. DirOf[c] \in Dirs /\ dsk(c) \in Disk /\ disk \in [Dirs -> Disk]
    BY DirOfAssumption DEF TypeOK, dsk
  <1>a. /\ cand[c] \in Artifact /\ verdict[c] \in Artifact
        /\ Empty \in Artifact
        /\ "valid" \in {"valid", "infra"} /\ "infra" \in {"valid", "infra"}
    BY <1>d DEF TypeOK, Artifact
  <1>w. /\ Appended(dsk(c)) \in Disk /\ StatusWritten(dsk(c)) \in Disk
        /\ PatchWritten(dsk(c), cand[c]) \in Disk /\ PatchWritten(dsk(c), Empty) \in Disk
        /\ [dsk(c) EXCEPT !.report = cand[c]] \in Disk
        /\ EvalWritten(dsk(c), verdict[c]) \in Disk /\ EvalWritten(dsk(c), Empty) \in Disk
        /\ CardOpened(dsk(c)) \in Disk
        /\ CardWritten(dsk(c), "valid") \in Disk /\ CardWritten(dsk(c), "infra") \in Disk
    BY <1>d, <1>a, DiskWriters
  <1>1. CASE UNCHANGED disk /\ pc[c] # "i_status"
    BY <1>1, <1>d DEF dsk
  <1>2. CASE AgentRun(c)
    <2>1. pc[c] = "agent" /\ disk' = [disk EXCEPT ![DirOf[c]] = Appended(dsk(c))]
      BY <1>2 DEF AgentRun, Put
    <2>2. Appended(dsk(c)) \in Disk
      BY <1>w
    <2> QED
      BY <1>d, <2>1, <2>2, WriterMarks
  <1>3. CASE WritePatch(c)
    <2>1. pc[c] = "patch" /\ disk' = [disk EXCEPT ![DirOf[c]] = PatchWritten(dsk(c), cand[c])]
      BY <1>3 DEF WritePatch, Put
    <2>2. PatchWritten(dsk(c), cand[c]) \in Disk
      BY <1>w
    <2>3. /\ PatchWritten(dsk(c), cand[c]).status <=> dsk(c).status
          /\ PatchWritten(dsk(c), cand[c]).fate = dsk(c).fate
      BY <1>d, WriterMarks
    <2> QED
      BY <1>d, <2>1, <2>2, <2>3
  <1>4. CASE EvaluateDocker(c)
    <2>1. pc[c] = "eval" /\ disk' = [disk EXCEPT ![DirOf[c]] = [dsk(c) EXCEPT !.report = cand[c]]]
      BY <1>4 DEF EvaluateDocker, Put
    <2>2. [dsk(c) EXCEPT !.report = cand[c]] \in Disk
      BY <1>w
    <2>3. /\ [dsk(c) EXCEPT !.report = cand[c]].status <=> dsk(c).status
          /\ [dsk(c) EXCEPT !.report = cand[c]].fate = dsk(c).fate
      BY <1>d, WriterMarks
    <2> QED
      BY <1>d, <2>1, <2>2, <2>3
  <1>5. CASE WriteEval(c)
    <2>1. pc[c] = "evalw" /\ disk' = [disk EXCEPT ![DirOf[c]] = EvalWritten(dsk(c), verdict[c])]
      BY <1>5 DEF WriteEval, Put
    <2>2. EvalWritten(dsk(c), verdict[c]) \in Disk
      BY <1>w
    <2>3. /\ EvalWritten(dsk(c), verdict[c]).status <=> dsk(c).status
          /\ EvalWritten(dsk(c), verdict[c]).fate = dsk(c).fate
      BY <1>d, WriterMarks
    <2> QED
      BY <1>d, <2>1, <2>2, <2>3
  <1>6. CASE ValidCard(c)
    <2>1. pc[c] # "i_status"
      BY <1>6 DEF ValidCard, BuildCard, WriteCard
    <2>2. CASE disk' = [disk EXCEPT ![DirOf[c]] = CardOpened(dsk(c))]
      BY <2>1, <2>2, <1>d, <1>w, WriterMarks
    <2>3. CASE disk' = [disk EXCEPT ![DirOf[c]] = CardWritten(dsk(c), "valid")]
      <3>1. /\ CardWritten(dsk(c), "valid").status <=> dsk(c).status
            /\ CardWritten(dsk(c), "valid").fate = "valid"
        BY <1>d, WriterMarks
      <3> QED
        BY <2>1, <2>3, <1>d, <1>w, <3>1
    <2> QED
      BY <1>1, <1>6, <2>1, <2>2, <2>3 DEF ValidCard, BuildCard, WriteCard, Put
  <1>7. CASE InfraStatus(c)
    <2>1. pc[c] = "i_status" /\ disk' = [disk EXCEPT ![DirOf[c]] = StatusWritten(dsk(c))]
      BY <1>7 DEF InfraStatus, Put
    <2>2. StatusWritten(dsk(c)) \in Disk
      BY <1>w
    <2>3. StatusWritten(dsk(c)).status /\ StatusWritten(dsk(c)).fate = dsk(c).fate
      BY <1>d, WriterMarks
    <2> QED
      BY <1>d, <2>1, <2>2, <2>3
  <1>8. CASE InfraPatch(c)
    <2>1. pc[c] = "i_patch" /\ disk' = [disk EXCEPT ![DirOf[c]] = PatchWritten(dsk(c), Empty)]
      BY <1>8 DEF InfraPatch, Put
    <2>2. PatchWritten(dsk(c), Empty) \in Disk
      BY <1>w
    <2>3. /\ PatchWritten(dsk(c), Empty).status <=> dsk(c).status
          /\ PatchWritten(dsk(c), Empty).fate = dsk(c).fate
      BY <1>d, WriterMarks
    <2> QED
      BY <1>d, <2>1, <2>2, <2>3
  <1>9. CASE InfraEval(c)
    <2>1. pc[c] = "i_eval" /\ disk' = [disk EXCEPT ![DirOf[c]] = EvalWritten(dsk(c), Empty)]
      BY <1>9 DEF InfraEval, Put
    <2>2. EvalWritten(dsk(c), Empty) \in Disk
      BY <1>w
    <2>3. /\ EvalWritten(dsk(c), Empty).status <=> dsk(c).status
          /\ EvalWritten(dsk(c), Empty).fate = dsk(c).fate
      BY <1>d, WriterMarks
    <2> QED
      BY <1>d, <2>1, <2>2, <2>3
  <1>10. CASE InfraCard(c)
    <2>1. CASE pc[c] = "i_card" /\ disk' = [disk EXCEPT ![DirOf[c]] = CardOpened(dsk(c))]
      BY <2>1, <1>d, <1>w, WriterMarks
    <2>2. CASE /\ pc[c] = "i_cardw"
               /\ disk' = [disk EXCEPT ![DirOf[c]] = CardWritten(dsk(c), "infra")]
      BY <2>2, <1>d, <1>w, WriterMarks
    <2> QED
      BY <1>10, <2>1, <2>2 DEF InfraCard, InfraCardOpen, WriteCard, Put
  <1>11. CASE \/ StartWorkspace(c) \/ S0Snapshot(c) \/ Setup(c) \/ S1Snapshot(c)
              \/ Extract(c) \/ EvaluateLocal(c) \/ EvaluateDockerSilent(c)
              \/ StartRaises(c) \/ StartLeaks(c) \/ Close(c)
    <2>1. UNCHANGED disk /\ pc[c] # "i_status"
      BY <1>11 DEF StartWorkspace, S0Snapshot, CleanSnapshot, UncleanSnapshot, Setup,
                   S1Snapshot, Extract, EvaluateLocal, EvaluateDockerSilent, StartRaises,
                   StartLeaks, Close
    <2> QED
      BY <2>1, <1>1
  <1>12. CASE StageRaises(c)
    <2>1. UNCHANGED disk /\ pc'[c] = "close"
      BY <1>12 DEF StageRaises, Goto, TypeOK
    <2> QED
      BY <2>1, <1>d DEF dsk
  <1> QED
    BY <1>2, <1>3, <1>4, <1>5, <1>6, <1>7, <1>8, <1>9, <1>10, <1>11, <1>12 DEF RunStep

\* Where a stage leads: into _infrastructure_failure past its first step only
\* from within, and a lost helper leads nowhere else.
LEMMA RunMoves ==
    ASSUME TypeOK, NEW c \in Cells, RunStep(c)
    PROVE  \E s \in RunStage \cup {"end"} :
              /\ pc' = [pc EXCEPT ![c] = s]
              /\ s \in InfraStage \ {"i_status"} => pc[c] \in InfraStage
              /\ pc[c] \in InfraStage => s \in (InfraStage \ {"i_status"}) \cup {"close"}
              /\ pc[c] = "close" => s = "end"
              /\ pc[c] = "cardw" => s = "close"
  BY DEF TypeOK, RunStep, StartWorkspace, S0Snapshot, CleanSnapshot, UncleanSnapshot, Setup,
         S1Snapshot, AgentRun, Extract, WritePatch, EvaluateLocal, EvaluateDocker,
         EvaluateDockerSilent, WriteEval, ValidCard, BuildCard, WriteCard, InfraStatus,
         InfraPatch, InfraEval, InfraCard, InfraCardOpen, StartRaises, StartLeaks,
            StageRaises, Close, Goto,
         RunStage, InfraStage

\* Marks: they are written before the card, and nothing takes one away.
LEMMA StepMarks ==
    ASSUME TypeOK, MarkedFirst, InfraIsMarked, [Next]_vars
    PROVE  MarkedFirst' /\ InfraIsMarked'
  <1>t. /\ disk \in [Dirs -> Disk] /\ pc \in [Cells -> Stage]
        /\ \A b \in Cells : DirOf[b] \in Dirs
    BY DirOfAssumption DEF TypeOK
  <1> USE DEF MarkedFirst, InfraIsMarked, dsk
  <1>1. CASE Launch
    BY <1>1 DEF Launch, Forget, InfraStage
  <1>2. ASSUME NEW c \in Cells, CellStep(c)
        PROVE  MarkedFirst' /\ InfraIsMarked'
    <2>1. CASE Skip(c) \/ Return(c) \/ GiveUp(c)
      BY <2>1, <1>t DEF Skip, Return, GiveUp, Goto, InfraStage
    <2>2. CASE Execute(c) \/ Retry(c)
      <3>1. /\ disk' = [disk EXCEPT ![DirOf[c]] = Created(dsk(c))]
            /\ pc' = [pc EXCEPT ![c] = "start"]
        BY <2>2 DEF Execute, Retry, Create, Put, Goto
      <3>2. /\ Created(dsk(c)).status = dsk(c).status
            /\ Created(dsk(c)).fate = dsk(c).fate
        BY <1>t DEF Created, Disk
      <3> QED
        BY <1>t, <3>1, <3>2 DEF InfraStage
    <2>3. CASE Run(c)
      <3>1. RunStep(c)
        BY <2>3 DEF Run
      <3>2. PICK e \in Disk :
              /\ disk' = [disk EXCEPT ![DirOf[c]] = e]
              /\ dsk(c).status => e.status
              /\ e.fate = "infra" => dsk(c).fate = "infra" \/ pc[c] = "i_cardw"
              /\ pc[c] = "i_status" => e.status \/ pc'[c] = "close"
        BY <3>1, RunKeepsMarks
      <3>3. PICK s \in RunStage \cup {"end"} :
              /\ pc' = [pc EXCEPT ![c] = s]
              /\ s \in InfraStage \ {"i_status"} => pc[c] \in InfraStage
        BY <3>1, RunMoves
      <3>4. pc[c] \in InfraStage => e.status \/ pc'[c] = "close"
        BY <3>2
      <3>5. InfraIsMarked'
        BY <1>t, <3>2 DEF InfraStage
      <3>6. MarkedFirst'
        BY <1>t, <3>2, <3>3, <3>4 DEF InfraStage
      <3> QED
        BY <3>5, <3>6
    <2> QED
      BY <1>2, <2>1, <2>2, <2>3 DEF CellStep
  <1>3. ASSUME NEW c \in Cells, BoxStops(c)
        PROVE  MarkedFirst' /\ InfraIsMarked'
    BY <1>3 DEF BoxStops, ContainerStops
  <1>4. CASE Finish
    BY <1>4 DEF Finish, pipeVars
  <1>5. CASE Crash
    <2>1. PICK cut \in SUBSET Dirs : disk' = [d \in Dirs |-> DiskAfterCrash(d, cut)]
      BY <1>5 DEF Crash
    <2>2. \A d \in Dirs : /\ disk'[d].status = disk[d].status
                          /\ disk'[d].fate = disk[d].fate
      <3> SUFFICES ASSUME NEW d \in Dirs
                   PROVE  disk'[d].status = disk[d].status /\ disk'[d].fate = disk[d].fate
        OBVIOUS
      <3>1. disk[d] \in Disk /\ Appended(disk[d]) \in Disk
        BY <1>t, DiskAppended
      <3>2. CASE disk'[d] = disk[d]
        BY <3>2
      <3>3. CASE disk'[d] = AppendCut(disk[d], d \in cut)
        <4>1. /\ disk'[d].status = Appended(disk[d]).status
              /\ disk'[d].fate = Appended(disk[d]).fate
          BY <3>1, <3>3 DEF AppendCut, Disk
        <4> QED
          BY <3>1, <4>1 DEF Appended, Disk
      <3> QED
        BY <2>1, <3>2, <3>3 DEF DiskAfterCrash
    <2> QED
      BY <1>5, <2>2 DEF Crash, Forget, InfraStage
  <1>6. CASE UNCHANGED vars
    BY <1>6 DEF vars, pipeVars
  <1> QED
    BY <1>1, <1>2, <1>3, <1>4, <1>5, <1>6 DEF Next, Stopped

\* No infrastructure failure is ever loaded by the analysis, wherever a process
\* died and whichever cells share a directory (_infrastructure_failure, load_runs).
THEOREM InfraIsNeverAnalysed == Spec => []InfraNeverAnalysed
  <1>1. Init => MarkedFirst /\ InfraIsMarked
    BY DEF Init, PipeInit, MarkedFirst, InfraIsMarked, EmptyDisk, InfraStage
  <1>2. InfraIsMarked => InfraNeverAnalysed
    BY DEF InfraIsMarked, InfraNeverAnalysed, Loaded
  <1> QED
    BY <1>1, <1>2, TypeCorrect, StepMarks, PTL DEF Spec

\* What a stage does to what it knows of the helper: the patch is extracted
\* from a lost container into _infrastructure_failure only.
LEMMA StepHelper ==
    ASSUME TypeOK, HelperLossIsSeen, [Next]_vars
    PROVE  HelperLossIsSeen'
  <1>t. /\ pc \in [Cells -> Stage] /\ helper \in [Cells -> BOOLEAN]
        /\ lost \in [Cells -> BOOLEAN]
        /\ outcome \in [Cells -> {"none", "ok", "infra", "raise"}]
    BY DEF TypeOK
  <1> USE DEF HelperLossIsSeen
  <1>1. CASE Launch \/ Crash
    BY <1>1 DEF Launch, Crash, Forget
  <1>2. ASSUME NEW c \in Cells, CellStep(c)
        PROVE  HelperLossIsSeen'
    <2>1. CASE Skip(c) \/ Return(c) \/ GiveUp(c)
      BY <2>1, <1>t DEF Skip, Return, GiveUp, Goto, localVars
    <2>2. CASE Execute(c) \/ Retry(c)
      <3>1. /\ pc' = [pc EXCEPT ![c] = "start"] /\ lost' = [lost EXCEPT ![c] = FALSE]
            /\ outcome' = [outcome EXCEPT ![c] = "none"]
            /\ \A b \in Cells \ {c} : helper'[b] = helper[b]
        BY <2>2, <1>t DEF Execute, Retry, Create, Goto
      <3> QED
        BY <3>1, <1>t
    <2>3. CASE Run(c) /\ Extract(c)
      <3>1. UNCHANGED <<helper, outcome>>
        BY <2>3 DEF Extract
      <3>2. lost'[c] /\ helper[c] => pc' = [pc EXCEPT ![c] = "i_status"]
        BY <2>3, <1>t DEF Extract, Goto, HelperIntegrityViolation
      <3>3. \A b \in Cells \ {c} : lost'[b] = lost[b] /\ pc'[b] = pc[b]
        BY <2>3, <1>t DEF Extract, Goto
      <3>4. outcome[c] # "ok"
        <4>1. pc[c] = "extract"
          BY <2>3 DEF Extract
        <4> QED
          BY <4>1
      <3> QED
        BY <3>1, <3>2, <3>3, <3>4, <1>t DEF InfraStage
    <2>4. CASE Run(c) /\ ~Extract(c)
      <3>1. UNCHANGED <<helper, lost>>
        BY <2>4
        DEF Run, RunStep, StartWorkspace, S0Snapshot, CleanSnapshot, UncleanSnapshot, Setup,
            S1Snapshot, AgentRun, WritePatch, EvaluateLocal, EvaluateDocker,
            EvaluateDockerSilent, WriteEval, ValidCard, BuildCard, WriteCard, InfraStatus,
            InfraPatch, InfraEval, InfraCard, InfraCardOpen, StartRaises, StartLeaks,
            StageRaises, Close, localVars
      <3>2. \E o \in {"ok", "infra", "raise", outcome[c]} :
               /\ outcome' = [outcome EXCEPT ![c] = o]
               /\ o = "ok" => o = outcome[c] \/ pc[c] = "cardw"
        BY <2>4, <1>t
        DEF Run, RunStep, StartWorkspace, S0Snapshot, CleanSnapshot, UncleanSnapshot, Setup,
            S1Snapshot, AgentRun, WritePatch, EvaluateLocal, EvaluateDocker,
            EvaluateDockerSilent, WriteEval, ValidCard, BuildCard, WriteCard, InfraStatus,
            InfraPatch, InfraEval, InfraCard, InfraCardOpen, StartRaises, StartLeaks,
            StageRaises, Close, localVars
      <3>3. PICK s \in RunStage \cup {"end"} :
              /\ pc' = [pc EXCEPT ![c] = s]
              /\ pc[c] \in InfraStage => s \in (InfraStage \ {"i_status"}) \cup {"close"}
              /\ pc[c] = "close" => s = "end"
              /\ pc[c] = "cardw" => s = "close"
        BY <2>4, RunMoves DEF Run
      <3>4. pc[c] \notin {"end", "done"}
        BY <2>4
        DEF Run, RunStep, StartWorkspace, S0Snapshot, CleanSnapshot, UncleanSnapshot, Setup,
            S1Snapshot, AgentRun, WritePatch, EvaluateLocal, EvaluateDocker,
            EvaluateDockerSilent, WriteEval, ValidCard, BuildCard, WriteCard, InfraStatus,
            InfraPatch, InfraEval, InfraCard, InfraCardOpen, StartRaises, StartLeaks,
            StageRaises, Close, RunStage, InfraStage
      <3> QED
        BY <3>1, <3>2, <3>3, <3>4, <1>t DEF InfraStage
    <2> QED
      BY <1>2, <2>1, <2>2, <2>3, <2>4 DEF CellStep
  <1>3. ASSUME NEW c \in Cells, BoxStops(c)
        PROVE  HelperLossIsSeen'
    BY <1>3 DEF BoxStops, ContainerStops
  <1>4. CASE Finish \/ UNCHANGED vars
    BY <1>4 DEF Finish, vars, pipeVars, localVars
  <1> QED
    BY <1>1, <1>2, <1>3, <1>4 DEF Next, Stopped

\* A run with a helper whose container was gone at extraction is never scored,
\* at whatever moment it went (_helper_integrity_violation, run_manager.py:86-100).
THEOREM HelperRunsAreScoredWhole == Spec => []HelperRunsAreWhole
  <1>1. Init => HelperLossIsSeen
    BY DEF Init, PipeInit, HelperLossIsSeen
  <1>2. HelperLossIsSeen => HelperRunsAreWhole
    BY DEF HelperLossIsSeen, HelperRunsAreWhole
  <1> QED
    BY <1>1, <1>2, TypeCorrect, StepHelper, PTL DEF Spec

-----------------------------------------------------------------------------
(* What holds when every cell has a directory of its own and the experiment  *)
(* resumes.                                                                  *)

\* A run that has not come to a card yet, or never will.
Working(c) ==
    \/ pc[c] \in RunStage \ {"close"}
    \/ pc[c] \in {"close", "end"} /\ outcome[c] = "raise"

\* Nobody works in a directory that has a result.
NothingYet == \A c \in Cells : Working(c) => ~HasResult(DirOf[c])

\* An outcome that run_single returns is on disk.
Delivered ==
    \A c \in Cells : pc[c] \in {"close", "end"} =>
        /\ outcome[c] = "ok" => HasResult(DirOf[c]) /\ dsk(c).fate = "valid"
        /\ outcome[c] = "infra" => HasResult(DirOf[c]) /\ dsk(c).fate = "infra"

\* A cell with a row is done.
RowsComeLast == \A c \in Cells : rows[c] # "none" => pc[c] = "done"

ResultInv == NothingYet /\ Delivered /\ RowsComeLast /\ RowsTellTheDisk

\* What the writers leave of the card.
LEMMA WriterCards ==
    ASSUME NEW d \in Disk, NEW p, NEW fate
    PROVE  /\ Created(d).card = d.card
           /\ Appended(d).card = d.card
           /\ StatusWritten(d).card = d.card
           /\ PatchWritten(d, p).card = d.card
           /\ [d EXCEPT !.report = p].card = d.card
           /\ EvalWritten(d, p).card = d.card
           /\ CardOpened(d).card = "torn"
           /\ CardWritten(d, fate).card = "whole"
           /\ CardWritten(d, fate).fate = fate
  BY DEF Disk, Created, Appended, StatusWritten, PatchWritten, EvalWritten,
         CardOpened, CardWritten

\* A stage writes a result and ends with its outcome, or writes none and, if it
\* leads out of the run, has raised.
StageGives(c, e, s, o) ==
    \/ e.card # "whole" /\ (s \in {"close", "end"} => o = "raise")
    \/ s = "close" /\ e.card = "whole" /\ e.fate = "valid" /\ o = "ok"
    \/ s = "close" /\ e.card = "whole" /\ e.fate = "infra" /\ o = "infra"

\* The stages before the finally clause.
LEMMA RunResults ==
    ASSUME TypeOK, NEW c \in Cells, RunStep(c), ~Close(c), ~HasResult(DirOf[c])
    PROVE  \E e, o : \E s \in RunStage \cup {"end"} :
              /\ disk' = [disk EXCEPT ![DirOf[c]] = e]
              /\ outcome' = [outcome EXCEPT ![c] = o]
              /\ pc' = [pc EXCEPT ![c] = s]
              /\ StageGives(c, e, s, o)
  <1>d. DirOf[c] \in Dirs /\ dsk(c) \in Disk /\ dsk(c).card # "whole"
    BY DirOfAssumption DEF TypeOK, dsk, HasResult
  <1>t. disk \in [Dirs -> Disk] /\ outcome \in [Cells -> {"none", "ok", "infra", "raise"}]
    BY DEF TypeOK
  <1>s. RunStage \ {"close"} = {"start", "s0", "setup", "s1", "agent", "extract", "patch",
           "eval", "evalw", "card", "cardw", "i_status", "i_patch", "i_eval", "i_card",
           "i_cardw"} /\ "close" \in RunStage /\ "end" \notin RunStage
    BY DEF RunStage, InfraStage
  <1>1. CASE \/ StartWorkspace(c) \/ S0Snapshot(c) \/ Setup(c) \/ S1Snapshot(c)
             \/ Extract(c) \/ EvaluateLocal(c) \/ EvaluateDockerSilent(c)
             \/ StartRaises(c) \/ StartLeaks(c) \/ StageRaises(c)
    <2>1. disk' = [disk EXCEPT ![DirOf[c]] = dsk(c)]
      BY <1>1, <1>t
      DEF dsk, StartWorkspace, S0Snapshot, CleanSnapshot, UncleanSnapshot, Setup, S1Snapshot,
          Extract, EvaluateLocal, EvaluateDockerSilent, StartRaises, StartLeaks, StageRaises
    <2>2. CASE \/ StartWorkspace(c) \/ S0Snapshot(c) \/ Setup(c) \/ S1Snapshot(c)
               \/ Extract(c) \/ EvaluateLocal(c)
      <3>1. /\ outcome' = [outcome EXCEPT ![c] = outcome[c]]
            /\ \E s \in RunStage \ {"close"} : pc' = [pc EXCEPT ![c] = s]
        BY <2>2, <1>t, <1>s
        DEF StartWorkspace, S0Snapshot, CleanSnapshot, UncleanSnapshot, Setup, S1Snapshot,
            Extract, EvaluateLocal, Goto, localVars
      <3> QED
        BY <2>1, <3>1, <1>d, <1>s DEF StageGives
    <2>3. CASE EvaluateDockerSilent(c) \/ StageRaises(c)
      <3>1. \/ /\ outcome' = [outcome EXCEPT ![c] = outcome[c]]
               /\ pc' = [pc EXCEPT ![c] = "evalw"]
            \/ /\ outcome' = [outcome EXCEPT ![c] = "raise"]
               /\ pc' = [pc EXCEPT ![c] = "close"]
        BY <2>3, <1>t DEF EvaluateDockerSilent, StageRaises, Goto
      <3> QED
        BY <2>1, <3>1, <1>d, <1>s DEF StageGives
    <2>4. CASE StartRaises(c) \/ StartLeaks(c)
      <3>1. outcome' = [outcome EXCEPT ![c] = "raise"] /\ pc' = [pc EXCEPT ![c] = "end"]
        BY <2>4 DEF StartRaises, StartLeaks, Goto
      <3> QED
        BY <2>1, <3>1, <1>d DEF StageGives
    <2> QED
      BY <1>1, <2>2, <2>3, <2>4
  <1>2. CASE AgentRun(c)
    <2>1. /\ disk' = [disk EXCEPT ![DirOf[c]] = Appended(dsk(c))]
          /\ outcome' = [outcome EXCEPT ![c] = outcome[c]]
          /\ pc' = [pc EXCEPT ![c] = "extract"]
      BY <1>2, <1>t DEF AgentRun, Put, Goto, localVars
    <2>2. Appended(dsk(c)).card # "whole"
      BY <1>d, WriterCards
    <2> QED
      BY <2>1, <2>2, <1>s DEF StageGives
  <1>3. CASE WritePatch(c)
    <2>1. /\ disk' = [disk EXCEPT ![DirOf[c]] = PatchWritten(dsk(c), cand[c])]
          /\ outcome' = [outcome EXCEPT ![c] = outcome[c]]
          /\ pc' = [pc EXCEPT ![c] = "eval"]
      BY <1>3, <1>t DEF WritePatch, Put, Goto, localVars
    <2>2. PatchWritten(dsk(c), cand[c]).card # "whole"
      BY <1>d, WriterCards
    <2> QED
      BY <2>1, <2>2, <1>s DEF StageGives
  <1>4. CASE EvaluateDocker(c)
    <2>1. /\ disk' = [disk EXCEPT ![DirOf[c]] = [dsk(c) EXCEPT !.report = cand[c]]]
          /\ outcome' = [outcome EXCEPT ![c] = outcome[c]]
          /\ pc' = [pc EXCEPT ![c] = "evalw"]
      BY <1>4, <1>t DEF EvaluateDocker, Put, Goto, localVars
    <2>2. [dsk(c) EXCEPT !.report = cand[c]].card # "whole"
      BY <1>d, WriterCards
    <2> QED
      BY <2>1, <2>2, <1>s DEF StageGives
  <1>5. CASE WriteEval(c)
    <2>1. /\ disk' = [disk EXCEPT ![DirOf[c]] = EvalWritten(dsk(c), verdict[c])]
          /\ outcome' = [outcome EXCEPT ![c] = outcome[c]]
          /\ pc' = [pc EXCEPT ![c] = "card"]
      BY <1>5, <1>t DEF WriteEval, Put, Goto, localVars
    <2>2. EvalWritten(dsk(c), verdict[c]).card # "whole"
      BY <1>d, WriterCards
    <2> QED
      BY <2>1, <2>2, <1>s DEF StageGives
  <1>6. CASE ValidCard(c)
    <2>1. CASE BuildCard(c, "card", "cardw")
      <3>1. \/ /\ disk' = [disk EXCEPT ![DirOf[c]] = CardOpened(dsk(c))]
               /\ outcome' = [outcome EXCEPT ![c] = outcome[c]]
               /\ pc' = [pc EXCEPT ![c] = "cardw"]
            \/ /\ disk' = [disk EXCEPT ![DirOf[c]] = dsk(c)]
               /\ outcome' = [outcome EXCEPT ![c] = "raise"]
               /\ pc' = [pc EXCEPT ![c] = "close"]
        BY <2>1, <1>t DEF BuildCard, Put, Goto, dsk
      <3>2. CardOpened(dsk(c)).card # "whole"
        BY <1>d, WriterCards
      <3> QED
        BY <3>1, <3>2, <1>d, <1>s DEF StageGives
    <2>2. CASE WriteCard(c, "cardw", "ok", "valid")
      <3>1. /\ disk' = [disk EXCEPT ![DirOf[c]] = CardWritten(dsk(c), "valid")]
            /\ outcome' = [outcome EXCEPT ![c] = "ok"]
            /\ pc' = [pc EXCEPT ![c] = "close"]
        BY <2>2 DEF WriteCard, Put, Goto
      <3>2. /\ CardWritten(dsk(c), "valid").card = "whole"
            /\ CardWritten(dsk(c), "valid").fate = "valid"
        BY <1>d, WriterCards
      <3> QED
        BY <3>1, <3>2, <1>s DEF StageGives
    <2> QED
      BY <1>6, <2>1, <2>2 DEF ValidCard
  <1>7. CASE InfraStatus(c)
    <2>1. /\ disk' = [disk EXCEPT ![DirOf[c]] = StatusWritten(dsk(c))]
          /\ outcome' = [outcome EXCEPT ![c] = outcome[c]]
          /\ pc' = [pc EXCEPT ![c] = "i_patch"]
      BY <1>7, <1>t DEF InfraStatus, Put, Goto, localVars
    <2>2. StatusWritten(dsk(c)).card # "whole"
      BY <1>d, WriterCards
    <2> QED
      BY <2>1, <2>2, <1>s DEF StageGives
  <1>8. CASE InfraPatch(c)
    <2>1. /\ disk' = [disk EXCEPT ![DirOf[c]] = PatchWritten(dsk(c), Empty)]
          /\ \/ /\ outcome' = [outcome EXCEPT ![c] = outcome[c]]
                /\ pc' = [pc EXCEPT ![c] = "i_eval"]
             \/ /\ outcome' = [outcome EXCEPT ![c] = "raise"]
                /\ pc' = [pc EXCEPT ![c] = "close"]
      BY <1>8, <1>t DEF InfraPatch, Put, Goto
    <2>2. PatchWritten(dsk(c), Empty).card # "whole"
      BY <1>d, WriterCards
    <2> QED
      BY <2>1, <2>2, <1>s DEF StageGives
  <1>9. CASE InfraEval(c)
    <2>1. /\ disk' = [disk EXCEPT ![DirOf[c]] = EvalWritten(dsk(c), Empty)]
          /\ outcome' = [outcome EXCEPT ![c] = outcome[c]]
          /\ pc' = [pc EXCEPT ![c] = "i_card"]
      BY <1>9, <1>t DEF InfraEval, Put, Goto, localVars
    <2>2. EvalWritten(dsk(c), Empty).card # "whole"
      BY <1>d, WriterCards
    <2> QED
      BY <2>1, <2>2, <1>s DEF StageGives
  <1>10. CASE InfraCard(c)
    <2>1. CASE InfraCardOpen(c)
      <3>1. /\ disk' = [disk EXCEPT ![DirOf[c]] = CardOpened(dsk(c))]
            /\ outcome' = [outcome EXCEPT ![c] = outcome[c]]
            /\ pc' = [pc EXCEPT ![c] = "i_cardw"]
        BY <2>1, <1>t DEF InfraCardOpen, Put, Goto, localVars
      <3>2. CardOpened(dsk(c)).card # "whole"
        BY <1>d, WriterCards
      <3> QED
        BY <3>1, <3>2, <1>s DEF StageGives
    <2>2. CASE WriteCard(c, "i_cardw", "infra", "infra")
      <3>1. /\ disk' = [disk EXCEPT ![DirOf[c]] = CardWritten(dsk(c), "infra")]
            /\ outcome' = [outcome EXCEPT ![c] = "infra"]
            /\ pc' = [pc EXCEPT ![c] = "close"]
        BY <2>2 DEF WriteCard, Put, Goto
      <3>2. /\ CardWritten(dsk(c), "infra").card = "whole"
            /\ CardWritten(dsk(c), "infra").fate = "infra"
        BY <1>d, WriterCards
      <3> QED
        BY <3>1, <3>2, <1>s DEF StageGives
    <2> QED
      BY <1>10, <2>1, <2>2 DEF InfraCard
  <1> QED
    BY <1>1, <1>2, <1>3, <1>4, <1>5, <1>6, <1>7, <1>8, <1>9, <1>10 DEF RunStep

\* What is kept of every directory with a result.
ResultsKept == \A d \in Dirs : HasResult(d) => disk'[d] = disk[d]

\* One write of one cell, into a directory without a result.
LEMMA OneWrite ==
    ASSUME TypeOK, DistinctRunDirs, ResultInv, NEW c \in Cells, NEW e, NEW s, NEW o,
           s \in RunStage \cup {"end"}, ~HasResult(DirOf[c]), rows[c] = "none",
           disk' = [disk EXCEPT ![DirOf[c]] = e],
           pc' = [pc EXCEPT ![c] = s],
           outcome' = [outcome EXCEPT ![c] = o],
           StageGives(c, e, s, o),
           UNCHANGED rows
    PROVE  ResultInv' /\ ResultsKept
  <1>t. /\ disk \in [Dirs -> Disk] /\ pc \in [Cells -> Stage]
        /\ outcome \in [Cells -> {"none", "ok", "infra", "raise"}]
        /\ \A b \in Cells : DirOf[b] \in Dirs
    BY DirOfAssumption DEF TypeOK
  <1>c. /\ disk'[DirOf[c]] = e /\ pc'[c] = s /\ outcome'[c] = o
    BY <1>t
  <1>o. ASSUME NEW b \in Cells, b # c
        PROVE  /\ disk'[DirOf[b]] = disk[DirOf[b]] /\ pc'[b] = pc[b]
               /\ outcome'[b] = outcome[b]
    BY <1>t, <1>o DEF DistinctRunDirs
  <1>s. s # "done"
    BY DEF RunStage, InfraStage
  <1>1. ResultsKept
    BY <1>t DEF ResultsKept
  <1>2. NothingYet'
    <2> SUFFICES ASSUME NEW b \in Cells, Working(b)'
                 PROVE  ~HasResult(DirOf[b])'
      BY DEF NothingYet
    <2>1. CASE b = c
      BY <2>1, <1>c, <1>s DEF Working, HasResult, StageGives
    <2>2. CASE b # c
      BY <2>2, <1>o DEF Working, HasResult, ResultInv, NothingYet
    <2> QED
      BY <2>1, <2>2
  <1>3. Delivered'
    <2> SUFFICES ASSUME NEW b \in Cells, pc'[b] \in {"close", "end"}
                 PROVE  /\ outcome'[b] = "ok" =>
                              HasResult(DirOf[b])' /\ dsk(b)'.fate = "valid"
                        /\ outcome'[b] = "infra" =>
                              HasResult(DirOf[b])' /\ dsk(b)'.fate = "infra"
      BY DEF Delivered
    <2>1. CASE b = c
      BY <2>1, <1>c, <1>s DEF HasResult, StageGives, dsk
    <2>2. CASE b # c
      BY <2>2, <1>o DEF HasResult, dsk, ResultInv, Delivered
    <2> QED
      BY <2>1, <2>2
  <1>4. RowsComeLast'
    BY <1>o DEF RowsComeLast, ResultInv
  <1>5. RowsTellTheDisk'
    BY <1>o DEF RowsTellTheDisk, ResultInv, HasResult, dsk
  <1> QED
    BY <1>1, <1>2, <1>3, <1>4, <1>5 DEF ResultInv

\* A cell gets its row without a write.
LEMMA OneRow ==
    ASSUME TypeOK, ResultInv, NEW c \in Cells, NEW r,
           pc' = [pc EXCEPT ![c] = "done"],
           rows' = [rows EXCEPT ![c] = r],
           UNCHANGED <<disk, outcome>>,
           r \in {"ok", "infra", "skipped"} => HasResult(DirOf[c]),
           r = "ok" => dsk(c).fate = "valid",
           r = "infra" => dsk(c).fate = "infra"
    PROVE  ResultInv' /\ ResultsKept
  BY DEF TypeOK, ResultInv, NothingYet, Working, Delivered, RowsComeLast, RowsTellTheDisk,
         HasResult, dsk, ResultsKept, RunStage, InfraStage

\* Every step of the scheduler keeps the results and what the rows say of them.
LEMMA StepResults ==
    ASSUME TypeOK, DistinctRunDirs, Resume, ResultInv, [Next]_vars
    PROVE  ResultInv' /\ ResultsKept
  <1>t. /\ disk \in [Dirs -> Disk] /\ pc \in [Cells -> Stage] /\ rows \in [Cells -> Row]
        /\ outcome \in [Cells -> {"none", "ok", "infra", "raise"}]
        /\ \A b \in Cells : DirOf[b] \in Dirs
    BY DirOfAssumption DEF TypeOK
  <1>1. CASE Launch
    BY <1>1 DEF Launch, Forget, ResultInv, NothingYet, Working, Delivered, RowsComeLast,
                RowsTellTheDisk, ResultsKept, RunStage, InfraStage
  <1>2. ASSUME NEW c \in Cells, CellStep(c)
        PROVE  ResultInv' /\ ResultsKept
    <2>r. pc[c] # "done" => rows[c] = "none"
      BY DEF ResultInv, RowsComeLast
    <2>1. CASE Skip(c)
      BY <2>1, OneRow DEF Skip, Goto, localVars, RowFromDir, HasResult, dsk
    <2>2. CASE Return(c)
      <3>1. /\ pc[c] = "end" /\ outcome[c] \in {"ok", "infra"}
            /\ rows' = [rows EXCEPT ![c] = outcome[c]]
            /\ pc' = [pc EXCEPT ![c] = "done"] /\ UNCHANGED <<disk, outcome>>
        BY <2>2 DEF Return, Goto, localVars, RowOf
      <3> QED
        BY <3>1, OneRow DEF ResultInv, Delivered
    <2>3. CASE GiveUp(c)
      BY <2>3, OneRow DEF GiveUp, Goto, localVars
    <2>4. CASE Execute(c) \/ Retry(c)
      <3>1. ~HasResult(DirOf[c]) /\ pc[c] # "done"
        <4>1. CASE Execute(c)
          BY <4>1 DEF Execute, IsComplete, HasResult, dsk
        <4>2. CASE Retry(c)
          BY <4>2 DEF Retry, ResultInv, NothingYet, Working
        <4> QED
          BY <2>4, <4>1, <4>2
      <3>2. /\ disk' = [disk EXCEPT ![DirOf[c]] = Created(dsk(c))]
            /\ pc' = [pc EXCEPT ![c] = "start"]
            /\ outcome' = [outcome EXCEPT ![c] = "none"]
            /\ UNCHANGED rows
        BY <2>4 DEF Execute, Retry, Create, Put, Goto
      <3>3. Created(dsk(c)).card # "whole" /\ "start" \in RunStage
        BY <1>t, <3>1, WriterCards DEF HasResult, dsk, RunStage
      <3>4. StageGives(c, Created(dsk(c)), "start", "none")
        BY <3>3 DEF StageGives
      <3> QED
        BY <3>1, <3>2, <3>3, <3>4, <2>r, OneWrite
    <2>5. CASE Run(c) /\ Close(c)
      <3>1. /\ pc[c] = "close" /\ pc' = [pc EXCEPT ![c] = "end"]
            /\ UNCHANGED <<disk, outcome, rows>>
        BY <2>5 DEF Run, Close, Goto, schedVars
      <3> QED
        BY <3>1, <1>t, <2>r
        DEF ResultInv, NothingYet, Working, Delivered, RowsComeLast, RowsTellTheDisk,
            HasResult, dsk, ResultsKept, RunStage, InfraStage
    <2>6. CASE Run(c) /\ ~Close(c)
      <3>1. pc[c] \in RunStage \ {"close"}
        BY <2>6
        DEF Run, RunStep, StartWorkspace, S0Snapshot, CleanSnapshot, UncleanSnapshot, Setup,
            S1Snapshot, AgentRun, Extract, WritePatch, EvaluateLocal, EvaluateDocker,
            EvaluateDockerSilent, WriteEval, ValidCard, BuildCard, WriteCard, InfraStatus,
            InfraPatch, InfraEval, InfraCard, InfraCardOpen, StartRaises, StartLeaks,
            StageRaises, RunStage, InfraStage
      <3>2. ~HasResult(DirOf[c]) /\ rows[c] = "none"
        BY <3>1, <2>r DEF ResultInv, NothingYet, Working, RunStage, InfraStage
      <3>3. RunStep(c) /\ UNCHANGED rows
        BY <2>6 DEF Run, schedVars
      <3>4. PICK e, o : \E s \in RunStage \cup {"end"} :
              /\ disk' = [disk EXCEPT ![DirOf[c]] = e]
              /\ outcome' = [outcome EXCEPT ![c] = o]
              /\ pc' = [pc EXCEPT ![c] = s]
              /\ StageGives(c, e, s, o)
        BY <2>6, <3>2, <3>3, RunResults
      <3> QED
        BY <3>2, <3>3, <3>4, OneWrite
    <2> QED
      BY <1>2, <2>1, <2>2, <2>3, <2>4, <2>5, <2>6 DEF CellStep
  <1>3. ASSUME NEW c \in Cells, BoxStops(c)
        PROVE  ResultInv' /\ ResultsKept
    BY <1>3
    DEF BoxStops, ContainerStops, schedVars, ResultInv, NothingYet, Working, Delivered,
        RowsComeLast, RowsTellTheDisk, HasResult, dsk, ResultsKept
  <1>4. CASE Finish \/ UNCHANGED vars
    BY <1>4
    DEF Finish, vars, pipeVars, localVars, schedVars, ResultInv, NothingYet, Working,
        Delivered, RowsComeLast, RowsTellTheDisk, HasResult, dsk, ResultsKept
  <1>5. CASE Crash
    <2>1. ResultsKept
      <3> SUFFICES ASSUME NEW d \in Dirs, HasResult(d)
                   PROVE  disk'[d] = disk[d]
        BY DEF ResultsKept
      <3>1. \A c \in Cells : pc[c] \in Logging => pc[c] \in RunStage \ {"close"}
        BY DEF Logging, RunStage
      <3>2. {c \in Cells : DirOf[c] = d /\ pc[c] \in Logging} = {}
        BY <3>1 DEF ResultInv, NothingYet, Working
      <3> QED
        BY <1>5, <3>2 DEF Crash, DiskAfterCrash
    <2>2. ResultInv'
      BY <1>5 DEF Crash, Forget, ResultInv, NothingYet, Working, Delivered, RowsComeLast,
                  RowsTellTheDisk, RunStage, InfraStage
    <2> QED
      BY <2>1, <2>2
  <1> QED
    BY <1>1, <1>2, <1>3, <1>4, <1>5 DEF Next, Stopped

\* A resumed experiment whose cells have distinct run directories never writes
\* to a run that has a result: neither retries nor relaunches nor concurrent
\* workers do, wherever the process died (run_experiment, _is_complete).
THEOREM ResultsAreKept ==
    ASSUME DistinctRunDirs, Resume
    PROVE  Spec => NoResultOverwritten
  <1>1. Init => ResultInv
    BY DEF Init, PipeInit, ResultInv, NothingYet, Working, Delivered, RowsComeLast,
           RowsTellTheDisk, RunStage, InfraStage
  <1>2. TypeOK /\ ResultInv /\ [Next]_vars => ResultInv'
    BY StepResults
  <1>3. TypeOK /\ ResultInv /\ [Next]_vars =>
            [\A d \in Dirs : HasResult(d) => disk'[d] = disk[d]]_vars
    BY StepResults DEF ResultsKept
  <1> QED
    BY <1>1, <1>2, <1>3, TypeCorrect, PTL DEF Spec, NoResultOverwritten

\* Under the same assumptions the rows of a launch say what is on disk: a result
\* where there is one, a failure of the infrastructure where that is recorded.
THEOREM RowsAreTruthful ==
    ASSUME DistinctRunDirs, Resume
    PROVE  Spec => []RowsTellTheDisk
  <1>1. Init => ResultInv
    BY DEF Init, PipeInit, ResultInv, NothingYet, Working, Delivered, RowsComeLast,
           RowsTellTheDisk, RunStage, InfraStage
  <1>2. TypeOK /\ ResultInv /\ [Next]_vars => ResultInv'
    BY StepResults
  <1>3. ResultInv => RowsTellTheDisk
    BY DEF ResultInv
  <1> QED
    BY <1>1, <1>2, <1>3, TypeCorrect, PTL DEF Spec

-----------------------------------------------------------------------------
(* The verdict is about the patch, if no old report is taken for a new one.  *)

\* A harness that leaves no report finds none of another patch in the directory.
ReportIsNew ==
    \A c \in Cells : EvaluateDockerSilent(c) => dsk(c).report \in {NoFile, cand[c]}

\* What a run directory holds when its run has come to stage s with patch p
\* extracted and verdict v in memory.
JudgesRight(e, s, p, v) ==
    /\ e.card = "whole" => e.eval = e.patch
    /\ s = "eval" => e.patch = p
    /\ s = "evalw" => e.patch = p /\ v = p
    /\ s \in {"card", "cardw"} => e.eval = e.patch
    /\ s = "i_eval" => e.patch = Empty
    /\ s \in {"i_card", "i_cardw"} => e.patch = Empty /\ e.eval = Empty

JudgesInv ==
    /\ EvalJudgesPatch
    /\ \A c \in Cells : JudgesRight(dsk(c), pc[c], cand[c], verdict[c])

\* What the writers leave of the card, the verdict and the patch.
LEMMA WriterVerdicts ==
    ASSUME NEW d \in Disk, NEW p, NEW fate, NEW torn
    PROVE  /\ Created(d).card = d.card /\ Created(d).eval = d.eval /\ Created(d).patch = d.patch
           /\ Appended(d).card = d.card /\ Appended(d).eval = d.eval
           /\ Appended(d).patch = d.patch
           /\ AppendCut(d, torn).card = d.card /\ AppendCut(d, torn).eval = d.eval
           /\ AppendCut(d, torn).patch = d.patch
           /\ StatusWritten(d).card = d.card /\ StatusWritten(d).eval = d.eval
           /\ StatusWritten(d).patch = d.patch
           /\ PatchWritten(d, p).card = d.card /\ PatchWritten(d, p).patch = p
           /\ EvalWritten(d, p).card = d.card /\ EvalWritten(d, p).eval = p
           /\ EvalWritten(d, p).patch = d.patch
           /\ CardOpened(d).card = "torn" /\ CardOpened(d).eval = d.eval
           /\ CardOpened(d).patch = d.patch
           /\ CardWritten(d, fate).eval = d.eval /\ CardWritten(d, fate).patch = d.patch
  <1>1. Appended(d) \in Disk
    BY DiskAppended
  <1>2. AppendCut(d, torn).card = Appended(d).card /\ AppendCut(d, torn).eval = Appended(d).eval
        /\ AppendCut(d, torn).patch = Appended(d).patch
    BY <1>1 DEF AppendCut, Disk
  <1>3. /\ Appended(d).card = d.card /\ Appended(d).eval = d.eval
        /\ Appended(d).patch = d.patch
    BY DEF Appended, Disk
  <1> QED
    BY <1>2, <1>3
    DEF Disk, Created, StatusWritten, PatchWritten, EvalWritten, CardOpened, CardWritten

\* One step of one cell that leaves its run judged right.
LEMMA OneJudged ==
    ASSUME TypeOK, DistinctRunDirs, JudgesInv, NEW c \in Cells, NEW e, NEW s, NEW p, NEW v,
           disk' = [disk EXCEPT ![DirOf[c]] = e],
           pc' = [pc EXCEPT ![c] = s],
           cand' = [cand EXCEPT ![c] = p],
           verdict' = [verdict EXCEPT ![c] = v],
           JudgesRight(e, s, p, v)
    PROVE  JudgesInv'
  <1>t. /\ disk \in [Dirs -> Disk] /\ pc \in [Cells -> Stage] /\ cand \in [Cells -> Artifact]
        /\ verdict \in [Cells -> Artifact] /\ \A b \in Cells : DirOf[b] \in Dirs
    BY DirOfAssumption DEF TypeOK
  <1>1. EvalJudgesPatch'
    <2> SUFFICES ASSUME NEW d \in Dirs, disk'[d].card = "whole"
                 PROVE  disk'[d].eval = disk'[d].patch
      BY DEF EvalJudgesPatch, HasResult
    <2>1. CASE d = DirOf[c]
      BY <2>1, <1>t DEF JudgesRight
    <2>2. CASE d # DirOf[c]
      BY <2>2, <1>t DEF JudgesInv, EvalJudgesPatch, HasResult
    <2> QED
      BY <2>1, <2>2
  <1>2. ASSUME NEW b \in Cells
        PROVE  JudgesRight(dsk(b), pc[b], cand[b], verdict[b])'
    <2>1. CASE b = c
      <3>1. disk'[DirOf[b]] = e /\ pc'[b] = s /\ cand'[b] = p /\ verdict'[b] = v
        BY <2>1, <1>t
      <3> QED
        BY <3>1 DEF JudgesRight, dsk
    <2>2. CASE b # c
      <3>1. /\ disk'[DirOf[b]] = disk[DirOf[b]] /\ pc'[b] = pc[b]
            /\ cand'[b] = cand[b] /\ verdict'[b] = verdict[b]
        BY <2>2, <1>t DEF DistinctRunDirs
      <3> QED
        BY <3>1 DEF JudgesInv, JudgesRight, dsk
    <2> QED
      BY <2>1, <2>2
  <1> QED
    BY <1>1, <1>2 DEF JudgesInv

\* Every stage before the finally clause leaves its run judged right.
LEMMA RunJudges ==
    ASSUME TypeOK, JudgesInv, ReportIsNew, NEW c \in Cells, RunStep(c), ~Close(c),
           ~HasResult(DirOf[c])
    PROVE  \E e, s, p, v :
              /\ disk' = [disk EXCEPT ![DirOf[c]] = e]
              /\ pc' = [pc EXCEPT ![c] = s]
              /\ cand' = [cand EXCEPT ![c] = p]
              /\ verdict' = [verdict EXCEPT ![c] = v]
              /\ JudgesRight(e, s, p, v)
  <1>d. /\ dsk(c) \in Disk /\ dsk(c).card # "whole"
        /\ disk = [disk EXCEPT ![DirOf[c]] = dsk(c)]
        /\ cand = [cand EXCEPT ![c] = cand[c]]
        /\ verdict = [verdict EXCEPT ![c] = verdict[c]]
    BY DirOfAssumption DEF TypeOK, dsk, HasResult
  <1>j. JudgesRight(dsk(c), pc[c], cand[c], verdict[c])
    BY DEF JudgesInv
  <1> USE DEF Goto, Put, NoFault, localVars
  <1>1. CASE StartWorkspace(c) \/ S0Snapshot(c) \/ Setup(c) \/ S1Snapshot(c)
    <2>1. UNCHANGED <<disk, cand, verdict>>
      BY <1>1 DEF StartWorkspace, S0Snapshot, CleanSnapshot, UncleanSnapshot, Setup, S1Snapshot
    <2>2. \E s \in {"s0", "setup", "s1", "agent", "i_status"} : pc' = [pc EXCEPT ![c] = s]
      BY <1>1 DEF StartWorkspace, S0Snapshot, CleanSnapshot, UncleanSnapshot, Setup, S1Snapshot
    <2> QED
      BY <2>1, <2>2, <1>d DEF JudgesRight
  <1>2. CASE AgentRun(c)
    <2>1. /\ UNCHANGED <<cand, verdict>> /\ pc' = [pc EXCEPT ![c] = "extract"]
          /\ disk' = [disk EXCEPT ![DirOf[c]] = Appended(dsk(c))]
      BY <1>2 DEF AgentRun
    <2>2. JudgesRight(Appended(dsk(c)), "extract", cand[c], verdict[c])
      BY <1>d, WriterVerdicts DEF JudgesRight
    <2> QED
      BY <2>1, <2>2, <1>d
  <1>3. CASE Extract(c)
    <2>1. /\ UNCHANGED <<disk, verdict>>
          /\ \E p : cand' = [cand EXCEPT ![c] = p]
          /\ \E s \in {"i_status", "patch"} : pc' = [pc EXCEPT ![c] = s]
      BY <1>3 DEF Extract
    <2> QED
      BY <2>1, <1>d DEF JudgesRight
  <1>4. CASE WritePatch(c)
    <2>1. /\ UNCHANGED <<cand, verdict>> /\ pc' = [pc EXCEPT ![c] = "eval"]
          /\ disk' = [disk EXCEPT ![DirOf[c]] = PatchWritten(dsk(c), cand[c])]
      BY <1>4 DEF WritePatch
    <2>2. JudgesRight(PatchWritten(dsk(c), cand[c]), "eval", cand[c], verdict[c])
      BY <1>d, WriterVerdicts DEF JudgesRight
    <2> QED
      BY <2>1, <2>2, <1>d
  <1>5. CASE EvaluateLocal(c)
    <2>1. /\ UNCHANGED <<disk, cand>> /\ pc[c] = "eval" /\ pc' = [pc EXCEPT ![c] = "evalw"]
          /\ verdict' = [verdict EXCEPT ![c] = cand[c]]
      BY <1>5 DEF EvaluateLocal
    <2>2. JudgesRight(dsk(c), "evalw", cand[c], cand[c])
      BY <2>1, <1>d, <1>j DEF JudgesRight
    <2> QED
      BY <2>1, <2>2, <1>d
  <1>6. CASE EvaluateDocker(c)
    <2> DEFINE e == [dsk(c) EXCEPT !.report = cand[c]]
    <2>1. /\ UNCHANGED cand /\ pc[c] = "eval" /\ pc' = [pc EXCEPT ![c] = "evalw"]
          /\ verdict' = [verdict EXCEPT ![c] = cand[c]]
          /\ disk' = [disk EXCEPT ![DirOf[c]] = e]
      BY <1>6 DEF EvaluateDocker
    <2>2. e.card = dsk(c).card /\ e.patch = dsk(c).patch /\ dsk(c).patch = cand[c]
      BY <2>1, <1>d, <1>j DEF JudgesRight, Disk
    <2>3. JudgesRight(e, "evalw", cand[c], cand[c])
      BY <2>2, <1>d DEF JudgesRight
    <2> HIDE DEF e
    <2> QED
      BY <2>1, <2>3, <1>d
  <1>14. CASE EvaluateDockerSilent(c)
    <2>1. UNCHANGED <<disk, cand>> /\ pc[c] = "eval"
      BY <1>14 DEF EvaluateDockerSilent
    <2>2. CASE /\ dsk(c).report # NoFile
               /\ verdict' = [verdict EXCEPT ![c] = dsk(c).report]
               /\ pc' = [pc EXCEPT ![c] = "evalw"]
      <3>1. dsk(c).report = cand[c]
        BY <1>14, <2>2 DEF ReportIsNew
      <3>2. JudgesRight(dsk(c), "evalw", cand[c], cand[c])
        BY <2>1, <1>d, <1>j DEF JudgesRight
      <3> QED
        BY <2>1, <2>2, <3>1, <3>2, <1>d
    <2>3. CASE UNCHANGED verdict /\ pc' = [pc EXCEPT ![c] = "close"]
      <3>1. JudgesRight(dsk(c), "close", cand[c], verdict[c])
        BY <1>d DEF JudgesRight
      <3> QED
        BY <2>1, <2>3, <3>1, <1>d
    <2> QED
      BY <1>14, <2>2, <2>3 DEF EvaluateDockerSilent
  <1>7. CASE WriteEval(c)
    <2>1. /\ UNCHANGED <<cand, verdict>> /\ pc[c] = "evalw" /\ pc' = [pc EXCEPT ![c] = "card"]
          /\ disk' = [disk EXCEPT ![DirOf[c]] = EvalWritten(dsk(c), verdict[c])]
      BY <1>7 DEF WriteEval
    <2>2. dsk(c).patch = cand[c] /\ verdict[c] = cand[c]
      BY <2>1, <1>j DEF JudgesRight
    <2>3. JudgesRight(EvalWritten(dsk(c), verdict[c]), "card", cand[c], verdict[c])
      BY <2>2, <1>d, WriterVerdicts DEF JudgesRight
    <2> QED
      BY <2>1, <2>3, <1>d
  <1>8. CASE ValidCard(c)
    <2>1. /\ UNCHANGED <<cand, verdict>> /\ dsk(c).eval = dsk(c).patch
      BY <1>8, <1>j DEF ValidCard, BuildCard, WriteCard, JudgesRight
    <2>2. \E s \in {"cardw", "close"} : pc' = [pc EXCEPT ![c] = s]
      BY <1>8 DEF ValidCard, BuildCard, WriteCard
    <2>3. \E e \in {dsk(c), CardOpened(dsk(c)), CardWritten(dsk(c), "valid")} :
              disk' = [disk EXCEPT ![DirOf[c]] = e]
      BY <1>8, <1>d DEF ValidCard, BuildCard, WriteCard
    <2>4. \A e \in {dsk(c), CardOpened(dsk(c)), CardWritten(dsk(c), "valid")} : e.eval = e.patch
      BY <2>1, <1>d, WriterVerdicts
    <2>5. PICK s \in {"cardw", "close"} : pc' = [pc EXCEPT ![c] = s]
      BY <2>2
    <2>6. PICK e \in {dsk(c), CardOpened(dsk(c)), CardWritten(dsk(c), "valid")} :
              disk' = [disk EXCEPT ![DirOf[c]] = e]
      BY <2>3
    <2>7. JudgesRight(e, s, cand[c], verdict[c])
      BY <2>4 DEF JudgesRight
    <2> QED
      BY <2>1, <2>5, <2>6, <2>7, <1>d
  <1>9. CASE InfraStatus(c)
    <2>1. /\ UNCHANGED <<cand, verdict>> /\ pc' = [pc EXCEPT ![c] = "i_patch"]
          /\ disk' = [disk EXCEPT ![DirOf[c]] = StatusWritten(dsk(c))]
      BY <1>9 DEF InfraStatus
    <2>2. JudgesRight(StatusWritten(dsk(c)), "i_patch", cand[c], verdict[c])
      BY <1>d, WriterVerdicts DEF JudgesRight
    <2> QED
      BY <2>1, <2>2, <1>d
  <1>10. CASE InfraPatch(c)
    <2>1. /\ UNCHANGED <<cand, verdict>>
          /\ \E s \in {"i_eval", "close"} : pc' = [pc EXCEPT ![c] = s]
          /\ disk' = [disk EXCEPT ![DirOf[c]] = PatchWritten(dsk(c), Empty)]
      BY <1>10 DEF InfraPatch
    <2>2. \A s \in {"i_eval", "close"} :
              JudgesRight(PatchWritten(dsk(c), Empty), s, cand[c], verdict[c])
      BY <1>d, WriterVerdicts DEF JudgesRight
    <2> QED
      BY <2>1, <2>2, <1>d
  <1>11. CASE InfraEval(c)
    <2>1. /\ UNCHANGED <<cand, verdict>> /\ pc[c] = "i_eval"
          /\ pc' = [pc EXCEPT ![c] = "i_card"]
          /\ disk' = [disk EXCEPT ![DirOf[c]] = EvalWritten(dsk(c), Empty)]
      BY <1>11 DEF InfraEval
    <2>2. JudgesRight(EvalWritten(dsk(c), Empty), "i_card", cand[c], verdict[c])
      BY <2>1, <1>d, <1>j, WriterVerdicts DEF JudgesRight
    <2> QED
      BY <2>1, <2>2, <1>d
  <1>12. CASE InfraCard(c)
    <2>1. /\ UNCHANGED <<cand, verdict>> /\ dsk(c).eval = Empty /\ dsk(c).patch = Empty
      BY <1>12, <1>j DEF InfraCard, InfraCardOpen, WriteCard, JudgesRight
    <2>2. \E s \in {"i_cardw", "close"} : pc' = [pc EXCEPT ![c] = s]
      BY <1>12 DEF InfraCard, InfraCardOpen, WriteCard
    <2>3. \E e \in {CardOpened(dsk(c)), CardWritten(dsk(c), "infra")} :
              disk' = [disk EXCEPT ![DirOf[c]] = e]
      BY <1>12 DEF InfraCard, InfraCardOpen, WriteCard
    <2>4. \A e \in {CardOpened(dsk(c)), CardWritten(dsk(c), "infra")} :
              e.eval = Empty /\ e.patch = Empty
      BY <2>1, <1>d, WriterVerdicts
    <2>5. PICK s \in {"i_cardw", "close"} : pc' = [pc EXCEPT ![c] = s]
      BY <2>2
    <2>6. PICK e \in {CardOpened(dsk(c)), CardWritten(dsk(c), "infra")} :
              disk' = [disk EXCEPT ![DirOf[c]] = e]
      BY <2>3
    <2>7. JudgesRight(e, s, cand[c], verdict[c])
      BY <2>1, <2>4 DEF JudgesRight
    <2> QED
      BY <2>1, <2>5, <2>6, <2>7, <1>d
  <1>13. CASE StageRaises(c)
    <2>1. UNCHANGED <<disk, cand, verdict>> /\ pc' = [pc EXCEPT ![c] = "close"]
      BY <1>13 DEF StageRaises
    <2>2. JudgesRight(dsk(c), "close", cand[c], verdict[c])
      BY <1>d DEF JudgesRight
    <2> QED
      BY <2>1, <2>2, <1>d
  <1>15. CASE StartRaises(c) \/ StartLeaks(c)
    <2>1. UNCHANGED <<disk, cand, verdict>> /\ pc' = [pc EXCEPT ![c] = "end"]
      BY <1>15 DEF StartRaises, StartLeaks
    <2>2. JudgesRight(dsk(c), "end", cand[c], verdict[c])
      BY <1>d DEF JudgesRight
    <2> QED
      BY <2>1, <2>2, <1>d
  <1> QED
    BY <1>1, <1>2, <1>3, <1>4, <1>5, <1>6, <1>7, <1>8, <1>9, <1>10, <1>11, <1>12, <1>13,
       <1>14, <1>15
    DEF RunStep

\* A step that leaves the directories and what is in memory as they are, and
\* takes the cells to stages that ask nothing of them, leaves all judged right.
LEMMA KeptJudged ==
    ASSUME JudgesInv, UNCHANGED disk,
           \A b \in Cells :
              \/ pc'[b] \in {"idle", "done"}
              \/ pc'[b] = pc[b] /\ cand'[b] = cand[b] /\ verdict'[b] = verdict[b]
    PROVE  JudgesInv'
  <1>1. ASSUME NEW b \in Cells
        PROVE  JudgesRight(dsk(b), pc[b], cand[b], verdict[b])'
    <2>1. JudgesRight(dsk(b), pc[b], cand[b], verdict[b]) /\ dsk(b)' = dsk(b)
      BY DEF JudgesInv, dsk
    <2>2. CASE pc'[b] \in {"idle", "done"}
      BY <2>1, <2>2 DEF JudgesRight
    <2>3. CASE pc'[b] = pc[b] /\ cand'[b] = cand[b] /\ verdict'[b] = verdict[b]
      BY <2>1, <2>3 DEF JudgesRight
    <2> QED
      BY <2>2, <2>3
  <1> QED
    BY <1>1 DEF JudgesInv, EvalJudgesPatch, HasResult

\* Every step leaves the verdicts right.
LEMMA StepJudges ==
    ASSUME TypeOK, DistinctRunDirs, Resume, ResultInv, JudgesInv, [Next]_vars,
           [ReportIsNew]_vars
    PROVE  JudgesInv'
  <1>t. /\ disk \in [Dirs -> Disk] /\ pc \in [Cells -> Stage] /\ cand \in [Cells -> Artifact]
        /\ verdict \in [Cells -> Artifact] /\ \A b \in Cells : DirOf[b] \in Dirs
    BY DirOfAssumption DEF TypeOK
  <1>1. CASE Launch
    <2>1. UNCHANGED disk /\ \A b \in Cells : pc'[b] = "idle"
      BY <1>1 DEF Launch, Forget
    <2> QED
      BY <2>1, KeptJudged
  <1>2. ASSUME ReportIsNew, NEW c \in Cells, CellStep(c)
        PROVE  JudgesInv'
    <2>1. CASE Skip(c) \/ Return(c) \/ GiveUp(c)
      <3>1. UNCHANGED <<disk, cand, verdict>> /\ pc' = [pc EXCEPT ![c] = "done"]
        BY <2>1 DEF Skip, Return, GiveUp, Goto, localVars
      <3>2. \A b \in Cells : pc'[b] \in {"idle", "done"} \/ pc'[b] = pc[b]
        BY <3>1, <1>t
      <3> QED
        BY <3>1, <3>2, KeptJudged
    <2>2. CASE Execute(c) \/ Retry(c)
      <3>1. ~HasResult(DirOf[c])
        <4>1. CASE Execute(c)
          BY <4>1 DEF Execute, IsComplete, HasResult, dsk
        <4>2. CASE Retry(c)
          BY <4>2 DEF Retry, ResultInv, NothingYet, Working
        <4> QED
          BY <2>2, <4>1, <4>2
      <3>2. /\ disk' = [disk EXCEPT ![DirOf[c]] = Created(dsk(c))]
            /\ pc' = [pc EXCEPT ![c] = "start"]
            /\ cand' = [cand EXCEPT ![c] = NoFile]
            /\ verdict' = [verdict EXCEPT ![c] = NoFile]
        BY <2>2 DEF Execute, Retry, Create, Put, Goto
      <3>3. Created(dsk(c)).card # "whole"
        BY <1>t, <3>1, WriterVerdicts DEF HasResult, dsk
      <3>4. JudgesRight(Created(dsk(c)), "start", NoFile, NoFile)
        BY <3>3 DEF JudgesRight
      <3> QED
        BY <3>2, <3>4, OneJudged
    <2>3. CASE Run(c) /\ Close(c)
      <3>1. UNCHANGED <<disk, cand, verdict>> /\ pc' = [pc EXCEPT ![c] = "end"]
        BY <2>3 DEF Run, Close, Goto
      <3>2. JudgesRight(dsk(c), "end", cand[c], verdict[c])
        BY DEF JudgesInv, JudgesRight
      <3>3. /\ disk' = [disk EXCEPT ![DirOf[c]] = dsk(c)]
            /\ cand' = [cand EXCEPT ![c] = cand[c]]
            /\ verdict' = [verdict EXCEPT ![c] = verdict[c]]
        BY <3>1, <1>t DEF dsk
      <3> QED
        BY <3>1, <3>2, <3>3, OneJudged
    <2>4. CASE Run(c) /\ ~Close(c)
      <3>1. pc[c] \in RunStage \ {"close"}
        BY <2>4
        DEF Run, RunStep, StartWorkspace, S0Snapshot, CleanSnapshot, UncleanSnapshot, Setup,
            S1Snapshot, AgentRun, Extract, WritePatch, EvaluateLocal, EvaluateDocker,
            EvaluateDockerSilent, WriteEval, ValidCard, BuildCard, WriteCard, InfraStatus,
            InfraPatch, InfraEval, InfraCard, InfraCardOpen, StartRaises, StartLeaks,
            StageRaises, RunStage, InfraStage
      <3>2. ~HasResult(DirOf[c]) /\ RunStep(c)
        BY <2>4, <3>1 DEF ResultInv, NothingYet, Working, Run
      <3>3. PICK e, s, p, v :
              /\ disk' = [disk EXCEPT ![DirOf[c]] = e]
              /\ pc' = [pc EXCEPT ![c] = s]
              /\ cand' = [cand EXCEPT ![c] = p]
              /\ verdict' = [verdict EXCEPT ![c] = v]
              /\ JudgesRight(e, s, p, v)
        BY <1>2, <2>4, <3>2, RunJudges
      <3> QED
        BY <3>3, OneJudged
    <2> QED
      BY <1>2, <2>1, <2>2, <2>3, <2>4 DEF CellStep
  <1>3. ASSUME NEW c \in Cells, BoxStops(c)
        PROVE  JudgesInv'
    <2>1. UNCHANGED <<disk, pc, cand, verdict>>
      BY <1>3 DEF BoxStops, ContainerStops
    <2> QED
      BY <2>1, KeptJudged
  <1>4. CASE Finish \/ UNCHANGED vars
    <2>1. UNCHANGED <<disk, pc, cand, verdict>>
      BY <1>4 DEF Finish, vars, pipeVars, localVars
    <2> QED
      BY <2>1, KeptJudged
  <1>5. CASE Crash
    <2>1. PICK cut : disk' = [d \in Dirs |-> DiskAfterCrash(d, cut)]
      BY <1>5 DEF Crash
    <2>2. \A d \in Dirs : /\ disk'[d].card = disk[d].card
                          /\ disk'[d].eval = disk[d].eval /\ disk'[d].patch = disk[d].patch
      BY <1>t, <2>1, WriterVerdicts DEF DiskAfterCrash
    <2>3. EvalJudgesPatch'
      BY <2>2 DEF JudgesInv, EvalJudgesPatch, HasResult
    <2>4. \A b \in Cells : pc'[b] = "idle"
      BY <1>5 DEF Crash, Forget
    <2>5. \A b \in Cells : disk'[DirOf[b]].card = "whole" => 
                               disk'[DirOf[b]].eval = disk'[DirOf[b]].patch
      BY <1>t, <2>3 DEF EvalJudgesPatch, HasResult
    <2>6. \A b \in Cells : JudgesRight(dsk(b), pc[b], cand[b], verdict[b])'
      BY <2>4, <2>5 DEF JudgesRight, dsk
    <2> QED
      BY <2>3, <2>6 DEF JudgesInv
  <1> QED
    BY <1>1, <1>2, <1>3, <1>4, <1>5 DEF Next, Stopped

\* A result on disk is about the patch beside it, over every sequence of kills,
\* retries and relaunches (run_single, _infrastructure_failure).  With the
\* official harness this rests on one thing, which the code does not look at
\* (evaluate_with_docker, _find_report): a harness that leaves no report finds
\* none of another patch in the directory.
THEOREM NewReportsJudgeThePatch ==
    ASSUME DistinctRunDirs, Resume
    PROVE  Spec /\ [][ReportIsNew]_vars => []EvalJudgesPatch
  <1>1. Init => ResultInv
    BY DEF Init, PipeInit, ResultInv, NothingYet, Working, Delivered, RowsComeLast,
           RowsTellTheDisk, RunStage, InfraStage
  <1>2. TypeOK /\ ResultInv /\ [Next]_vars => ResultInv'
    BY StepResults
  <1>3. Init => JudgesInv
    BY DirOfAssumption
    DEF Init, PipeInit, JudgesInv, JudgesRight, EvalJudgesPatch, HasResult, dsk, EmptyDisk
  <1>4. TypeOK /\ ResultInv /\ JudgesInv /\ [Next]_vars /\ [ReportIsNew]_vars => JudgesInv'
    BY StepJudges
  <1>5. JudgesInv => EvalJudgesPatch
    BY DEF JudgesInv
  <1> QED
    BY <1>1, <1>2, <1>3, <1>4, <1>5, TypeCorrect, PTL DEF Spec

\* When the run evaluates its patch itself there is no report, and nothing to
\* rest on (evaluate_patch).
THEOREM VerdictsAreOfThePatch ==
    ASSUME DistinctRunDirs, Resume, ~DockerEval
    PROVE  Spec => []EvalJudgesPatch
  <1>1. [ReportIsNew]_vars
    BY DEF ReportIsNew, EvaluateDockerSilent
  <1> QED
    BY <1>1, NewReportsJudgeThePatch, PTL

-----------------------------------------------------------------------------
(* A launch ends: the part of LaunchEnds that needs no fairness.             *)

\* How far a stage is from the row, at most.
Rank ==
    [s \in Stage |->
        CASE s = "done" -> 0
          [] s = "end" -> 1
          [] s = "close" -> 2
          [] s \in {"cardw", "i_cardw"} -> 3
          [] s \in {"card", "i_card"} -> 4
          [] s \in {"evalw", "i_eval"} -> 5
          [] s \in {"eval", "i_patch"} -> 6
          [] s \in {"patch", "i_status"} -> 7
          [] s = "extract" -> 8
          [] s = "agent" -> 9
          [] s = "s1" -> 10
          [] s = "setup" -> 11
          [] s = "s0" -> 12
          [] s = "start" -> 13
          [] s = "idle" -> 14]

\* The steps that are left to a cell: those of this attempt and of the retries.
StepsLeft(c) == 15 * (MaxInfraRetries - attempt[c]) + Rank[pc[c]]

\* A cell that waits has used no retry.
IdleIsFresh == \A c \in Cells : pc[c] = "idle" => attempt[c] = 0

\* No cell has steps without end before it, each step takes one away at least
\* and none from another cell, and a cell without any has its row.
StepsRunOut ==
    \A c \in Cells :
        /\ StepsLeft(c) \in Nat /\ StepsLeft(c) < 15 * (MaxInfraRetries + 1)
        /\ StepsLeft(c) = 0 => pc[c] = "done"

EachStepCounts ==
    \A c \in Cells :
        CellStep(c) => /\ StepsLeft(c)' < StepsLeft(c)
                       /\ \A b \in Cells \ {c} : StepsLeft(b)' = StepsLeft(b)

LEMMA RankIs ==
    /\ \A s \in Stage : Rank[s] \in 0 .. 14 /\ (Rank[s] = 0 => s = "done")
    /\ Rank["done"] = 0 /\ Rank["end"] = 1 /\ Rank["close"] = 2
    /\ Rank["cardw"] = 3 /\ Rank["i_cardw"] = 3 /\ Rank["card"] = 4 /\ Rank["i_card"] = 4
    /\ Rank["evalw"] = 5 /\ Rank["i_eval"] = 5 /\ Rank["eval"] = 6 /\ Rank["i_patch"] = 6
    /\ Rank["patch"] = 7 /\ Rank["i_status"] = 7 /\ Rank["extract"] = 8
    /\ Rank["agent"] = 9 /\ Rank["s1"] = 10 /\ Rank["setup"] = 11 /\ Rank["s0"] = 12
    /\ Rank["start"] = 13 /\ Rank["idle"] = 14
  BY DEF Rank, Stage, RunStage, InfraStage

LEMMA StepsAreCounted ==
    ASSUME TypeOK
    PROVE  StepsRunOut
  <1> SUFFICES ASSUME NEW c \in Cells
               PROVE  /\ StepsLeft(c) \in Nat /\ StepsLeft(c) < 15 * (MaxInfraRetries + 1)
                      /\ StepsLeft(c) = 0 => pc[c] = "done"
    BY DEF StepsRunOut
  <1> DEFINE n == attempt[c]
             r == Rank[pc[c]]
  <1>1. n \in 0 .. MaxInfraRetries /\ MaxInfraRetries \in Nat /\ pc[c] \in Stage
    BY SchedulerAssumption DEF TypeOK
  <1>2. r \in 0 .. 14 /\ (r = 0 => pc[c] = "done")
    BY <1>1, RankIs
  <1>3. StepsLeft(c) = 15 * (MaxInfraRetries - n) + r
    BY DEF StepsLeft
  <1> HIDE DEF n, r
  <1>4. MaxInfraRetries - n \in 0 .. MaxInfraRetries
    BY <1>1
  <1> QED
    BY <1>1, <1>2, <1>3, <1>4

\* The stages a run goes through, each nearer the end than the one before.
LEMMA StagesGoDown ==
    ASSUME TypeOK, NEW c \in Cells, RunStep(c)
    PROVE  \E s \in Stage : pc' = [pc EXCEPT ![c] = s] /\ Rank[s] < Rank[pc[c]]
  <1> USE DEF Goto, Stage, RunStage, InfraStage
  <1>1. CASE StartWorkspace(c) \/ S0Snapshot(c) \/ Setup(c) \/ S1Snapshot(c) \/ AgentRun(c)
    BY <1>1, RankIs DEF StartWorkspace, S0Snapshot, CleanSnapshot, UncleanSnapshot, Setup,
       S1Snapshot, AgentRun
  <1>2. CASE Extract(c) \/ WritePatch(c) \/ EvaluateLocal(c) \/ EvaluateDocker(c)
    BY <1>2, RankIs DEF Extract, WritePatch, EvaluateLocal, EvaluateDocker
  <1>3. CASE EvaluateDockerSilent(c) \/ WriteEval(c) \/ ValidCard(c)
    BY <1>3, RankIs DEF EvaluateDockerSilent, WriteEval, ValidCard, BuildCard, WriteCard
  <1>4. CASE InfraStatus(c) \/ InfraPatch(c) \/ InfraEval(c) \/ InfraCard(c)
    BY <1>4, RankIs DEF InfraStatus, InfraPatch, InfraEval, InfraCard, InfraCardOpen, WriteCard
  <1>5. CASE StartRaises(c) \/ StartLeaks(c) \/ Close(c)
    BY <1>5, RankIs DEF StartRaises, StartLeaks, Close
  <1>6. CASE StageRaises(c)
    <2>1. /\ pc' = [pc EXCEPT ![c] = "close"] /\ "close" \in Stage /\ Rank["close"] = 2
          /\ pc[c] \in RunStage \ {"start", "close"}
      BY <1>6, RankIs DEF StageRaises
    <2>2. Rank[pc[c]] > 2
      BY <2>1, RankIs
    <2> QED
      BY <2>1, <2>2
  <1> QED
    BY <1>1, <1>2, <1>3, <1>4, <1>5, <1>6 DEF RunStep

\* One cell goes to another stage, and perhaps to another attempt.
LEMMA OneCounts ==
    ASSUME TypeOK, NEW c \in Cells, NEW s \in Stage, NEW n \in Nat,
           pc' = [pc EXCEPT ![c] = s], attempt' = [attempt EXCEPT ![c] = n],
           15 * (MaxInfraRetries - n) + Rank[s] <
               15 * (MaxInfraRetries - attempt[c]) + Rank[pc[c]]
    PROVE  /\ StepsLeft(c)' < StepsLeft(c)
           /\ \A b \in Cells \ {c} : StepsLeft(b)' = StepsLeft(b)
  <1>1. pc \in [Cells -> Stage] /\ attempt \in [Cells -> 0 .. MaxInfraRetries]
    BY DEF TypeOK
  <1>2. pc'[c] = s /\ attempt'[c] = n
    BY <1>1
  <1>3. \A b \in Cells \ {c} : pc'[b] = pc[b] /\ attempt'[b] = attempt[b]
    BY <1>1
  <1>4. StepsLeft(c)' < StepsLeft(c)
    BY <1>2 DEF StepsLeft
  <1> QED
    BY <1>3, <1>4 DEF StepsLeft

LEMMA CellStepCounts ==
    ASSUME TypeOK, IdleIsFresh, NEW c \in Cells, CellStep(c)
    PROVE  /\ StepsLeft(c)' < StepsLeft(c)
           /\ \A b \in Cells \ {c} : StepsLeft(b)' = StepsLeft(b)
  <1>1. /\ attempt \in [Cells -> 0 .. MaxInfraRetries] /\ attempt[c] \in 0 .. MaxInfraRetries
        /\ MaxInfraRetries \in Nat /\ pc \in [Cells -> Stage] /\ pc[c] \in Stage
    BY SchedulerAssumption DEF TypeOK
  <1>2. attempt = [attempt EXCEPT ![c] = attempt[c]] /\ attempt[c] \in Nat
    BY <1>1
  <1>3. CASE Skip(c) \/ Return(c) \/ GiveUp(c)
    <2>1. /\ pc' = [pc EXCEPT ![c] = "done"] /\ attempt' = attempt
          /\ pc[c] \in {"idle", "end"}
      BY <1>3 DEF Skip, Return, GiveUp, Goto
    <2>2. "done" \in Stage /\ Rank["done"] = 0 /\ Rank[pc[c]] \in {1, 14}
      BY <2>1, RankIs DEF Stage
    <2>3. 15 * (MaxInfraRetries - attempt[c]) + Rank["done"] <
              15 * (MaxInfraRetries - attempt[c]) + Rank[pc[c]]
      BY <1>1, <2>2
    <2> QED
      BY <1>2, <2>1, <2>2, <2>3, OneCounts
  <1>4. CASE Execute(c)
    <2>1. /\ pc' = [pc EXCEPT ![c] = "start"] /\ attempt' = [attempt EXCEPT ![c] = 0]
          /\ pc[c] = "idle" /\ attempt[c] = 0
      BY <1>4 DEF Execute, Create, Goto, IdleIsFresh
    <2>2. "start" \in Stage /\ Rank["start"] = 13 /\ Rank[pc[c]] = 14
      BY <2>1, RankIs DEF Stage, RunStage
    <2>3. 15 * (MaxInfraRetries - attempt[c]) + Rank["start"] <
              15 * (MaxInfraRetries - attempt[c]) + Rank[pc[c]]
      BY <1>1, <2>2
    <2>4. attempt' = [attempt EXCEPT ![c] = attempt[c]]
      BY <2>1
    <2> QED
      BY <1>2, <2>1, <2>2, <2>3, <2>4, OneCounts
  <1>5. CASE Run(c)
    <2>1. PICK s \in Stage : pc' = [pc EXCEPT ![c] = s] /\ Rank[s] < Rank[pc[c]]
      BY <1>5, StagesGoDown DEF Run
    <2>2. attempt' = attempt
      BY <1>5 DEF Run, schedVars
    <2>3. Rank[s] \in 0 .. 14 /\ Rank[pc[c]] \in 0 .. 14
      BY <1>1, RankIs
    <2>4. 15 * (MaxInfraRetries - attempt[c]) + Rank[s] <
              15 * (MaxInfraRetries - attempt[c]) + Rank[pc[c]]
      BY <1>1, <2>1, <2>3
    <2> QED
      BY <1>2, <2>1, <2>2, <2>4, OneCounts
  <1>6. CASE Retry(c)
    <2>1. /\ pc' = [pc EXCEPT ![c] = "start"] /\ pc[c] = "end"
          /\ attempt[c] < MaxInfraRetries
          /\ attempt' = [attempt EXCEPT ![c] = attempt[c] + 1]
      BY <1>1, <1>6 DEF Retry, MayRetry, Create, Goto
    <2>2. "start" \in Stage /\ Rank["start"] = 13 /\ Rank[pc[c]] = 1
      BY <2>1, RankIs DEF Stage, RunStage
    <2>3. 15 * (MaxInfraRetries - (attempt[c] + 1)) + Rank["start"] <
              15 * (MaxInfraRetries - attempt[c]) + Rank[pc[c]]
      <3>1. \A m, n \in Nat : 15 * (m - (n + 1)) + 13 < 15 * (m - n) + 1
        OBVIOUS
      <3>2. 15 * (MaxInfraRetries - (attempt[c] + 1)) + 13 <
                15 * (MaxInfraRetries - attempt[c]) + 1
        BY <1>1, <1>2, <3>1, Zenon
      <3> QED
        BY <2>2, <3>2, Zenon
    <2>4. attempt[c] + 1 \in Nat
      BY <1>1
    <2> QED
      BY <2>1, <2>2, <2>3, <2>4, OneCounts
  <1> QED
    BY <1>3, <1>4, <1>5, <1>6 DEF CellStep

LEMMA StaysFresh ==
    ASSUME TypeOK, IdleIsFresh, [Next]_vars
    PROVE  IdleIsFresh'
  <1>1. pc \in [Cells -> Stage] /\ attempt \in [Cells -> 0 .. MaxInfraRetries]
    BY DEF TypeOK
  <1>2. ASSUME NEW c \in Cells, CellStep(c)
        PROVE  IdleIsFresh'
    <2>1. \E s \in Stage \ {"idle"} : pc' = [pc EXCEPT ![c] = s]
      <3>1. CASE Run(c)
        <4>1. PICK s \in Stage : pc' = [pc EXCEPT ![c] = s] /\ Rank[s] < Rank[pc[c]]
          BY <3>1, StagesGoDown DEF Run
        <4>2. s # "idle"
          BY <1>1, <4>1, RankIs
        <4> QED
          BY <4>1, <4>2
      <3>2. CASE Skip(c) \/ Return(c) \/ GiveUp(c) \/ Execute(c) \/ Retry(c)
        BY <3>2 DEF Skip, Return, GiveUp, Execute, Retry, Create, Goto, Stage, RunStage
      <3> QED
        BY <1>2, <3>1, <3>2 DEF CellStep
    <2>2. \A b \in Cells \ {c} : attempt'[b] = attempt[b]
      BY <1>1, <1>2 DEF CellStep, Skip, Execute, Run, schedVars, Return, Retry, GiveUp
    <2>3. \A b \in Cells : b # c => pc'[b] = pc[b]
      BY <1>1, <2>1
    <2>4. pc'[c] # "idle"
      BY <1>1, <2>1
    <2> QED
      BY <2>2, <2>3, <2>4 DEF IdleIsFresh
  <1>3. CASE Launch \/ Crash
    BY <1>3 DEF Launch, Crash, Forget, IdleIsFresh
  <1>4. ASSUME NEW c \in Cells, BoxStops(c) PROVE IdleIsFresh'
    BY <1>4 DEF BoxStops, ContainerStops, schedVars, IdleIsFresh
  <1>5. CASE Finish \/ UNCHANGED vars
    BY <1>5 DEF Finish, vars, pipeVars, schedVars, IdleIsFresh
  <1> QED
    BY <1>2, <1>3, <1>4, <1>5 DEF Next, Stopped

\* Whatever fails, and whatever earlier attempts left in the directories, a
\* cell takes less than 15 * (MaxInfraRetries + 1) steps in a launch: no stage
\* is come back to but by a retry, and retries are counted (_execute).  With the
\* fairness of the workers, and with no program on the host that keeps one
\* waiting for ever, LaunchEnds.
THEOREM LaunchesAreBounded == Spec => []StepsRunOut /\ [][EachStepCounts]_vars
  <1>1. Init => IdleIsFresh
    BY DEF Init, IdleIsFresh
  <1>2. TypeOK /\ IdleIsFresh /\ [Next]_vars => IdleIsFresh'
    BY StaysFresh
  <1>3. TypeOK => StepsRunOut
    BY StepsAreCounted
  <1>4. TypeOK /\ IdleIsFresh /\ [Next]_vars => [EachStepCounts]_vars
    BY CellStepCounts DEF EachStepCounts
  <1> QED
    BY <1>1, <1>2, <1>3, <1>4, TypeCorrect, PTL DEF Spec

=============================================================================
