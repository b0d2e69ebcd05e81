------------------------------- MODULE Scheduler --------------------------------
(*****************************************************************************)
(* run_experiment (experiment/scheduler.py): a launch of the experiment      *)
(* executes every cell of the schedule on a bounded number of workers,       *)
(* skipping the runs that are complete, retrying the attempts that raise,    *)
(* and ends by writing one row per cell.  The process may be killed at any   *)
(* step and launched again, as may an experiment that has finished.          *)
(*****************************************************************************)
EXTENDS RunPipeline, FiniteSets

CONSTANTS
    MaxWorkers,       \* max_workers
    MaxInfraRetries,  \* max_infra_retries
    Resume,           \* resume
    MaxLaunches       \* bound on the launches of a behaviour

ASSUME SchedulerAssumption ==
    /\ MaxWorkers \in Nat \ {0}
    /\ MaxInfraRetries \in Nat
    /\ Resume \in BOOLEAN
    /\ MaxLaunches \in Nat

VARIABLES
    proc,      \* the scheduler's process
    launches,  \* how often it has been launched
    attempt,   \* attempt[c]: the loop variable of _execute
    rows       \* rows[c]: what the row of cell c says

schedVars == <<proc, launches, attempt, rows>>
vars == <<pipeVars, schedVars>>

Row == {"none",     \* no row yet
        "ok", "infra",  \* _row_from_outcome, by its status
        "skipped",  \* _row_from_dir: resolved and quality as on disk, no status
        "reload",   \* _row_from_dir: error "reload failed"
        "error"}    \* the last attempt raised

Init ==
    /\ PipeInit
    /\ proc = "down"
    /\ launches = 0
    /\ attempt = [c \in Cells |-> 0]
    /\ rows = [c \in Cells |-> "none"]

-----------------------------------------------------------------------------

\* A new call of run_experiment, or a process that is gone, knows nothing of the
\* attempts made before.
Forget ==
    /\ pc' = [c \in Cells |-> "idle"]
    /\ rows' = [c \in Cells |-> "none"]
    /\ attempt' = [c \in Cells |-> 0]
    /\ helper' = [c \in Cells |-> FALSE]
    /\ before' = [c \in Cells |-> "none"]
    /\ lost' = [c \in Cells |-> FALSE]
    /\ cand' = [c \in Cells |-> NoFile]
    /\ verdict' = [c \in Cells |-> NoFile]
    /\ outcome' = [c \in Cells |-> "none"]

\* run_experiment is called.
Launch ==
    /\ proc # "up"
    /\ launches < MaxLaunches
    /\ proc' = "up"
    /\ launches' = launches + 1
    /\ hit' = {}
    /\ Forget
    /\ UNCHANGED <<disk, box, faults>>

\* A worker of the pool, or the loop of max_workers = 1, is free.
WorkerFree ==
    Cardinality({c \in Cells : pc[c] \notin {"idle", "done"}}) < MaxWorkers

\* Mutant: the row of a skipped run names the fate found on disk.
RowFromFate(d) == IF d.card = "whole" THEN d.fate ELSE "reload"

\* _row_from_dir: both files parse, or the row carries an error.
RowFromDir(d) == IF d.card = "whole" /\ d.eval # NoFile THEN "skipped" ELSE "reload"

\* _execute finds a complete run.
Skip(c) ==
    /\ proc = "up" /\ pc[c] = "idle" /\ WorkerFree
    /\ Resume /\ IsComplete(dsk(c))
    /\ rows' = [rows EXCEPT ![c] = RowFromDir(dsk(c))]
    /\ Goto(c, "done")
    /\ NoFault
    /\ UNCHANGED <<disk, localVars, proc, launches, attempt>>

\* _execute starts the first attempt of a run.
Execute(c) ==
    /\ proc = "up" /\ pc[c] = "idle" /\ WorkerFree
    /\ ~(Resume /\ IsComplete(dsk(c)))
    /\ attempt' = [attempt EXCEPT ![c] = 0]
    /\ Create(c)
    /\ UNCHANGED <<proc, launches, rows>>

Run(c) == proc = "up" /\ RunStep(c) /\ UNCHANGED schedVars

BoxStops(c) == proc = "up" /\ ContainerStops(c) /\ UNCHANGED schedVars

\* Mutant: an outcome is reported as a result whatever its status.
RowForgetsStatus(o) == "ok"

\* _row_from_outcome: the status of the row is the status of the outcome.
RowOf(o) == o

\* run_single has returned: its outcome becomes the row.
Return(c) ==
    /\ proc = "up" /\ pc[c] = "end"
    /\ outcome[c] \in {"ok", "infra"}
    /\ rows' = [rows EXCEPT ![c] = RowOf(outcome[c])]
    /\ Goto(c, "done")
    /\ NoFault
    /\ UNCHANGED <<disk, localVars, proc, launches, attempt>>

\* Mutant: an attempt that raised is always tried again.
RetryAlways(n) == TRUE

MayRetry(n) == n < MaxInfraRetries

\* run_single has raised and is tried again, in the same directory.
Retry(c) ==
    /\ proc = "up" /\ pc[c] = "end" /\ outcome[c] = "raise"
    /\ MayRetry(attempt[c])
    /\ attempt' = [attempt EXCEPT ![c] = IF @ < MaxInfraRetries THEN @ + 1 ELSE @]
    /\ Create(c)
    /\ UNCHANGED <<proc, launches, rows>>

\* The last attempt has raised: the row carries the error.
GiveUp(c) ==
    /\ proc = "up" /\ pc[c] = "end" /\ outcome[c] = "raise"
    /\ ~MayRetry(attempt[c])
    /\ rows' = [rows EXCEPT ![c] = "error"]
    /\ Goto(c, "done")
    /\ NoFault
    /\ UNCHANGED <<disk, localVars, proc, launches, attempt>>

\* Every cell has its row: the results file and the summary are written.
Finish ==
    /\ proc = "up"
    /\ \A c \in Cells : pc[c] = "done"
    /\ proc' = "finished"
    /\ UNCHANGED <<pipeVars, launches, attempt, rows>>

-----------------------------------------------------------------------------

\* Stages during which lines are added to transcript.jsonl or commands.jsonl:
\* the agent, and the git and test commands of a host workspace.
Logging == {"agent"} \cup (IF UseContainer THEN {} ELSE {"start", "extract"})
                     \cup (IF DockerEval THEN {} ELSE {"eval"})

\* A run directory when the process dies: the streams of the runs that were
\* logging keep some of their lines, the last one perhaps cut off.
DiskAfterCrash(d, cut) ==
    LET logging == {c \in Cells : DirOf[c] = d /\ pc[c] \in Logging}
    IN IF logging = {} THEN disk[d] ELSE AppendCut(disk[d], d \in cut)

\* The process is killed.  Its rows are lost, its containers live on with
\* nobody to remove them.
Crash ==
    /\ proc = "up"
    /\ faults < MaxFaults
    /\ faults' = faults + 1
    /\ hit' = Cells
    /\ proc' = "down"
    /\ \E cut \in SUBSET Dirs :
           disk' = [d \in Dirs |-> DiskAfterCrash(d, cut)]
    /\ box' = [c \in Cells |-> CASE box[c] = "up" -> "orphan"
                                 [] box[c] = "dead" -> "none"
                                 [] OTHER -> box[c]]
    /\ Forget
    /\ UNCHANGED launches

\* Nobody launches the experiment again.
Stopped ==
    /\ proc # "up"
    /\ launches = MaxLaunches
    /\ UNCHANGED vars

CellStep(c) == Skip(c) \/ Execute(c) \/ Run(c) \/ Return(c) \/ Retry(c) \/ GiveUp(c)

Next ==
    \/ Launch
    \/ \E c \in Cells : CellStep(c) \/ BoxStops(c)
    \/ Finish
    \/ Crash
    \/ Stopped

Spec == Init /\ [][Next]_vars

\* The worker of cell c waits for programs it has started on the host: git for
\* the workspace and the patch, gates and tests, the agent's commands.
InCommand(c) ==
    \/ ~UseContainer /\ pc[c] \in {"start", "setup", "agent", "extract"}
    \/ ~DockerEval /\ pc[c] = "eval"

\* A worker thread goes on with its run, and the main thread with its results,
\* as long as the process lives; nothing obliges anybody to launch it.  Nor does
\* anything oblige a program on the host to end: no call of subprocess.run in
\* the package has a timeout.  In a container every command ends with it, when
\* its "sleep 7200" does, and the harness has a timeout of its own; that docker
\* itself and the model's server answer is assumed.
FairSpec ==
    /\ Spec
    /\ \A c \in Cells : WF_vars(~InCommand(c) /\ CellStep(c))
    /\ WF_vars(Finish)

-----------------------------------------------------------------------------

TypeOK ==
    /\ disk \in [Dirs -> Disk]
    /\ pc \in [Cells -> Stage]
    /\ helper \in [Cells -> BOOLEAN]
    /\ before \in [Cells -> {"none", "host"}]
    /\ box \in [Cells -> {"none", "up", "dead", "orphan", "leaked"}]
    /\ lost \in [Cells -> BOOLEAN]
    /\ cand \in [Cells -> Artifact]
    /\ verdict \in [Cells -> Artifact]
    /\ outcome \in [Cells -> {"none", "ok", "infra", "raise"}]
    /\ hit \in SUBSET Cells
    /\ faults \in 0..MaxFaults
    /\ proc \in {"down", "up", "finished"}
    /\ launches \in 0..MaxLaunches
    /\ attempt \in [Cells -> 0..MaxInfraRetries]
    /\ rows \in [Cells -> Row]

HasResult(d) == disk[d].card = "whole"

\* A run whose card says how it ended is judged on the patch beside the card,
\* whatever attempts left in the directory before: final.patch and
\* eval_result.json are replaced by every attempt (run_manager.py:357-368).
EvalJudgesPatch ==
    \A d \in Dirs : HasResult(d) => disk[d].eval = disk[d].patch

\* An infrastructure failure never reaches the statistics, at whatever step the
\* process died: status.json is written before the files that make a directory
\* a run (run_manager.py:48-57, aggregate.py:52-62).
InfraNeverAnalysed ==
    \A d \in Dirs : HasResult(d) /\ disk[d].fate = "infra" => ~Loaded(disk[d])

\* What is on disk of a run that has a result is never written again: neither a
\* retry, nor a relaunch, nor another worker touches it (scheduler.py:95-96).
NoResultOverwritten ==
    [][\A d \in Dirs : HasResult(d) => disk'[d] = disk[d]]_vars

\* No container a run has worked in outlives the attempt, whatever way it ended
\* (run_manager.py:246-248).  What may be left running is the container of a
\* killed process and one whose own start failed after docker run, before the
\* try (container_workspace.py:168-172).
ContainersRemoved ==
    \A c \in Cells :
        pc[c] \in {"end", "done"} => box[c] \in {"none", "orphan", "leaked"}

\* The rows tell what is on disk: a result is a valid run there, a failure of
\* the infrastructure is one there, and a skipped run has a result.
RowsTellTheDisk ==
    \A c \in Cells :
        /\ rows[c] \in {"ok", "infra", "skipped"} => HasResult(DirOf[c])
        /\ rows[c] = "ok" => dsk(c).fate = "valid"
        /\ rows[c] = "infra" => dsk(c).fate = "infra"

\* With a helper mounted, a run whose container had stopped when its patch was
\* extracted is never scored: the hash of the helper is gone with it
\* (_helper_integrity_violation).
HelperRunsAreWhole ==
    \A c \in Cells : helper[c] /\ lost[c] => outcome[c] # "ok"

\* A launch comes to an end, provided that no program on the host keeps a worker
\* waiting for ever: every cell gets its row, whatever the directories of earlier
\* attempts make the stages do (bounded retries, scheduler.py:97).
LaunchEnds ==
    (\A c \in Cells : []<>~InCommand(c)) => ((proc = "up") ~> (proc # "up"))

-----------------------------------------------------------------------------
(* What the documents and comments of the repository say, and the runs show  *)
(* the code does not do.                                                     *)

\* run_manager.py:46, "Record an invalid run (unclean base tree) that must NOT
\* count as an agent failure": no row presents one as a result.
InfraRowsAreMarked ==
    \A c \in Cells : rows[c] \in {"ok", "skipped"} => dsk(c).fate # "infra"

\* aggregate.py:36, "Load all completed runs", only those "flagged
\* infrastructure_failure" excluded: a valid run is loaded.
ValidRunsAreLoaded ==
    \A d \in Dirs : HasResult(d) /\ disk[d].fate = "valid" => Loaded(disk[d])

\* scheduler.py:4-5, "completed runs are skipped by a deterministic run id +
\* completion marker": a run that is skipped had been completed.
SkippedRunsAreComplete == \A c \in Cells : rows[c] # "reload"

\* EXPERIMENT_PLAN_2026-07-21.md:1232, "interrupted experiments resume": in a
\* launch nothing went wrong in, no run ends in an error.
ErrorsHaveACause == \A c \in Cells : rows[c] = "error" => c \in hit

\* PROTOCOL_0.3.1_FREEZE.md:57, "Retry only infrastructure failures (bounded,
\* max_infra_retries)": one is reported after the retries.
InfraFailuresAreRetried ==
    \A c \in Cells : rows[c] = "infra" => attempt[c] = MaxInfraRetries

\* EXPERIMENT_PLAN_2026-07-21.md:969, "Never silently overwrite a failed run":
\* a patch on disk stays.
FailedRunsAreKept ==
    [][\A d \in Dirs : disk[d].patch # NoFile => disk'[d].patch = disk[d].patch]_vars

\* run_directory_spec.md:3-5, "Every run writes a self-contained directory.
\* This is the contract that makes post-hoc metric recomputation possible": the
\* streams a card counts turns in are those of one attempt.
StreamsAreOfOneAttempt ==
    \A d \in Dirs : HasResult(d) => disk[d].logged <= 1

=============================================================================
