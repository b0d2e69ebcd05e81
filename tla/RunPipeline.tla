------------------------------ MODULE RunPipeline -------------------------------
(*****************************************************************************)
(* run_single and _run_body (runner/run_manager.py) for the cells of an      *)
(* experiment: one action per stage of a run, each ending where a crash      *)
(* would find a different run directory or container.  The agent's work is   *)
(* AgentLoop's subject; here it yields some patch.                           *)
(*                                                                           *)
(* Faults, the events no code decides, are counted and bounded: a call that  *)
(* raises, an unclean tree, a container that stops, a harness that leaves no *)
(* new report.                                                               *)
(*****************************************************************************)
EXTENDS RunDirectory

CONSTANTS
    Cells,         \* entries of the schedule
    Dirs,          \* run directories
    DirOf,         \* the run directory of a cell: runs_root/experiment_id/run_id
    UseContainer,  \* the agent works in the instance image
    DockerEval,    \* the official harness judges the patch (real tasks)
    Helpers,       \* whether the condition can bring a C2 helper: a set of BOOLEANs
    MaxFaults      \* bound on the faults of a behaviour

ASSUME DirOfAssumption == DirOf \in [Cells -> Dirs]

ASSUME ModeAssumption ==
    /\ UseContainer \in BOOLEAN /\ DockerEval \in BOOLEAN
    /\ UseContainer => DockerEval

ASSUME HelpersAssumption == Helpers \subseteq BOOLEAN /\ Helpers # {}

ASSUME MaxFaultsAssumption == MaxFaults \in Nat

VARIABLES
    disk,     \* disk[d]: what is in run directory d
    pc,       \* pc[c]: the stage the run of cell c is in
    helper,   \* helper[c]: a helper is mounted
    before,   \* before[c]: helper hash read in the container before the agent
    box,      \* box[c]: the container of the attempt
    lost,     \* history: the container had stopped when the patch was extracted
    cand,     \* cand[c]: the extracted patch, final_diff
    verdict,  \* verdict[c]: the patch the evaluation result in memory judges
    outcome,  \* outcome[c]: how the attempt ended
    hit,      \* history: cells a fault has hit since the experiment was launched
    faults    \* faults so far

localVars == <<helper, before, box, lost, cand, verdict, outcome>>
pipeVars == <<disk, pc, localVars, hit, faults>>

InfraStage == {"i_status", "i_patch", "i_eval", "i_card", "i_cardw"}

RunStage == {"start", "s0", "setup", "s1", "agent", "extract", "patch", "eval",
             "evalw", "card", "cardw", "close"} \cup InfraStage

Stage == RunStage \cup {"idle", "end", "done"}

Running(c) == pc[c] \in RunStage

dsk(c) == disk[DirOf[c]]

Put(c, d) == disk' = [disk EXCEPT ![DirOf[c]] = d]

Goto(c, stage) == pc' = [pc EXCEPT ![c] = stage]

NoFault == UNCHANGED <<hit, faults>>

\* A fault hits cell c.
Fault(c) ==
    /\ faults < MaxFaults
    /\ faults' = faults + 1
    /\ hit' = hit \cup {c}

PipeInit ==
    /\ disk = [d \in Dirs |-> EmptyDisk]
    /\ pc = [c \in Cells |-> "idle"]
    /\ helper = [c \in Cells |-> FALSE]
    /\ before = [c \in Cells |-> "none"]
    /\ box = [c \in Cells |-> "none"]
    /\ lost = [c \in Cells |-> FALSE]
    /\ cand = [c \in Cells |-> NoFile]
    /\ verdict = [c \in Cells |-> NoFile]
    /\ outcome = [c \in Cells |-> "none"]
    /\ hit = {}
    /\ faults = 0

-----------------------------------------------------------------------------

\* run_single up to the workspace: the directory, task.json, run_spec.json, and
\* the helper with its mount.  A helper that cannot be had is no error.
Create(c) ==
    /\ Put(c, Created(dsk(c)))
    /\ \E h \in Helpers : helper' = [helper EXCEPT ![c] = h /\ UseContainer]
    /\ before' = [before EXCEPT ![c] = "none"]
    /\ lost' = [lost EXCEPT ![c] = FALSE]
    /\ cand' = [cand EXCEPT ![c] = NoFile]
    /\ verdict' = [verdict EXCEPT ![c] = NoFile]
    /\ outcome' = [outcome EXCEPT ![c] = "none"]
    /\ Goto(c, "start")
    /\ NoFault
    /\ UNCHANGED box

\* The agent's workspace: a container that is up, or a fresh host tree.  What an
\* earlier attempt left running is not followed any further.
StartWorkspace(c) ==
    /\ pc[c] = "start"
    /\ box' = [box EXCEPT ![c] = IF UseContainer THEN "up" ELSE "none"]
    /\ Goto(c, IF UseContainer THEN "s0" ELSE "setup")
    /\ NoFault
    /\ UNCHANGED <<disk, helper, before, lost, cand, verdict, outcome>>

\* The workspace cannot be made: docker run or git fails, before the try of
\* run_single.
StartRaises(c) ==
    /\ pc[c] = "start"
    /\ outcome' = [outcome EXCEPT ![c] = "raise"]
    /\ Goto(c, "end")
    /\ Fault(c)
    /\ UNCHANGED <<disk, helper, before, box, lost, cand, verdict>>

\* With a helper, ContainerWorkspace.start executes a command in the container
\* it has started.  If that raises, the caller never has the container, and no
\* finally clause removes it.
StartLeaks(c) ==
    /\ pc[c] = "start"
    /\ helper[c]
    /\ box' = [box EXCEPT ![c] = "leaked"]
    /\ outcome' = [outcome EXCEPT ![c] = "raise"]
    /\ Goto(c, "end")
    /\ Fault(c)
    /\ UNCHANGED <<disk, helper, before, lost, cand, verdict>>

\* A container stops by itself: its idle timeout has passed, or it was killed.
ContainerStops(c) ==
    /\ box[c] = "up" /\ Running(c)
    /\ box' = [box EXCEPT ![c] = "dead"]
    /\ Fault(c)
    /\ UNCHANGED <<disk, pc, helper, before, lost, cand, verdict, outcome>>

\* git_state at S0 and S1.  A stopped container answers nothing, which reads as
\* a clean tree; an unclean one sends the run to _infrastructure_failure.
CleanSnapshot(c, stage, next) ==
    /\ pc[c] = stage
    /\ Goto(c, next)
    /\ NoFault
    /\ UNCHANGED <<disk, localVars>>

UncleanSnapshot(c, stage) ==
    /\ pc[c] = stage
    /\ box[c] = "up"
    /\ Goto(c, "i_status")
    /\ Fault(c)
    /\ UNCHANGED <<disk, localVars>>

S0Snapshot(c) == CleanSnapshot(c, "s0", "setup") \/ UncleanSnapshot(c, "s0")

\* Support bundle, helper hash, gate baseline, isolation, manipulation check.
Setup(c) ==
    /\ pc[c] = "setup"
    /\ before' = [before EXCEPT ![c] = IF helper[c] /\ box[c] = "up" THEN "host" ELSE "none"]
    /\ Goto(c, IF UseContainer THEN "s1" ELSE "agent")
    /\ NoFault
    /\ UNCHANGED <<disk, helper, box, lost, cand, verdict, outcome>>

S1Snapshot(c) == CleanSnapshot(c, "s1", "agent") \/ UncleanSnapshot(c, "s1")

\* agent.run: appends to the streams; exceptions in it are recorded, not raised.
AgentRun(c) ==
    /\ pc[c] = "agent"
    /\ Put(c, Appended(dsk(c)))
    /\ Goto(c, "extract")
    /\ NoFault
    /\ UNCHANGED localVars

\* Mutant: the hashes before and after are compared with each other only.
ViolationIfChanged(host, bef, aft) == aft # bef

\* _helper_integrity_violation: the host hash must be known, seen before the
\* agent and still there after it.
HelperIntegrityViolation(host, bef, aft) ==
    host = "none" \/ bef # host \/ aft # bef

\* final_diff.  In the container a mounted helper is hashed again, and a
\* mismatch makes the run an infrastructure failure.
Extract(c) ==
    /\ pc[c] = "extract"
    /\ LET alive == ~UseContainer \/ box[c] = "up"
           after == IF alive THEN "host" ELSE "none"
       IN /\ lost' = [lost EXCEPT ![c] = ~alive]
          /\ \E p \in IF alive THEN Patches \cup {Empty} ELSE {Empty} :
                 cand' = [cand EXCEPT ![c] = p]
          /\ Goto(c, IF helper[c] /\ HelperIntegrityViolation("host", before[c], after)
                     THEN "i_status" ELSE "patch")
    /\ NoFault
    /\ UNCHANGED <<disk, helper, before, box, verdict, outcome>>

WritePatch(c) ==
    /\ pc[c] = "patch"
    /\ Put(c, PatchWritten(dsk(c), cand[c]))
    /\ Goto(c, "eval")
    /\ NoFault
    /\ UNCHANGED localVars

\* evaluate_patch: a fresh workspace, the patch, the tests.
EvaluateLocal(c) ==
    /\ pc[c] = "eval"
    /\ ~DockerEval
    /\ verdict' = [verdict EXCEPT ![c] = cand[c]]
    /\ Goto(c, "evalw")
    /\ NoFault
    /\ UNCHANGED <<disk, helper, before, box, lost, cand, outcome>>

\* evaluate_with_docker, the harness leaving a report on the patch.
EvaluateDocker(c) ==
    /\ pc[c] = "eval"
    /\ DockerEval
    /\ Put(c, [dsk(c) EXCEPT !.report = cand[c]])
    /\ verdict' = [verdict EXCEPT ![c] = cand[c]]
    /\ Goto(c, "evalw")
    /\ NoFault
    /\ UNCHANGED <<helper, before, box, lost, cand, outcome>>

\* evaluate_with_docker, the harness leaving no new report: its exit code is not
\* looked at and _find_report takes whatever an earlier attempt left there.
EvaluateDockerSilent(c) ==
    /\ pc[c] = "eval"
    /\ DockerEval
    /\ \/ /\ dsk(c).report # NoFile
          /\ verdict' = [verdict EXCEPT ![c] = dsk(c).report]
          /\ Goto(c, "evalw")
          /\ UNCHANGED outcome
       \/ /\ dsk(c).report = NoFile
          /\ outcome' = [outcome EXCEPT ![c] = "raise"]
          /\ Goto(c, "close")
          /\ UNCHANGED verdict
    /\ Fault(c)
    /\ UNCHANGED <<disk, helper, before, box, lost, cand>>

WriteEval(c) ==
    /\ pc[c] = "evalw"
    /\ Put(c, EvalWritten(dsk(c), verdict[c]))
    /\ Goto(c, "card")
    /\ NoFault
    /\ UNCHANGED localVars

\* build_card reads the streams back; the card file is opened, then written.
BuildCard(c, stage, next) ==
    /\ pc[c] = stage
    /\ \/ /\ StreamsParse(dsk(c))
          /\ Put(c, CardOpened(dsk(c)))
          /\ Goto(c, next)
          /\ UNCHANGED outcome
       \/ /\ ~StreamsParse(dsk(c))
          /\ outcome' = [outcome EXCEPT ![c] = "raise"]
          /\ Goto(c, "close")
          /\ UNCHANGED disk
    /\ NoFault
    /\ UNCHANGED <<helper, before, box, lost, cand, verdict>>

WriteCard(c, stage, result, fate) ==
    /\ pc[c] = stage
    /\ Put(c, CardWritten(dsk(c), fate))
    /\ outcome' = [outcome EXCEPT ![c] = result]
    /\ Goto(c, "close")
    /\ NoFault
    /\ UNCHANGED <<helper, before, box, lost, cand, verdict>>

ValidCard(c) == BuildCard(c, "card", "cardw") \/ WriteCard(c, "cardw", "ok", "valid")

-----------------------------------------------------------------------------
(* _infrastructure_failure: status.json first, then an empty patch, the card *)
(* is built, an empty verdict is written, and the card.                      *)

InfraStatus(c) ==
    /\ pc[c] = "i_status"
    /\ Put(c, StatusWritten(dsk(c)))
    /\ Goto(c, "i_patch")
    /\ NoFault
    /\ UNCHANGED localVars

\* The card is built between the patch and the verdict and may raise there.
InfraPatch(c) ==
    /\ pc[c] = "i_patch"
    /\ Put(c, PatchWritten(dsk(c), Empty))
    /\ \/ /\ StreamsParse(dsk(c))
          /\ Goto(c, "i_eval")
          /\ UNCHANGED outcome
       \/ /\ ~StreamsParse(dsk(c))
          /\ outcome' = [outcome EXCEPT ![c] = "raise"]
          /\ Goto(c, "close")
    /\ NoFault
    /\ UNCHANGED <<helper, before, box, lost, cand, verdict>>

InfraEval(c) ==
    /\ pc[c] = "i_eval"
    /\ Put(c, EvalWritten(dsk(c), Empty))
    /\ Goto(c, "i_card")
    /\ NoFault
    /\ UNCHANGED localVars

InfraCardOpen(c) ==
    /\ pc[c] = "i_card"
    /\ Put(c, CardOpened(dsk(c)))
    /\ Goto(c, "i_cardw")
    /\ NoFault
    /\ UNCHANGED localVars

InfraCard(c) == InfraCardOpen(c) \/ WriteCard(c, "i_cardw", "infra", "infra")

-----------------------------------------------------------------------------

\* A call of a stage raises: docker, the bundle, the baseline, git, the evaluator,
\* a write.  The finally clause runs next.
StageRaises(c) ==
    /\ pc[c] \in RunStage \ {"start", "close"}
    /\ outcome' = [outcome EXCEPT ![c] = "raise"]
    /\ Goto(c, "close")
    /\ Fault(c)
    /\ UNCHANGED <<disk, helper, before, box, lost, cand, verdict>>

\* Mutant: the container is only removed when the run returns an outcome.
BoxAfterReturnOnly(b, o) == IF o = "raise" THEN b ELSE "none"

\* What the finally clause leaves of container b of an attempt ending with o.
BoxAfter(b, o) == "none"

\* finally: container.close(), whatever happened.
Close(c) ==
    /\ pc[c] = "close"
    /\ box' = [box EXCEPT ![c] = BoxAfter(@, outcome[c])]
    /\ Goto(c, "end")
    /\ NoFault
    /\ UNCHANGED <<disk, helper, before, lost, cand, verdict, outcome>>

\* The stages of a run that only depend on the run itself.
RunStep(c) ==
    \/ StartWorkspace(c) \/ StartRaises(c) \/ StartLeaks(c)
    \/ S0Snapshot(c)
    \/ Setup(c)
    \/ S1Snapshot(c)
    \/ AgentRun(c)
    \/ Extract(c)
    \/ WritePatch(c)
    \/ EvaluateLocal(c) \/ EvaluateDocker(c) \/ EvaluateDockerSilent(c)
    \/ WriteEval(c)
    \/ ValidCard(c)
    \/ InfraStatus(c) \/ InfraPatch(c) \/ InfraEval(c) \/ InfraCard(c)
    \/ StageRaises(c)
    \/ Close(c)

=============================================================================
