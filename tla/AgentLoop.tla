------------------------------- MODULE AgentLoop -------------------------------
(*****************************************************************************)
(* LLMAgent.run (agents/llm_agent.py): the turn loop of the agent, with the  *)
(* C4 harness and the C3 gates it enforces, over the repository of Workspace,*)
(* and the extraction of the final patch by the runner once the loop is over.*)
(*                                                                           *)
(* The model's messages are nondeterministic: any set of records, any        *)
(* requested state, and bash blocks, SUBMIT or neither.  A bash block is one *)
(* of Commands, chosen when it runs.                                         *)
(*****************************************************************************)
EXTENDS Harness, Workspace

CONSTANTS
    Conditions,       \* the experimental conditions: [harness, gates] flags
    InContainer,      \* the workspace is an instance image, not a host clone
    Commands,         \* the kinds of commands the agent's bash blocks hold
    Edits,            \* what its edits write: <<file, content>> pairs
    MaxTurns,         \* max_turns of the loop
    MaxBlocksPerMsg,  \* _MAX_BLOCKS_PER_MSG: blocks of one message that run
    RevisionBudget    \* revision_budget of the gate policy

ASSUME ConditionsAssumption == Conditions \subseteq [harness : BOOLEAN, gates : BOOLEAN]

ASSUME InContainerAssumption == InContainer \in BOOLEAN

ASSUME CommandsAssumption == Commands \subseteq {"read", "edit", "python", "add", "commit"}

ASSUME EditsAssumption == Edits \subseteq File \X {"absent", "good", "bad"}

ASSUME BoundsAssumption ==
    /\ MaxTurns \in Nat
    /\ MaxBlocksPerMsg \in Nat \ {0}
    /\ RevisionBudget \in Nat

\* A host clone is made by "git checkout": it holds nothing git does not know.
ASSUME HostCloneAssumption == ~InContainer => BaseUntracked = {}

VARIABLES
    cond,            \* the condition of this run
    pc,              \* where the loop is
    step,            \* the turn counter
    left,            \* bash blocks of the current message still to run
    st,              \* harness.state
    records,         \* harness.records: the kinds recorded
    rejections,      \* harness.rejections: which actions were refused in which state
    repo,            \* the agent's repository
    patched,         \* history: files whose content was written in a state that may edit
    gate_revisions,  \* submissions sent back by the gates
    failing,         \* blocking gates failed on the last gate run
    submitted,       \* the loop ended with an accepted SUBMIT
    status,          \* RunStatus of the run
    patch            \* the final patch handed to the evaluator

vars == <<cond, pc, step, left, st, records, rejections, repo, patched,
          gate_revisions, failing, submitted, status, patch>>

harnessVars == <<st, records, rejections>>
gateVars == <<gate_revisions, failing>>
outcomeVars == <<submitted, status, patch>>

PC == {"turn", "blocks", "check", "submit", "finish", "extract", "done"}

InLoop == {"turn", "blocks", "check", "submit"}

Init ==
    /\ cond \in Conditions
    /\ pc = "turn"
    /\ step = 1
    /\ left = 0
    /\ st = "DISCOVER"
    /\ records = {}
    /\ rejections = {}
    /\ repo = StartRepo
    /\ patched = {}
    /\ gate_revisions = 0
    /\ failing = FALSE
    /\ submitted = FALSE
    /\ status = "completed"
    /\ patch = EmptyPatch

-----------------------------------------------------------------------------
(* One turn: the model answers, the runner applies the directives.           *)

\* _apply_harness_directives: records first, so that a message may satisfy the
\* prerequisites of the transition it asks for.  Without C4 nothing is parsed.
ApplyDirectives(recs, target) ==
    IF cond.harness
    THEN /\ records' = records \cup recs
         /\ st' = IF RequestTransition(st, target, records') THEN target ELSE st
         /\ UNCHANGED rejections
    ELSE UNCHANGED harnessVars

\* client.complete returns a message: recs are the record lines in it, target
\* the state named by its first NEXT_STATE line ("none" without one, "unknown"
\* when it names no state).  Bash blocks come before SUBMIT; a message with
\* neither only costs a turn.
Complete(recs, target, kind) ==
    /\ pc = "turn"
    /\ step <= MaxTurns
    /\ ApplyDirectives(recs, target)
    /\ \/ /\ kind = "bash"
          /\ pc' = "blocks"
          /\ left' \in 1..MaxBlocksPerMsg
          /\ step' = step
       \/ /\ kind = "submit"
          /\ pc' = "submit"
          /\ UNCHANGED <<left, step>>
       \/ /\ kind = "other"
          /\ step' = step + 1
          /\ UNCHANGED <<pc, left>>
    /\ UNCHANGED <<cond, repo, patched, gateVars, outcomeVars>>

-----------------------------------------------------------------------------
(* The bash blocks of a message.                                             *)

BlockDone ==
    /\ pc = "blocks"
    /\ left' = left - 1
    /\ pc' = IF left = 1 THEN "check" ELSE "blocks"
    /\ UNCHANGED <<cond, step, harnessVars, gateVars, outcomeVars>>

RunRead ==
    /\ "read" \in Commands
    /\ BlockDone
    /\ UNCHANGED <<repo, patched>>

RunEdit(f, c) ==
    /\ "edit" \in Commands
    /\ BlockDone
    /\ repo' = [repo EXCEPT !.wt[f] = c]
    /\ patched' = IF CanEdit(st) THEN patched \cup {f} ELSE patched \ {f}

\* Running the project's own code leaves caches in the working tree.
WithCaches(r) ==
    [r EXCEPT !.wt = [f \in File |-> IF f \in Ephemeral THEN "cache" ELSE r.wt[f]]]

RunPython ==
    /\ "python" \in Commands
    /\ BlockDone
    /\ repo' = WithCaches(repo)
    /\ UNCHANGED patched

RunGitAdd ==
    /\ "add" \in Commands
    /\ BlockDone
    /\ repo' = StageAll(repo, {})
    /\ UNCHANGED patched

RunGitCommit ==
    /\ "commit" \in Commands
    /\ BlockDone
    /\ repo' = [repo EXCEPT !.head = repo.idx]
    /\ UNCHANGED patched

\* Mutant: edits are tolerated until the harness knows a diagnosis is due.
EnforcesReadOnlyLate(s) == s = "DIAGNOSE" \/ s = "SUBMIT"

\* The states in which the blocks of a message may not leave the tree changed.
EnforcesReadOnly(s) == ~CanEdit(s)

\* After the blocks: a dirty tree in a state that may not edit is reverted and
\* the rejection logged.
RejectEdit ==
    /\ pc = "check"
    /\ cond.harness /\ EnforcesReadOnly(st) /\ IsDirty(repo)
    /\ repo' = RevertAll(repo)
    /\ patched' = {f \in patched : repo'.wt[f] = repo.wt[f]}
    /\ rejections' = rejections \cup {<<st, "edit">>}
    /\ step' = step + 1
    /\ pc' = "turn"
    /\ UNCHANGED <<cond, left, st, records, gateVars, outcomeVars>>

\* Mutant: a message whose blocks were accepted costs no turn.
AcceptBlocksSameTurn ==
    /\ pc = "check"
    /\ ~(cond.harness /\ EnforcesReadOnly(st) /\ IsDirty(repo))
    /\ pc' = "turn"
    /\ UNCHANGED <<cond, step, left, harnessVars, repo, patched, gateVars, outcomeVars>>

\* After the blocks: the tree is clean, or the state may edit, or nothing is
\* enforced.
AcceptBlocks ==
    /\ pc = "check"
    /\ ~(cond.harness /\ EnforcesReadOnly(st) /\ IsDirty(repo))
    /\ step' = step + 1
    /\ pc' = "turn"
    /\ UNCHANGED <<cond, left, harnessVars, repo, patched, gateVars, outcomeVars>>

-----------------------------------------------------------------------------
(* SUBMIT: the harness, then the gates.                                      *)

RejectSubmit ==
    /\ pc = "submit"
    /\ cond.harness /\ ~CanSubmit(st)
    /\ rejections' = rejections \cup {<<st, "submit">>}
    /\ step' = step + 1
    /\ pc' = "turn"
    /\ UNCHANGED <<cond, left, st, records, repo, patched, gateVars, outcomeVars>>

\* final_diff, called to list the changed files: on the host it stages into the
\* real index, in the container into a temporary one.  The gates then run on the
\* working tree and leave caches in it.
GateRepo(r) ==
    WithCaches(IF InContainer THEN r ELSE StageAll(r, Excluded))

\* blocking_failures: compileall, import and targeted_tests look at the tree.
GatesFail(r) == \E f \in File : r.wt[f] = "bad"

\* Mutant: one revision more than the budget.
MaySendBackLong(n) == n <= RevisionBudget

\* Another revision is allowed.
MaySendBack(n) == n < RevisionBudget

\* A blocking gate fails and revisions are left: feedback, no submission.
GateFeedback ==
    /\ pc = "submit"
    /\ cond.harness => CanSubmit(st)
    /\ cond.gates
    /\ repo' = GateRepo(repo)
    /\ failing' = GatesFail(repo')
    /\ failing' /\ MaySendBack(gate_revisions)
    /\ gate_revisions' = gate_revisions + 1
    /\ step' = step + 1
    /\ pc' = "turn"
    /\ UNCHANGED <<cond, left, harnessVars, patched, outcomeVars>>

\* The gates pass, or the budget is exhausted: the submission stands.
GateSubmit ==
    /\ pc = "submit"
    /\ cond.harness => CanSubmit(st)
    /\ cond.gates
    /\ repo' = GateRepo(repo)
    /\ failing' = GatesFail(repo')
    /\ ~(failing' /\ MaySendBack(gate_revisions))
    /\ submitted' = TRUE
    /\ pc' = "finish"
    /\ UNCHANGED <<cond, step, left, harnessVars, patched, gate_revisions, status, patch>>

SubmitUngated ==
    /\ pc = "submit"
    /\ cond.harness => CanSubmit(st)
    /\ ~cond.gates
    /\ submitted' = TRUE
    /\ pc' = "finish"
    /\ UNCHANGED <<cond, step, left, harnessVars, repo, patched, gateVars, status, patch>>

-----------------------------------------------------------------------------
(* The ends of the loop, and the final patch.                                *)

WallTimeout ==
    /\ pc = "turn"
    /\ step <= MaxTurns
    /\ status' = "timeout"
    /\ pc' = "finish"
    /\ UNCHANGED <<cond, step, left, harnessVars, repo, patched, gateVars, submitted, patch>>

\* Mutant: the for loop runs out and the status stays what it was.
OutOfTurnsSilent ==
    /\ pc = "turn"
    /\ step > MaxTurns
    /\ pc' = "finish"
    /\ UNCHANGED <<cond, step, left, harnessVars, repo, patched, gateVars, outcomeVars>>

OutOfTurns ==
    /\ pc = "turn"
    /\ step > MaxTurns
    /\ status' = "timeout"
    /\ pc' = "finish"
    /\ UNCHANGED <<cond, step, left, harnessVars, repo, patched, gateVars, submitted, patch>>

\* Any call of the loop may raise (the chat client, a subprocess, git): the
\* exception is recorded and the run goes on to extraction.
LoopRaises ==
    /\ pc \in InLoop
    /\ step <= MaxTurns
    /\ status' = "error"
    /\ pc' = "finish"
    /\ UNCHANGED <<cond, step, left, harnessVars, repo, patched, gateVars, submitted, patch>>

\* The agent writes its transition log and final message and returns.
Finish ==
    /\ pc = "finish"
    /\ pc' = "extract"
    /\ UNCHANGED <<cond, step, left, harnessVars, repo, patched, gateVars, outcomeVars>>

\* Mutant: host extraction diffs the index as the agent left it.
ExtractionRepoUnstaged(r) == r

\* The repository as it is when the host extracts the final patch.
ExtractionRepo(r) == IF InContainer THEN r ELSE StageAll(r, Excluded)

\* What the runner saw untracked at the container's start, before the agent: what
\* the image ships and the ignore rules do not hide.
Baseline == {f \in BaseUntracked : f \notin Hidden(StartTree)}

\* _run_body after agent.run: the patch against HEAD, without what is excluded.
Extract ==
    /\ pc = "extract"
    /\ repo' = ExtractionRepo(repo)
    /\ patch' = IF InContainer
                THEN DiffTempIndex(repo, Excluded \cup Baseline)
                ELSE DiffCached(repo')
    /\ pc' = "done"
    /\ UNCHANGED <<cond, step, left, harnessVars, patched, gateVars, submitted, status>>

Stopped ==
    /\ pc = "done"
    /\ UNCHANGED vars

-----------------------------------------------------------------------------

Answer ==
    \E recs \in SUBSET RecordKind, target \in HarnessState \cup {"none", "unknown"},
       kind \in {"bash", "submit", "other"} : Complete(recs, target, kind)

RunBlock ==
    \/ RunRead
    \/ \E e \in Edits : RunEdit(e[1], e[2])
    \/ RunPython
    \/ RunGitAdd
    \/ RunGitCommit

LoopStep ==
    \/ Answer
    \/ RunBlock
    \/ RejectEdit \/ AcceptBlocks
    \/ RejectSubmit \/ GateFeedback \/ GateSubmit \/ SubmitUngated
    \/ WallTimeout \/ OutOfTurns \/ LoopRaises
    \/ Finish \/ Extract

Next == LoopStep \/ Stopped

Spec == Init /\ [][Next]_vars

\* The loop is one thread that takes its next step when the call it waits for
\* returns.  A request to the model returns within the client library's timeout
\* and retries.  No command is run with a timeout: in a container one that hangs
\* ends when the container's own "sleep 7200" does, at the latest; on a host
\* nothing ends it, and this specification is for containers.
FairSpec == Spec /\ WF_vars(LoopStep)

-----------------------------------------------------------------------------
(* Properties.                                                               *)

\* Type invariant of the loop's variables (LLMAgent.run's locals, the harness
\* object and the repository).
TypeOK ==
    /\ cond \in Conditions
    /\ pc \in PC
    /\ step \in 1..(MaxTurns + 1)
    /\ left \in 0..MaxBlocksPerMsg
    /\ st \in HarnessState
    /\ records \subseteq RecordKind
    /\ rejections \subseteq HarnessState \X {"edit", "submit"}
    /\ repo \in Repo
    /\ patched \subseteq File
    /\ gate_revisions \in 0..RevisionBudget
    /\ failing \in BOOLEAN
    /\ submitted \in BOOLEAN
    /\ status \in {"completed", "timeout", "error"}
    /\ patch \in Patch

\* However the agent jumps, the harness is in a state only when the records of
\* all the states before it have been made: no PATCH without localization and
\* diagnosis, no SUBMIT without validation (request_transition's auto-walk).
EvidenceBeforeProgress ==
    RequiredBetween("DISCOVER", st) \subseteq records

\* A submission stands only if the workflow reached SUBMIT (under C4) and the
\* blocking gates passed on the submitted tree or every revision of the budget
\* was spent (under C3): no path of the loop lets a SUBMIT around them.
SubmissionEarned ==
    submitted =>
        /\ cond.harness => st = "SUBMIT" /\ records = RecordKind
        /\ cond.gates => ~failing \/ gate_revisions = RevisionBudget

\* The recorded status and the way the loop ended agree: the status stays
\* "completed" exactly when a SUBMIT was accepted, so a run that times out or
\* fails is never taken for a submitted one, nor the reverse.
StatusTellsSubmission ==
    pc \in {"finish", "extract", "done"} => (status = "completed" <=> submitted)

\* Before PATCH, once a message's blocks are done, what a C4 agent's blocks left
\* unstaged has been reverted, the files they created included (revert_all after
\* is_dirty).  What survives unstaged is only what git never looked at, a new
\* file that the ignore rules hide (or hid, if their file has just been deleted
\* itself), and an untracked file of the image, as the image ships it.
NoUnstagedEditBeforePatch ==
    cond.harness /\ pc = "turn" /\ st \in {"DISCOVER", "DIAGNOSE"} =>
        \A f \in File : repo.wt[f] # repo.idx[f] =>
            /\ repo.idx[f] = "absent"
            /\ \/ f \in Hidden(repo.wt) \/ repo.idx[IgnoreFile] = "absent"
               \/ f \in BaseUntracked /\ repo.wt[f] = "base"

\* The patch says of a file what the working tree has: it names it exactly when
\* it is not as in the base commit, with its content.
Carried(f) ==
    /\ f \in DOMAIN patch <=> repo.wt[f] # BaseTree[f]
    /\ f \in DOMAIN patch => patch[f] = repo.wt[f]

\* A file in the working tree that the ignore rules hide from git add: a new one
\* is left out of the patch, a tracked one whose deletion the agent has staged
\* (on the host, which extracts from the agent's index) counts as deleted.
LostToIgnoreRules(f) ==
    /\ f \in Hidden(repo.wt) /\ repo.wt[f] # "absent"
    /\ IF f \in Tracked
       THEN ~InContainer /\ f \in DOMAIN patch /\ patch[f] = "absent"
       ELSE f \notin DOMAIN patch

\* As long as the agent does not move HEAD, the final patch carries the working
\* tree: staged, unstaged, new and deleted files all reach the evaluator and
\* nothing else does, but for the excluded caches, what the image shipped, and
\* the files hidden by the ignore rules (final_diff on host and container).
PatchCarriesTheTree ==
    pc = "done" /\ repo.head = BaseTree =>
        \A f \in File \ (Excluded \cup Baseline) : Carried(f) \/ LostToIgnoreRules(f)

\* The loop ends: turns, blocks and revisions are all bounded, so a run in a
\* container always reaches the extraction of its patch.
LoopEnds == <>(pc = "done")

W == INSTANCE Workflow WITH
        enforced <- cond.harness, phase <- st, evidence <- records, delivered <- submitted

\* The turn loop implements the workflow that the C4 construct promises.
ImplementsWorkflow == W!WSpec

-----------------------------------------------------------------------------
(* Claims of the repository that the code does not keep.                     *)

\* llm_agent.py, on the revert: "reject edits made outside PATCH/VALIDATE by
\* reverting".  Stated as: the enforcement discards no edit made inside them.
RevertSparesPatchEdits ==
    [][pc = "check" => \A f \in patched : repo'.wt[f] = repo.wt[f]]_vars

\* prompts.py: "Edits attempted in DISCOVER or DIAGNOSE are automatically
\* reverted": between messages of these states no file holds an edit.
EarlyEditsReverted ==
    cond.harness /\ pc = "turn" /\ st \in {"DISCOVER", "DIAGNOSE"} =>
        \A f \in File : repo.wt[f] \notin {"good", "bad"}

\* workspace.py: "produce the final unified diff (git diff vs base)".  Stated as:
\* the patch names the files whose content differs from the base commit.
PatchIsAgainstBase ==
    pc = "done" =>
        \A f \in File \ (Excluded \cup Baseline) :
            f \in DOMAIN patch <=> repo.wt[f] # BaseTree[f]

\* container_workspace.py: untracked files at container start "are benign
\* base-image artifacts".  Stated as: an edit is rejected only when the agent
\* has edited something.
RejectedEditWasMade ==
    [][rejections' # rejections /\ pc = "check" => repo.wt # StartTree]_vars

\* gate_policy.py, the feedback of a failed gate: "fix before submitting".
\* Stated as: an agent that is sent back is in a state that may edit.
FeedbackCanBeActedOn ==
    [][gate_revisions' # gate_revisions /\ cond.harness => CanEdit(st')]_vars

=============================================================================
