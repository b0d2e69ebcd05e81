---------------------------- MODULE AgentLoop_proofs ----------------------------
(*****************************************************************************)
(* Theorems about AgentLoop, for every set of files, every set of commands,  *)
(* every number of turns, blocks and revisions, on the host and in a         *)
(* container.                                                                *)
(*****************************************************************************)
EXTENDS AgentLoop, TLAPS

-----------------------------------------------------------------------------
(* The harness operators.                                                    *)

\* The workflow is totally ordered: a state's place is a natural number and no
\* state lies before DISCOVER (ORDER.index).
LEMMA IndexFacts ==
    ASSUME NEW s \in HarnessState
    PROVE  Index(s) \in 0..4 /\ Index("DISCOVER") <= Index(s)
  BY DEF Index, HarnessState

\* The records required between two states, spelled out.
LEMMA RequiredBetweenMember ==
    ASSUME NEW a, NEW b, NEW k
    PROVE  k \in RequiredBetween(a, b) <=>
             \E u \in HarnessState :
                Index(a) <= Index(u) /\ Index(u) < Index(b) /\ k \in RequiredToLeave(u)
  BY DEF RequiredBetween

\* What must be recorded to be in t is what must be recorded to be in an earlier
\* s and what request_transition checks on the way from s to t.
LEMMA RequiredBetweenSplits ==
    ASSUME NEW s \in HarnessState, NEW t \in HarnessState, Index(s) <= Index(t),
           NEW recs,
           RequiredBetween("DISCOVER", s) \subseteq recs,
           RequiredBetween(s, t) \subseteq recs
    PROVE  RequiredBetween("DISCOVER", t) \subseteq recs
  <1> SUFFICES ASSUME NEW k \in RequiredBetween("DISCOVER", t)
               PROVE  k \in recs
    OBVIOUS
  <1>1. PICK u \in HarnessState : Index("DISCOVER") <= Index(u) /\ Index(u) < Index(t)
                                  /\ k \in RequiredToLeave(u)
    BY RequiredBetweenMember
  <1>2. Index(s) \in Int /\ Index(u) \in Int
    BY IndexFacts
  <1>3. CASE Index(u) < Index(s)
    BY <1>1, <1>3, RequiredBetweenMember
  <1>4. CASE Index(s) <= Index(u)
    BY <1>1, <1>4, RequiredBetweenMember
  <1> QED
    BY <1>2, <1>3, <1>4

\* Every record kind is required on the way to SUBMIT.
LEMMA SubmitNeedsAll == RequiredBetween("DISCOVER", "SUBMIT") = RecordKind
  <1>1. \A u \in HarnessState : RequiredToLeave(u) \subseteq RecordKind
    BY DEF HarnessState, RequiredToLeave, RecordKind
  <1>2. RequiredBetween("DISCOVER", "SUBMIT") \subseteq RecordKind
    BY <1>1, RequiredBetweenMember
  <1>3. /\ "localization" \in RequiredToLeave("DISCOVER")
        /\ "diagnosis" \in RequiredToLeave("DIAGNOSE")
        /\ "validation" \in RequiredToLeave("VALIDATE")
    BY DEF RequiredToLeave
  <1>4. \A u \in {"DISCOVER", "DIAGNOSE", "VALIDATE"} :
           u \in HarnessState /\ Index("DISCOVER") <= Index(u) /\ Index(u) < Index("SUBMIT")
    BY DEF HarnessState, Index
  <1>5. /\ "localization" \in RequiredBetween("DISCOVER", "SUBMIT")
        /\ "diagnosis" \in RequiredBetween("DISCOVER", "SUBMIT")
        /\ "validation" \in RequiredBetween("DISCOVER", "SUBMIT")
    BY <1>3, <1>4, RequiredBetweenMember
  <1> QED
    BY <1>2, <1>5 DEF RecordKind

-----------------------------------------------------------------------------
(* The repository operators keep their types.                                *)

\* Reverting, staging and leaving caches yield a repository again.
LEMMA RepoOperators ==
    ASSUME NEW r \in Repo
    PROVE  /\ RevertAll(r) \in Repo
           /\ \A ex : StageAll(r, ex) \in Repo
           /\ WithCaches(r) \in Repo
           /\ GateRepo(r) \in Repo
           /\ ExtractionRepo(r) \in Repo
  <1>1. \A q \in Repo : WithCaches(q) \in Repo
    BY DEF WithCaches, Repo, Tree, Content
  <1>2. \A q \in Repo : \A ex : StageAll(q, ex) \in Repo
    BY DEF StageAll, Repo, Tree
  <1>3. RevertAll(r) \in Repo
    <2>1. CheckedOut(r) \in Tree /\ r.idx \in Tree
      BY DEF CheckedOut, Repo, Tree
    <2> QED
      BY <2>1 DEF RevertAll, Repo, Tree
  <1> QED
    BY <1>1, <1>2, <1>3 DEF GateRepo, ExtractionRepo

\* A diff of a repository is a patch.
LEMMA DiffIsPatch ==
    ASSUME NEW r \in Repo
    PROVE  DiffCached(r) \in Patch
  <1> DEFINE D == {g \in File : r.idx[g] # r.head[g]}
  <1>1. DiffCached(r) \in [D -> Content]
    BY DEF DiffCached, Repo, Tree
  <1> QED
    BY <1>1 DEF Patch

-----------------------------------------------------------------------------
(* The inductive invariant.                                                  *)

\* While the loop runs nothing has been decided; blocks are run and submissions
\* are weighed only within the turn limit; and what the properties say.
LoopInv ==
    /\ pc \in InLoop => ~submitted /\ status = "completed"
    /\ pc \in {"blocks", "check", "submit"} => step <= MaxTurns
    /\ pc = "blocks" => left >= 1
    /\ EvidenceBeforeProgress
    /\ SubmissionEarned
    /\ StatusTellsSubmission

IInv == TypeOK /\ LoopInv

\* The loop starts in the invariant.
LEMMA InitIInv == Init => IInv
  <1> SUFFICES ASSUME Init PROVE IInv
    OBVIOUS
  <1>1. TypeOK
    <2>1. repo \in Repo
      BY DEF Init, StartRepo, StartTree, BaseTree, Repo, Tree, Content
    <2>2. patch \in Patch
      <3>1. EmptyPatch \in [{} -> Content]
        BY DEF EmptyPatch
      <3> QED BY <3>1 DEF Init, Patch
    <2>3. patched \subseteq File
      BY DEF Init
    <2>4. /\ step \in 1..(MaxTurns + 1) /\ left \in 0..MaxBlocksPerMsg
          /\ gate_revisions \in 0..RevisionBudget
      BY BoundsAssumption DEF Init
    <2>5. cond \in Conditions /\ pc \in PC /\ st \in HarnessState
      BY DEF Init, PC, HarnessState
    <2>6. records \subseteq RecordKind /\ rejections \subseteq HarnessState \X {"edit", "submit"}
      BY DEF Init
    <2>7. /\ failing \in BOOLEAN /\ submitted \in BOOLEAN
          /\ status \in {"completed", "timeout", "error"}
      BY DEF Init
    <2> QED
      BY <2>1, <2>2, <2>3, <2>4, <2>5, <2>6, <2>7 DEF TypeOK
  <1>2. RequiredBetween("DISCOVER", "DISCOVER") = {}
    BY RequiredBetweenMember, IndexFacts DEF HarnessState
  <1> QED
    BY <1>1, <1>2 DEF Init, IInv, LoopInv, InLoop, EvidenceBeforeProgress,
       SubmissionEarned, StatusTellsSubmission

\* The directives of a message keep the harness well-formed and its evidence
\* complete.
LEMMA DirectivesKeepEvidence ==
    ASSUME IInv, NEW recs \in SUBSET RecordKind, NEW target, ApplyDirectives(recs, target)
    PROVE  /\ st' \in HarnessState
           /\ records' \subseteq RecordKind
           /\ rejections' = rejections
           /\ records \subseteq records'
           /\ Index(st) <= Index(st')
           /\ EvidenceBeforeProgress'
           /\ ~cond.harness => st' = st /\ records' = records
  <1> USE DEF IInv, LoopInv, TypeOK
  <1>1. CASE ~cond.harness
    BY <1>1, IndexFacts DEF ApplyDirectives, harnessVars, EvidenceBeforeProgress
  <1>2. CASE cond.harness /\ RequestTransition(st, target, records')
    <2>1. /\ st' = target /\ target \in HarnessState /\ Index(st) < Index(target)
          /\ RequiredBetween(st, target) \subseteq records'
          /\ records' = records \cup recs /\ rejections' = rejections
      BY <1>2 DEF ApplyDirectives, RequestTransition
    <2>2. Index(st) <= Index(target)
      BY <2>1, IndexFacts
    <2>3. RequiredBetween("DISCOVER", st) \subseteq records'
      BY <2>1 DEF EvidenceBeforeProgress
    <2>4. RequiredBetween("DISCOVER", target) \subseteq records'
      BY <2>1, <2>2, <2>3, RequiredBetweenSplits
    <2> QED
      BY <1>2, <2>1, <2>2, <2>4 DEF EvidenceBeforeProgress
  <1>3. CASE cond.harness /\ ~RequestTransition(st, target, records')
    BY <1>3, IndexFacts DEF ApplyDirectives, EvidenceBeforeProgress
  <1> QED
    BY <1>1, <1>2, <1>3

\* An answer of the model keeps it: directives only move forward, with evidence.
LEMMA CompleteIInv ==
    ASSUME IInv, NEW recs \in SUBSET RecordKind, NEW target, NEW kind,
           Complete(recs, target, kind)
    PROVE  IInv'
  <1>1. ApplyDirectives(recs, target)
    BY DEF Complete
  <1>2. /\ st' \in HarnessState /\ records' \subseteq RecordKind /\ rejections' = rejections
        /\ EvidenceBeforeProgress'
    BY <1>1, DirectivesKeepEvidence
  <1>3. TypeOK'
    BY <1>2, BoundsAssumption
    DEF IInv, TypeOK, Complete, PC, gateVars, outcomeVars
  <1>4. pc' \in InLoop /\ ~submitted' /\ status' = "completed"
    BY DEF IInv, LoopInv, Complete, InLoop, outcomeVars
  <1>5. /\ pc' \in {"blocks", "check", "submit"} => step' <= MaxTurns
        /\ pc' = "blocks" => left' >= 1
    BY BoundsAssumption DEF IInv, LoopInv, Complete
  <1> QED
    BY <1>2, <1>3, <1>4, <1>5 DEF IInv, LoopInv, SubmissionEarned, StatusTellsSubmission, InLoop

\* A bash block changes the repository only.
LEMMA BlockIInv == IInv /\ RunBlock => IInv'
  <1> SUFFICES ASSUME IInv, RunBlock PROVE IInv'
    OBVIOUS
  <1>1. BlockDone
    BY DEF RunBlock, RunRead, RunEdit, RunPython, RunGitAdd, RunGitCommit
  <1>2. repo' \in Repo /\ patched' \subseteq File
    <2> USE DEF IInv, TypeOK
    <2>1. CASE RunRead
      BY <2>1 DEF RunRead
    <2>2. ASSUME NEW e \in Edits, RunEdit(e[1], e[2])
          PROVE  repo' \in Repo /\ patched' \subseteq File
      <3>1. e[1] \in File /\ e[2] \in Content
        BY EditsAssumption DEF Content
      <3> QED
        BY <2>2, <3>1 DEF RunEdit, Repo, Tree
    <2>3. CASE RunPython
      BY <2>3, RepoOperators DEF RunPython
    <2>4. CASE RunGitAdd
      BY <2>4, RepoOperators DEF RunGitAdd
    <2>5. CASE RunGitCommit
      BY <2>5 DEF RunGitCommit, Repo
    <2> QED
      BY <2>1, <2>2, <2>3, <2>4, <2>5 DEF RunBlock
  <1>3. TypeOK'
    BY <1>1, <1>2, BoundsAssumption
    DEF IInv, LoopInv, TypeOK, BlockDone, PC, harnessVars, gateVars, outcomeVars
  <1> QED
    BY <1>1, <1>3, BoundsAssumption
    DEF IInv, LoopInv, TypeOK, BlockDone, InLoop, harnessVars, gateVars, outcomeVars,
        EvidenceBeforeProgress, SubmissionEarned, StatusTellsSubmission

\* What follows the blocks, or a rejected SUBMIT, keeps it.
LEMMA CheckIInv == IInv /\ (RejectEdit \/ AcceptBlocks \/ RejectSubmit) => IInv'
  <1> USE DEF IInv, LoopInv, TypeOK, PC, InLoop, harnessVars, gateVars, outcomeVars,
              EvidenceBeforeProgress, SubmissionEarned, StatusTellsSubmission
  <1>1. ASSUME IInv, RejectEdit PROVE IInv'
    <2>1. repo' \in Repo
      BY <1>1, RepoOperators DEF RejectEdit
    <2>2. patched' \subseteq File
      BY <1>1 DEF RejectEdit
    <2>3. step' \in 1..(MaxTurns + 1)
      BY <1>1, BoundsAssumption DEF RejectEdit
    <2> QED
      BY <1>1, <2>1, <2>2, <2>3 DEF RejectEdit
  <1>2. ASSUME IInv, AcceptBlocks PROVE IInv'
    <2>1. step' \in 1..(MaxTurns + 1)
      BY <1>2, BoundsAssumption DEF AcceptBlocks
    <2> QED
      BY <1>2, <2>1 DEF AcceptBlocks
  <1>3. ASSUME IInv, RejectSubmit PROVE IInv'
    <2>1. step' \in 1..(MaxTurns + 1)
      BY <1>3, BoundsAssumption DEF RejectSubmit
    <2> QED
      BY <1>3, <2>1 DEF RejectSubmit
  <1> QED
    BY <1>1, <1>2, <1>3

\* The gates keep it: a submission stands on a passing tree or a spent budget.
LEMMA GateIInv == IInv /\ (GateFeedback \/ GateSubmit \/ SubmitUngated) => IInv'
  <1> USE DEF IInv, LoopInv, TypeOK, PC, InLoop, harnessVars, gateVars, outcomeVars,
              EvidenceBeforeProgress, SubmissionEarned, StatusTellsSubmission
  <1>1. ASSUME IInv, GateFeedback PROVE IInv'
    <2>1. repo' \in Repo
      BY <1>1, RepoOperators DEF GateFeedback
    <2>2. step' \in 1..(MaxTurns + 1) /\ gate_revisions' \in 0..RevisionBudget
      BY <1>1, BoundsAssumption DEF GateFeedback, MaySendBack
    <2>3. failing' \in BOOLEAN
      BY <1>1 DEF GateFeedback, GatesFail
    <2> QED
      BY <1>1, <2>1, <2>2, <2>3 DEF GateFeedback
  <1>2. ASSUME IInv, GateSubmit PROVE IInv'
    <2>1. repo' \in Repo
      BY <1>2, RepoOperators DEF GateSubmit
    <2>2. failing' \in BOOLEAN
      BY <1>2 DEF GateSubmit, GatesFail
    <2>3. ~failing' \/ gate_revisions' = RevisionBudget
      BY <1>2, BoundsAssumption DEF GateSubmit, MaySendBack
    <2>4. cond.harness => st = "SUBMIT" /\ records = RecordKind
      BY <1>2, SubmitNeedsAll DEF GateSubmit, CanSubmit
    <2>5. TypeOK'
      BY <1>2, <2>1, <2>2 DEF GateSubmit
    <2> QED
      BY <1>2, <2>3, <2>4, <2>5 DEF GateSubmit
  <1>3. ASSUME IInv, SubmitUngated PROVE IInv'
    <2>1. cond.harness => st = "SUBMIT" /\ records = RecordKind
      BY <1>3, SubmitNeedsAll DEF SubmitUngated, CanSubmit
    <2> QED
      BY <1>3, <2>1 DEF SubmitUngated
  <1> QED
    BY <1>1, <1>2, <1>3

\* The ends of the loop and the extraction keep it.
LEMMA EndIInv ==
    IInv /\ (WallTimeout \/ OutOfTurns \/ LoopRaises \/ Finish \/ Extract) => IInv'
  <1> USE DEF IInv, LoopInv, TypeOK, PC, InLoop, harnessVars, gateVars, outcomeVars,
              EvidenceBeforeProgress, SubmissionEarned, StatusTellsSubmission
  <1>1. ASSUME IInv, WallTimeout \/ OutOfTurns PROVE IInv'
    BY <1>1 DEF WallTimeout, OutOfTurns
  <1>2. ASSUME IInv, LoopRaises PROVE IInv'
    BY <1>2 DEF LoopRaises
  <1>3. ASSUME IInv, Finish PROVE IInv'
    BY <1>3 DEF Finish
  <1>4. ASSUME IInv, Extract PROVE IInv'
    <2>1. repo' \in Repo
      BY <1>4, RepoOperators DEF Extract
    <2>2. DiffTempIndex(repo, Excluded \cup Baseline) \in Patch
      <3>1. [repo EXCEPT !.idx = repo.head] \in Repo
        BY <1>4 DEF Repo
      <3> QED
        BY <3>1, RepoOperators, DiffIsPatch DEF DiffTempIndex
    <2>3. patch' \in Patch
      BY <1>4, <2>1, <2>2, DiffIsPatch DEF Extract
    <2> QED
      BY <1>4, <2>1, <2>3 DEF Extract
  <1> QED
    BY <1>1, <1>2, <1>3, <1>4

\* Every step keeps the invariant.
LEMMA StepIInv == IInv /\ [Next]_vars => IInv'
  <1> SUFFICES ASSUME IInv, [Next]_vars PROVE IInv'
    OBVIOUS
  <1>1. CASE Answer
    BY <1>1, CompleteIInv DEF Answer
  <1>2. CASE RunBlock
    BY <1>2, BlockIInv
  <1>3. CASE RejectEdit \/ AcceptBlocks \/ RejectSubmit
    BY <1>3, CheckIInv
  <1>4. CASE GateFeedback \/ GateSubmit \/ SubmitUngated
    BY <1>4, GateIInv
  <1>5. CASE WallTimeout \/ OutOfTurns \/ LoopRaises \/ Finish \/ Extract
    BY <1>5, EndIInv
  <1>6. CASE UNCHANGED vars
    BY <1>6 DEF vars, IInv, LoopInv, TypeOK, PC, InLoop, EvidenceBeforeProgress,
       SubmissionEarned, StatusTellsSubmission
  <1> QED
    BY <1>1, <1>2, <1>3, <1>4, <1>5, <1>6 DEF Next, LoopStep, Stopped

\* The invariant holds of every behavior.
LEMMA Invariance == Spec => []IInv
  BY InitIInv, StepIInv, PTL DEF Spec

-----------------------------------------------------------------------------
(* Theorems.                                                                 *)

\* The loop's variables keep their types (LLMAgent.run).
THEOREM TypeCorrect == Spec => []TypeOK
  BY Invariance, PTL DEF IInv

\* No state of the workflow is reached without the records of the states before
\* it, whatever jumps the agent asks for (request_transition).
THEOREM EvidenceIsComplete == Spec => []EvidenceBeforeProgress
  BY Invariance, PTL DEF IInv, LoopInv

\* No submission gets around the workflow or the gates (lines 157-198 of the
\* loop).
THEOREM SubmissionsAreEarned == Spec => []SubmissionEarned
  BY Invariance, PTL DEF IInv, LoopInv

\* A run's status says whether it submitted.
THEOREM StatusIsTruthful == Spec => []StatusTellsSubmission
  BY Invariance, PTL DEF IInv, LoopInv

-----------------------------------------------------------------------------
(* The read-only phases.                                                     *)

\* The states before PATCH.
Early == {"DISCOVER", "DIAGNOSE"}

\* What differs unstaged is what git does not look at, or the image's own.
Unseen(r) ==
    \A f \in File : r.wt[f] # r.idx[f] =>
        /\ r.idx[f] = "absent"
        /\ \/ f \in Hidden(r.wt) \/ r.idx[IgnoreFile] = "absent"
           \/ f \in BaseUntracked /\ r.wt[f] = "base"

\* Outside the blocks of a message that holds of an agent that may not edit yet.
\* NoUnstagedEditBeforePatch says so between messages; a message that submits
\* must be covered as well.
ReadOnlyInv ==
    cond.harness /\ pc \in {"turn", "submit"} /\ st \in Early => Unseen(repo)

\* Reverting leaves nothing else, whatever was there: the file of the ignore
\* rules is restored before they are used.
LEMMA RevertLeavesUnseen ==
    ASSUME NEW r \in Repo
    PROVE  Unseen(RevertAll(r))
  <1> DEFINE w == CheckedOut(r)
             q == RevertAll(r)
  <1>1. q.idx = r.idx
    BY DEF RevertAll, Repo
  <1>2. \A f \in File : q.wt[f] = IF f \in Hidden(w) THEN w[f] ELSE r.idx[f]
    BY DEF RevertAll, Repo
  <1>3. \A f \in File : r.idx[f] # "absent" => w[f] = r.idx[f]
    BY DEF CheckedOut
  <1>4. r.idx[IgnoreFile] # "absent" => Hidden(q.wt) = Hidden(w)
    BY <1>2, <1>3, IgnoreRulesAssumption DEF Hidden
  <1> HIDE DEF w, q
  <1>5. ASSUME NEW f \in File, q.wt[f] # q.idx[f]
        PROVE  q.idx[f] = "absent" /\ f \in Hidden(w)
    BY <1>1, <1>2, <1>3, <1>5
  <1>6. Unseen(q)
    BY <1>1, <1>4, <1>5 DEF Unseen
  <1> QED
    BY <1>6 DEF q

\* A clean repository has nothing else either.
LEMMA CleanIsUnseen ==
    ASSUME NEW r, ~IsDirty(r)
    PROVE  Unseen(r)
  BY DEF IsDirty, Visible, Unseen

\* An answer does not touch the repository, nor leads back before PATCH.
LEMMA CompleteReadOnly ==
    ASSUME IInv, ReadOnlyInv, NEW recs \in SUBSET RecordKind, NEW target, NEW kind,
           Complete(recs, target, kind)
    PROVE  ReadOnlyInv'
  <1>1. Index(st) <= Index(st') /\ st' \in HarnessState
    BY DirectivesKeepEvidence DEF Complete
  <1>2. st' \in Early => st \in Early
    BY <1>1 DEF IInv, TypeOK, Early, HarnessState, Index
  <1> QED
    BY <1>2 DEF ReadOnlyInv, Unseen, Complete

\* Every step keeps the tree equal to the index before PATCH.
LEMMA StepReadOnly == IInv /\ ReadOnlyInv /\ [Next]_vars => ReadOnlyInv'
  <1> SUFFICES ASSUME IInv, ReadOnlyInv, [Next]_vars PROVE ReadOnlyInv'
    OBVIOUS
  <1>1. CASE Answer
    BY <1>1, CompleteReadOnly DEF Answer
  <1>2. CASE RunBlock
    <2>1. pc' \in {"check", "blocks"}
      BY <1>2 DEF RunBlock, RunRead, RunEdit, RunPython, RunGitAdd, RunGitCommit, BlockDone
    <2> QED
      BY <2>1 DEF ReadOnlyInv
  <1>3. CASE RejectEdit
    <2>1. repo \in Repo /\ repo' = RevertAll(repo)
      BY <1>3 DEF RejectEdit, IInv, TypeOK
    <2>2. Unseen(RevertAll(repo))
      BY <2>1, RevertLeavesUnseen
    <2>3. Unseen(repo')
      BY <2>1, <2>2
    <2> QED
      BY <2>3 DEF ReadOnlyInv, Unseen
  <1>4. CASE AcceptBlocks
    <2>1. cond.harness /\ st \in Early => ~IsDirty(repo)
      BY <1>4 DEF AcceptBlocks, EnforcesReadOnly, CanEdit, EDIT_STATES, Early
    <2>2. cond.harness /\ st \in Early => Unseen(repo)
      BY <2>1, CleanIsUnseen
    <2> QED
      BY <1>4, <2>2 DEF AcceptBlocks, ReadOnlyInv, Unseen, harnessVars
  <1>5. CASE RejectSubmit
    BY <1>5 DEF RejectSubmit, ReadOnlyInv, Unseen
  <1>6. CASE GateFeedback
    BY <1>6 DEF GateFeedback, ReadOnlyInv, CanSubmit, Early, harnessVars
  <1>7. CASE GateSubmit \/ SubmitUngated \/ WallTimeout \/ OutOfTurns \/ LoopRaises \/ Finish \/ Extract
    <2>1. pc' \in {"finish", "extract", "done"}
      BY <1>7 DEF GateSubmit, SubmitUngated, WallTimeout, OutOfTurns, LoopRaises, Finish, Extract
    <2> QED
      BY <2>1 DEF ReadOnlyInv
  <1>8. CASE UNCHANGED vars
    BY <1>8 DEF vars, ReadOnlyInv, Unseen
  <1> QED
    BY <1>1, <1>2, <1>3, <1>4, <1>5, <1>6, <1>7, <1>8 DEF Next, LoopStep, Stopped

\* The enforcement of C4 holds whatever the agent runs: between messages of a
\* run that has not reached PATCH, nothing unstaged is left that git looks at
\* (lines 144-147).
THEOREM ReadOnlyBeforePatch == Spec => []NoUnstagedEditBeforePatch
  <1>1. Init => ReadOnlyInv
    <2>1. Unseen(StartRepo)
      BY DEF Unseen, StartRepo, StartTree, BaseTree
    <2> QED
      BY <2>1 DEF Init, ReadOnlyInv, Unseen
  <1>2. ReadOnlyInv => NoUnstagedEditBeforePatch
    BY DEF ReadOnlyInv, Unseen, NoUnstagedEditBeforePatch, Early
  <1> QED
    BY <1>1, <1>2, Invariance, StepReadOnly, PTL DEF Spec

-----------------------------------------------------------------------------
(* The final patch.                                                          *)

\* Extraction in a container: a file of HEAD is always looked at.
LEMMA ExtractedInContainer ==
    ASSUME IInv, Extract, InContainer, repo'.head = BaseTree,
           NEW f \in File \ (Excluded \cup Baseline)
    PROVE  (Carried(f) \/ LostToIgnoreRules(f))'
  <1> DEFINE q == [repo EXCEPT !.idx = repo.head]
             ex == Excluded \cup Baseline
             s == StageAll(q, ex)
  <1>1. repo \in Repo
    BY DEF IInv, TypeOK
  <1>2. repo' = repo /\ patch' = DiffCached(s)
    BY DEF Extract, ExtractionRepo, DiffTempIndex
  <1>3. q.wt = repo.wt /\ q.head = repo.head /\ q.idx = BaseTree
    BY <1>1, <1>2 DEF Repo
  <1>4. /\ s.head = BaseTree
        /\ s.idx[f] = IF BaseTree[f] # "absent" \/ f \notin Hidden(repo.wt)
                      THEN repo.wt[f] ELSE BaseTree[f]
    BY <1>1, <1>2, <1>3 DEF StageAll, Visible, Repo
  <1>5. /\ f \in DOMAIN patch' <=> s.idx[f] # s.head[f]
        /\ f \in DOMAIN patch' => patch'[f] = s.idx[f]
    BY <1>2 DEF DiffCached
  <1>6. f \in Tracked => BaseTree[f] # "absent"
    BY DEF BaseTree
  <1>7. f \notin Tracked => BaseTree[f] = "absent"
    BY DEF BaseTree
  <1> HIDE DEF s, q
  <1> QED
    BY <1>2, <1>4, <1>5, <1>6, <1>7 DEF Carried, LostToIgnoreRules

\* Extraction on the host: a file of the index is looked at.
LEMMA ExtractedOnHost ==
    ASSUME IInv, Extract, ~InContainer, repo'.head = BaseTree,
           NEW f \in File \ (Excluded \cup Baseline)
    PROVE  (Carried(f) \/ LostToIgnoreRules(f))'
  <1>1. repo \in Repo
    BY DEF IInv, TypeOK
  <1>2. repo' = StageAll(repo, Excluded) /\ patch' = DiffCached(repo')
    BY DEF Extract, ExtractionRepo
  <1>3. /\ repo'.wt = repo.wt /\ repo'.head = BaseTree
        /\ repo'.idx[f] = IF repo.idx[f] # "absent" \/ f \notin Hidden(repo.wt)
                          THEN repo.wt[f] ELSE repo.idx[f]
    BY <1>1, <1>2 DEF StageAll, Visible, Repo
  <1>4. /\ f \in DOMAIN patch' <=> repo'.idx[f] # BaseTree[f]
        /\ f \in DOMAIN patch' => patch'[f] = repo'.idx[f]
    BY <1>2, <1>3 DEF DiffCached
  <1>5. (f \in Tracked => BaseTree[f] # "absent") /\ (f \notin Tracked => BaseTree[f] = "absent")
    BY DEF BaseTree
  <1> QED
    BY <1>3, <1>4, <1>5 DEF Carried, LostToIgnoreRules

\* Every step keeps what is said of the extracted patch.
LEMMA StepPatch == IInv /\ PatchCarriesTheTree /\ [Next]_vars => PatchCarriesTheTree'
  <1> SUFFICES ASSUME IInv, PatchCarriesTheTree, [Next]_vars PROVE PatchCarriesTheTree'
    OBVIOUS
  <1>1. CASE Extract
    <2>1. ASSUME repo'.head = BaseTree, NEW f \in File \ (Excluded \cup Baseline)
          PROVE  (Carried(f) \/ LostToIgnoreRules(f))'
      BY <1>1, <2>1, ExtractedInContainer, ExtractedOnHost
    <2> QED
      BY <2>1 DEF PatchCarriesTheTree
  <1>2. CASE UNCHANGED vars
    BY <1>2 DEF vars, PatchCarriesTheTree, Carried, LostToIgnoreRules
  <1>3. CASE LoopStep /\ ~Extract
    <2>1. pc' # "done"
      BY <1>3 DEF LoopStep, Answer, Complete, RunBlock, RunRead, RunEdit, RunPython, RunGitAdd,
         RunGitCommit, BlockDone, RejectEdit, AcceptBlocks, RejectSubmit, GateFeedback,
         GateSubmit, SubmitUngated, WallTimeout, OutOfTurns, LoopRaises, Finish
    <2> QED
      BY <2>1 DEF PatchCarriesTheTree
  <1> QED
    BY <1>1, <1>2, <1>3 DEF Next, Stopped

\* Unless the agent moves HEAD, no edit is lost on the way to the evaluator but
\* those to files the ignore rules hide, and none is invented (final_diff,
\* final_diff_with_manifest).
THEOREM PatchIsFaithful == Spec => []PatchCarriesTheTree
  <1>1. Init => PatchCarriesTheTree
    BY DEF Init, PatchCarriesTheTree
  <1> QED
    BY <1>1, Invariance, StepPatch, PTL DEF Spec

-----------------------------------------------------------------------------
(* Refinement.                                                               *)

\* The instance's copies of the harness definitions are the harness definitions.
LEMMA SameHarness ==
    /\ W!HarnessState = HarnessState
    /\ W!RecordKind = RecordKind
    /\ \A s : W!Index(s) = Index(s)
  <1>1. \A s : W!Index(s) = Index(s)
    BY Zenon DEF W!Index, Index
  <1> QED
    BY <1>1 DEF W!HarnessState, HarnessState, W!RecordKind, RecordKind

\* What the abstract workflow needs of a phase is what the harness requires on
\* the way to it.
LEMMA NeedIsRequired ==
    ASSUME NEW s \in HarnessState
    PROVE  W!Need(s) = RequiredBetween("DISCOVER", s)
  <1>1. RequiredBetween("DISCOVER", "DISCOVER") = {}
    BY RequiredBetweenMember, IndexFacts DEF HarnessState
  <1>2. RequiredBetween("DISCOVER", "DIAGNOSE") = {"localization"}
    <2>1. \A k : k \in RequiredBetween("DISCOVER", "DIAGNOSE") <=> k = "localization"
      BY RequiredBetweenMember DEF HarnessState, Index, RequiredToLeave
    <2> QED BY <2>1
  <1>3. RequiredBetween("DISCOVER", "PATCH") = {"localization", "diagnosis"}
    <2>1. \A k : k \in RequiredBetween("DISCOVER", "PATCH") <=> k \in {"localization", "diagnosis"}
      BY RequiredBetweenMember DEF HarnessState, Index, RequiredToLeave
    <2> QED BY <2>1
  <1>4. RequiredBetween("DISCOVER", "VALIDATE") = {"localization", "diagnosis"}
    <2>1. \A k : k \in RequiredBetween("DISCOVER", "VALIDATE") <=> k \in {"localization", "diagnosis"}
      BY RequiredBetweenMember DEF HarnessState, Index, RequiredToLeave
    <2> QED BY <2>1
  <1>5. /\ W!Need("DISCOVER") = {}
        /\ W!Need("DIAGNOSE") = {"localization"}
        /\ W!Need("PATCH") = {"localization", "diagnosis"}
        /\ W!Need("VALIDATE") = {"localization", "diagnosis"}
        /\ W!Need("SUBMIT") = RecordKind
    BY DEF W!Need, W!RecordKind, RecordKind
  <1> QED
    BY <1>1, <1>2, <1>3, <1>4, <1>5, SubmitNeedsAll DEF HarnessState

\* The loop starts where the workflow starts.
LEMMA InitRefines == Init => W!WInit
  BY ConditionsAssumption DEF Init, W!WInit

\* A step of the loop is a step of the workflow or changes nothing of it.
LEMMA StepRefines == IInv /\ IInv' /\ [Next]_vars => [W!WNext]_(W!wvars)
  <1> SUFFICES ASSUME IInv, IInv', [Next]_vars PROVE [W!WNext]_(W!wvars)
    OBVIOUS
  <1> USE DEF W!wvars, harnessVars, outcomeVars, gateVars
  <1>1. ASSUME NEW recs \in SUBSET RecordKind, NEW target, NEW kind, Complete(recs, target, kind)
        PROVE  W!Progress
    <2>1. ApplyDirectives(recs, target)
      BY <1>1 DEF Complete
    <2>2. /\ st' \in HarnessState /\ records' \subseteq RecordKind
          /\ records \subseteq records' /\ Index(st) <= Index(st')
          /\ EvidenceBeforeProgress'
      BY <2>1, DirectivesKeepEvidence
    <2>3. W!Need(st') \subseteq records'
      BY <2>2, NeedIsRequired DEF EvidenceBeforeProgress
    <2>4. ~submitted /\ submitted' = submitted /\ cond' = cond
      BY <1>1 DEF IInv, LoopInv, InLoop, Complete
    <2>5. (cond.harness)' = cond.harness
      BY <2>4
    <2> QED
      BY <2>2, <2>3, <2>4, <2>5, SameHarness DEF W!Progress
  <1>2. CASE GateSubmit \/ SubmitUngated
    <2>1. ~submitted /\ submitted' = TRUE /\ cond' = cond /\ st' = st /\ records' = records
      BY <1>2 DEF IInv, LoopInv, InLoop, GateSubmit, SubmitUngated
    <2>2. cond.harness => st = "SUBMIT"
      BY <1>2 DEF GateSubmit, SubmitUngated, CanSubmit
    <2> QED
      BY <2>1, <2>2 DEF W!Deliver, W!WNext
  <1>3. CASE RunBlock
    BY <1>3 DEF RunBlock, RunRead, RunEdit, RunPython, RunGitAdd, RunGitCommit, BlockDone
  <1>4. CASE RejectEdit \/ AcceptBlocks \/ RejectSubmit \/ GateFeedback
    BY <1>4 DEF RejectEdit, AcceptBlocks, RejectSubmit, GateFeedback
  <1>5. CASE WallTimeout \/ OutOfTurns \/ LoopRaises \/ Finish \/ Extract
    BY <1>5 DEF WallTimeout, OutOfTurns, LoopRaises, Finish, Extract
  <1>6. CASE UNCHANGED vars
    BY <1>6 DEF vars
  <1> QED
    BY <1>1, <1>2, <1>3, <1>4, <1>5, <1>6 DEF Next, LoopStep, Stopped, Answer, W!WNext

\* The turn loop, harness and gates together implement the workflow that C4
\* promises; with C4 off the workflow never leaves DISCOVER and submits freely.
THEOREM Refinement == Spec => ImplementsWorkflow
  BY InitRefines, StepRefines, Invariance, PTL DEF Spec, ImplementsWorkflow, W!WSpec

-----------------------------------------------------------------------------
(* The loop ends: the part of LoopEnds that needs no fairness.               *)

\* What a turn takes at most: an answer, its blocks, the check, the way out.
TurnCost == MaxBlocksPerMsg + 5

\* The steps left of this turn.
TurnLeft ==
    CASE pc = "turn" -> MaxBlocksPerMsg + 4
      [] pc = "blocks" -> left + 3
      [] pc \in {"check", "submit"} -> 3
      [] pc = "finish" -> 2
      [] pc = "extract" -> 1
      [] pc = "done" -> 0

StepsLeft == (MaxTurns + 1 - step) * TurnCost + TurnLeft

StepsRunOut == StepsLeft \in Nat /\ (StepsLeft = 0 => pc = "done")

\* Blocks are left while they are run.
SomeLeft == pc = "blocks" => left > 0

LEMMA TurnLeftIs ==
    ASSUME TypeOK, SomeLeft
    PROVE  TurnLeft \in 0 .. MaxBlocksPerMsg + 4 /\ (TurnLeft = 0 => pc = "done")
  <1>1. MaxBlocksPerMsg \in Nat /\ left \in 0 .. MaxBlocksPerMsg /\ pc \in PC
    BY BoundsAssumption DEF TypeOK
  <1> QED
    BY <1>1 DEF TurnLeft, SomeLeft, PC

\* A product with one factor smaller by one.
LEMMA OneTurnLess ==
    ASSUME NEW k \in Nat, NEW w \in Nat, k > 0
    PROVE  (k - 1) * w + w = k * w /\ k * w \in Nat /\ (k - 1) * w \in Nat
  OBVIOUS

LEMMA StepsAreCounted ==
    ASSUME TypeOK, SomeLeft
    PROVE  StepsRunOut
  <1> DEFINE k == MaxTurns + 1 - step
             w == TurnCost
  <1>1. k \in Nat /\ w \in Nat
    BY BoundsAssumption DEF TypeOK, TurnCost
  <1>2. TurnLeft \in Nat /\ (TurnLeft = 0 => pc = "done")
    BY TurnLeftIs, BoundsAssumption
  <1>3. StepsLeft = k * w + TurnLeft
    BY DEF StepsLeft
  <1> HIDE DEF k, w
  <1>4. k * w \in Nat
    BY <1>1
  <1> QED
    BY <1>2, <1>3, <1>4 DEF StepsRunOut

\* Within a turn, or with the next one.
LEMMA SameTurn ==
    ASSUME TypeOK, SomeLeft, TypeOK', SomeLeft', step' = step, TurnLeft' < TurnLeft
    PROVE  StepsLeft' < StepsLeft
  <1> DEFINE k == MaxTurns + 1 - step
             w == TurnCost
  <1>1. k \in Nat /\ w \in Nat
    BY BoundsAssumption DEF TypeOK, TurnCost
  <1>2. TurnLeft \in Int /\ TurnLeft' \in Int
    <2>1. MaxBlocksPerMsg \in Nat /\ left' \in Nat /\ pc' \in PC
      BY BoundsAssumption DEF TypeOK
    <2>2. TurnLeft' \in Int
      BY <2>1 DEF TurnLeft, PC
    <2> QED
      BY <2>1, <2>2, TurnLeftIs
  <1>3. StepsLeft = k * w + TurnLeft /\ StepsLeft' = k * w + TurnLeft'
    <2>1. StepsLeft = k * w + TurnLeft
      BY DEF StepsLeft
    <2>2. StepsLeft' = (MaxTurns + 1 - step') * w + TurnLeft'
      BY DEF StepsLeft, TurnCost
    <2>3. MaxTurns + 1 - step' = k
      OBVIOUS
    <2> HIDE DEF k, w
    <2> QED
      BY <2>1, <2>2, <2>3, Zenon
  <1> HIDE DEF k, w
  <1>4. k * w \in Int
    BY <1>1
  <1> QED
    BY <1>2, <1>3, <1>4

LEMMA NextTurn ==
    ASSUME TypeOK, TypeOK', pc \in {"turn", "check", "submit"}, pc' = "turn",
           step' = step + 1
    PROVE  StepsLeft' < StepsLeft
  <1> DEFINE k == MaxTurns + 1 - step
             w == TurnCost
  <1>1. /\ k \in Nat /\ k > 0 /\ w \in Nat /\ w = MaxBlocksPerMsg + 5
        /\ MaxBlocksPerMsg \in Nat /\ MaxTurns + 1 - step' = k - 1
    BY BoundsAssumption DEF TypeOK, TurnCost
  <1>2. TurnLeft \in Int /\ TurnLeft >= 3 /\ TurnLeft' = MaxBlocksPerMsg + 4
    BY <1>1 DEF TurnLeft
  <1>3. StepsLeft = k * w + TurnLeft /\ StepsLeft' = (k - 1) * w + TurnLeft'
    <2>1. StepsLeft = k * w + TurnLeft
      BY DEF StepsLeft
    <2>2. StepsLeft' = (MaxTurns + 1 - step') * w + TurnLeft'
      BY DEF StepsLeft, TurnCost
    <2> HIDE DEF k, w
    <2> QED
      BY <1>1, <2>1, <2>2, Zenon
  <1> HIDE DEF k, w
  <1>4. (k - 1) * w + w = k * w /\ k * w \in Int /\ (k - 1) * w \in Int
    BY <1>1, OneTurnLess
  <1> QED
    BY <1>1, <1>2, <1>3, <1>4

LEMMA StepCounts ==
    ASSUME TypeOK, SomeLeft, TypeOK', SomeLeft', LoopStep
    PROVE  StepsLeft' < StepsLeft
  <1>t. MaxBlocksPerMsg \in Nat /\ left \in Nat /\ left' \in Nat
    BY BoundsAssumption DEF TypeOK
  <1>1. CASE Answer
    <2>1. \/ pc = "turn" /\ pc' = "blocks" /\ left' \in 1 .. MaxBlocksPerMsg /\ step' = step
          \/ pc = "turn" /\ pc' = "submit" /\ step' = step
          \/ pc = "turn" /\ pc' = "turn" /\ step' = step + 1
      BY <1>1 DEF Answer, Complete
    <2>2. CASE pc = "turn" /\ pc' = "turn" /\ step' = step + 1
      BY <2>2, NextTurn
    <2>3. CASE pc = "turn" /\ pc' \in {"blocks", "submit"} /\ step' = step
      <3>1. TurnLeft' < TurnLeft
        BY <1>t, <2>1, <2>3 DEF TurnLeft
      <3> QED
        BY <2>3, <3>1, SameTurn
    <2> QED
      BY <2>1, <2>2, <2>3
  <1>2. CASE RunBlock
    <2>1. /\ pc = "blocks" /\ left' = left - 1 /\ step' = step
          /\ pc' = IF left = 1 THEN "check" ELSE "blocks"
      BY <1>2 DEF RunBlock, RunRead, RunEdit, RunPython, RunGitAdd, RunGitCommit, BlockDone
    <2>2. TurnLeft' < TurnLeft
      BY <1>t, <2>1 DEF TurnLeft, SomeLeft
    <2> QED
      BY <2>1, <2>2, SameTurn
  <1>3. CASE RejectEdit \/ AcceptBlocks \/ RejectSubmit \/ GateFeedback
    <2>1. pc \in {"check", "submit"} /\ pc' = "turn" /\ step' = step + 1
      BY <1>3 DEF RejectEdit, AcceptBlocks, RejectSubmit, GateFeedback
    <2> QED
      BY <2>1, NextTurn
  <1>4. CASE GateSubmit \/ SubmitUngated \/ WallTimeout \/ OutOfTurns \/ LoopRaises
    <2>1. pc \in InLoop /\ pc' = "finish" /\ step' = step
      BY <1>4 DEF GateSubmit, SubmitUngated, WallTimeout, OutOfTurns, LoopRaises, InLoop
    <2>2. TurnLeft' < TurnLeft
      BY <1>t, <2>1 DEF TurnLeft, InLoop
    <2> QED
      BY <2>1, <2>2, SameTurn
  <1>5. CASE Finish \/ Extract
    <2>1. /\ step' = step
          /\ \/ pc = "finish" /\ pc' = "extract"
             \/ pc = "extract" /\ pc' = "done"
      BY <1>5 DEF Finish, Extract
    <2>2. TurnLeft' < TurnLeft
      BY <2>1 DEF TurnLeft
    <2> QED
      BY <2>1, <2>2, SameTurn
  <1> QED
    BY <1>1, <1>2, <1>3, <1>4, <1>5 DEF LoopStep

LEMMA SomeStayLeft ==
    ASSUME TypeOK, SomeLeft, [Next]_vars
    PROVE  SomeLeft'
  <1>1. left \in Nat
    BY BoundsAssumption DEF TypeOK
  <1>2. CASE Answer
    BY <1>2 DEF Answer, Complete, SomeLeft
  <1>3. CASE RunBlock
    <2>1. pc = "blocks" /\ left' = left - 1 /\ pc' = IF left = 1 THEN "check" ELSE "blocks"
      BY <1>3 DEF RunBlock, RunRead, RunEdit, RunPython, RunGitAdd, RunGitCommit, BlockDone
    <2> QED
      BY <1>1, <2>1 DEF SomeLeft
  <1>4. CASE \/ RejectEdit \/ AcceptBlocks \/ RejectSubmit \/ GateFeedback \/ GateSubmit
             \/ SubmitUngated \/ WallTimeout \/ OutOfTurns \/ LoopRaises \/ Finish \/ Extract
    <2>1. pc' # "blocks"
      BY <1>4 DEF RejectEdit, AcceptBlocks, RejectSubmit, GateFeedback, GateSubmit,
         SubmitUngated, WallTimeout, OutOfTurns, LoopRaises, Finish, Extract
    <2> QED
      BY <2>1 DEF SomeLeft
  <1>5. CASE UNCHANGED vars
    BY <1>5 DEF vars, SomeLeft
  <1> QED
    BY <1>2, <1>3, <1>4, <1>5 DEF Next, LoopStep, Stopped

\* Whatever the model answers and whatever its commands do, every step of the
\* loop takes one from a number that was (MaxTurns + 1) * (MaxBlocksPerMsg + 5)
\* less one at the start: no path back to a turn leaves the counter of turns as
\* it was (the for loop of LLMAgent.run).  A loop that always takes some step
\* therefore reaches the extraction of its patch, which is LoopEnds.
THEOREM LoopsAreBounded == Spec => []StepsRunOut /\ [][LoopStep => StepsLeft' < StepsLeft]_vars
  <1>1. Init => SomeLeft
    BY DEF Init, SomeLeft
  <1>2. TypeOK /\ SomeLeft /\ [Next]_vars => SomeLeft'
    BY SomeStayLeft
  <1>3. TypeOK /\ SomeLeft => StepsRunOut
    BY StepsAreCounted
  <1>4. TypeOK /\ SomeLeft /\ TypeOK' /\ SomeLeft' => [LoopStep => StepsLeft' < StepsLeft]_vars
    BY StepCounts
  <1> QED
    BY <1>1, <1>2, <1>3, <1>4, TypeCorrect, PTL DEF Spec

=============================================================================
