------------------------------- MODULE Integrity --------------------------------
(*****************************************************************************)
(* Whose changes end up in the patch of a container run: the snapshots S0    *)
(* and S1 around the support setup (git_state, classify_git_state), the      *)
(* extraction of the patch (final_diff_with_manifest) and the list of files  *)
(* the gates get, as _run_body (runner/run_manager.py) strings them          *)
(* together.  The hashes of the helper are in RunPipeline, HEAD and the      *)
(* agent's own index in Workspace: here both stay as they are.               *)
(*                                                                           *)
(* The image, the setup and the agent write to one working tree; of a path   *)
(* only matters whether it differs from HEAD.                                *)
(*****************************************************************************)

CONSTANTS
    Path,           \* the paths of the repository directory
    Tracked,        \* those in HEAD
    Ignored,        \* those the .gitignore of HEAD hides from git
    IgnoreRules,    \* the .gitignore, if it may be written to
    SupportMount,   \* those below .se_support/, where a helper is mounted
    LegacyHelper,   \* se_support_helper_test.py
    CacheNamed,     \* those classify_git_state takes for caches: it looks for a substring
    CacheGlobbed,   \* those git matches with a pattern of _EPHEMERAL_GLOBS: pkg/x.pyc,
                    \* but not x.pyc, as "**/" without glob magic asks for a slash
    Quoted          \* those git status prints in quotes

ASSUME PathAssumption ==
    /\ Tracked \subseteq Path
    /\ IgnoreRules \subseteq Tracked
    /\ Ignored \subseteq Path \ Tracked
    /\ SupportMount \subseteq Path \ Tracked
    /\ LegacyHelper \subseteq Path \ Tracked
    /\ CacheNamed \subseteq Path
    /\ CacheGlobbed \subseteq Path
    /\ Quoted \subseteq Path

VARIABLES
    stage,          \* where _run_body is
    gates,          \* the condition has gates
    mounted,        \* a helper is mounted
    dirty,          \* the paths whose content in the tree is not that of HEAD
    hidden,         \* the paths .gitignore hides now
    base_untracked, \* what S0 has recorded
    patch,          \* the paths of final.patch
    written         \* history: the paths the setup, and from S1 on the agent, wrote

vars == <<stage, gates, mounted, dirty, hidden, base_untracked, patch, written>>

Stage == {"s0", "setup", "s1", "agent", "extract", "done", "infra", "raised"}

\* The container is up.  The image may have changed any file; a mounted helper
\* lies below .se_support/.
Init ==
    /\ stage = "s0"
    /\ gates \in BOOLEAN
    /\ mounted \in BOOLEAN
    /\ \E image \in SUBSET (Path \ (SupportMount \cup IgnoreRules)) :
           dirty = image \cup (IF mounted THEN SupportMount ELSE {})
    /\ hidden = Ignored
    /\ base_untracked = {}
    /\ patch = {}
    /\ written = {}

-----------------------------------------------------------------------------
(* What git says of the tree.                                                *)

TrackedChanges == dirty \cap Tracked

\* .git/info/exclude hides the mount.
HiddenFromGit == hidden \cup (IF mounted THEN SupportMount ELSE {})

\* Mutant: changes of tracked files count as well.
UntrackedAndChanged == dirty \ HiddenFromGit

UntrackedFiles == (dirty \ Tracked) \ HiddenFromGit

\* Paths that are never held against anybody.
Allowed == SupportMount \cup LegacyHelper \cup CacheNamed

\* Mutant: the baseline is not taken into account.
UnexplainedNoBaseline(baseline, strict) ==
    (TrackedChanges \ Allowed) \cup (IF strict THEN UntrackedFiles \ Allowed ELSE {})

\* Mutant: nothing untracked is ever held against the setup.
UnexplainedTracked(baseline, strict) == TrackedChanges \ Allowed

\* classify_git_state: changes of tracked files, and in strict mode untracked
\* files beyond the baseline.
UnexplainedChanges(baseline, strict) ==
    (TrackedChanges \ Allowed)
        \cup (IF strict THEN UntrackedFiles \ (Allowed \cup baseline) ELSE {})

\* The pathspecs of the extraction.  A path reaches it as git status has printed
\* it: one printed in quotes excludes nothing.
Excluded(extra) ==
    SupportMount \cup LegacyHelper \cup CacheGlobbed \cup (extra \ Quoted)

\* final_diff_with_manifest: git add to an index seeded from HEAD, git diff.
FinalDiff(extra) == (TrackedChanges \cup UntrackedFiles) \ Excluded(extra)

\* build_patch_manifest.
HelperLeak(included) == included \cap (SupportMount \cup LegacyHelper) # {}

\* The files the gates judge at SUBMIT: those of a plain final_diff.
GatedFiles == FinalDiff({})

-----------------------------------------------------------------------------
(* _run_body.                                                                *)

\* S0, right after the start: changed tracked files mean a tampered image,
\* untracked files become the baseline.
SnapshotS0 ==
    /\ stage = "s0"
    /\ IF UnexplainedChanges({}, FALSE) = {}
       THEN stage' = "setup" /\ base_untracked' = UntrackedFiles
       ELSE stage' = "infra" /\ UNCHANGED base_untracked
    /\ UNCHANGED <<gates, mounted, dirty, hidden, patch, written>>

\* Only the mount is read-only.
Writable == Path \ (IF mounted THEN SupportMount ELSE {})

\* A .gitignore that is not HEAD's may hide anything that is not tracked.
Write(p, d) ==
    /\ p \in Writable
    /\ dirty' = d
    /\ hidden' \in IF d \cap IgnoreRules = {} THEN {Ignored}
                   ELSE IF p \in IgnoreRules THEN {{}, Path \ Tracked}
                   ELSE {hidden}
    /\ written' = written \cup {p}

\* The tools of the gate baseline run in the tree, and may leave or change a file.
BaselineToolWrites(p) ==
    /\ stage = "setup" /\ gates
    /\ Write(p, dirty \cup {p})
    /\ UNCHANGED <<stage, gates, mounted, base_untracked, patch>>

SetupDone ==
    /\ stage = "setup"
    /\ stage' = "s1"
    /\ UNCHANGED <<gates, mounted, dirty, hidden, base_untracked, patch, written>>

\* S1, right before the agent: nothing may have changed since S0.
SnapshotS1 ==
    /\ stage = "s1"
    /\ IF UnexplainedChanges(base_untracked, TRUE) = {}
       THEN stage' = "agent" /\ written' = {}
       ELSE stage' = "infra" /\ UNCHANGED written
    /\ UNCHANGED <<gates, mounted, dirty, hidden, base_untracked, patch>>

\* The agent writes, deletes or restores a file.
AgentWrites(p) ==
    /\ stage = "agent"
    /\ \E d \in {dirty \cup {p}, dirty \ {p}} : Write(p, d)
    /\ UNCHANGED <<stage, gates, mounted, base_untracked, patch>>

AgentDone ==
    /\ stage = "agent"
    /\ stage' = "extract"
    /\ UNCHANGED <<gates, mounted, dirty, hidden, base_untracked, patch, written>>

\* Mutant: the files of the image are not excluded.
FinalPatchWithBase == FinalDiff({})

\* What the run hands to the evaluation.
FinalPatch == FinalDiff(base_untracked)

\* The last check: a helper in the patch costs the run.
Extract ==
    /\ stage = "extract"
    /\ IF HelperLeak(FinalPatch)
       THEN stage' = "raised" /\ UNCHANGED patch
       ELSE stage' = "done" /\ patch' = FinalPatch
    /\ UNCHANGED <<gates, mounted, dirty, hidden, base_untracked, written>>

Stopped == stage \in {"done", "infra", "raised"} /\ UNCHANGED vars

Next ==
    \/ SnapshotS0
    \/ \E p \in Path : BaselineToolWrites(p) \/ AgentWrites(p)
    \/ SetupDone
    \/ SnapshotS1
    \/ AgentDone
    \/ Extract
    \/ Stopped

Spec == Init /\ [][Next]_vars

-----------------------------------------------------------------------------

\* The types; the baseline names files that are not tracked.
TypeOK ==
    /\ stage \in Stage
    /\ gates \in BOOLEAN
    /\ mounted \in BOOLEAN
    /\ dirty \subseteq Path
    /\ hidden \subseteq Path \ Tracked
    /\ base_untracked \subseteq Path \ Tracked
    /\ patch \subseteq Path
    /\ written \subseteq Path

\* The two lists of caches agree, which a cache at the root of the repository
\* would belie (.coverage), and every path is printed as it is.
PlainNames ==
    /\ CacheNamed \subseteq CacheGlobbed
    /\ CacheNamed \cap IgnoreRules = {}
    /\ Quoted = {}

\* The patch of a run holds what the agent wrote: what the image ships, what the
\* setup leaves behind and the support artifacts stay out of it, whatever
\* happened between the snapshots (container_workspace.py:235).  Files that
\* .gitignore hid from S0 are the exception, if the agent rewrites .gitignore.
PatchIsTheAgentsWork ==
    patch \ written \subseteq IF written \cap IgnoreRules = {} THEN {} ELSE Ignored

\* A run is thrown away only for a reason: a tracked file changed before the
\* agent came, or the setup left something that is no cache.  Files the image
\* merely ships never cost a run (run_manager.py:260-263).
AbortHasACause ==
    stage = "infra" => (TrackedChanges \cup written) \ Allowed # {}

\* No agent starts on a tree with a file that is neither of HEAD, nor in the
\* baseline that the extraction excludes, nor a cache, nor ignored.
AgentStartsClean ==
    stage = "agent" /\ written = {} =>
        dirty \subseteq base_untracked \cup Allowed \cup Ignored

-----------------------------------------------------------------------------
(* What the repository says of itself, and does not hold.                    *)

\* container_workspace.py:235, "The returned patch contains only the agent's
\* real repository edits".
PatchIsOnlyTheAgentsWork == patch \subseteq written

\* gate_policy.py:177, "every changed module must import": the modules the gates
\* judge are those the agent has changed.
GatesJudgeTheAgentsFiles == stage = "agent" /\ gates => GatedFiles \subseteq written

=============================================================================
