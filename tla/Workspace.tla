------------------------------- MODULE Workspace -------------------------------
(*****************************************************************************)
(* The git repository an agent works in, as runner/workspace.py (host) and   *)
(* runner/container_workspace.py (instance image) see it: a file has a       *)
(* content in the working tree, in the index and in HEAD.  "absent" is the   *)
(* content of a file that is not there, "base" that of the base commit (or   *)
(* of the image, for files the image ships untracked), "good" and "bad" are  *)
(* edits that the blocking gates accept or refuse, "cache" is a file a       *)
(* Python process leaves behind.  A path that the ignore rules in force hide *)
(* is seen by git only if the index has it: status does not list it, clean   *)
(* leaves it, add -A passes it over.                                         *)
(*****************************************************************************)
EXTENDS Integers

CONSTANTS
    Tracked,        \* files of the base commit
    BaseUntracked,  \* files the instance image ships outside git (build/lib ...)
    Fresh,          \* paths that exist in neither: files the agent may create
    Ephemeral,      \* caches: __pycache__, *.pyc, .pytest_cache ...
    Excluded,       \* caches that the exclusion patterns of final_diff match
    IgnoreFile,     \* the .gitignore of the repository
    Hides           \* the files the ignore rules hide, by the content of IgnoreFile

File == Tracked \cup BaseUntracked \cup Fresh \cup Ephemeral

Content == {"absent", "base", "good", "bad", "cache"}

ASSUME IgnoreRulesAssumption == IgnoreFile \in File /\ Hides \in [Content -> SUBSET File]

\* The patterns carry no glob magic, so that none matches a path at the root:
\* a cache there (x.pyc, .coverage) is in Ephemeral and not in Excluded.
ASSUME ExcludedAssumption == Excluded \subseteq Ephemeral

Tree == [File -> Content]

\* A repository: working tree, index, HEAD commit.
Repo == [wt : Tree, idx : Tree, head : Tree]

\* The tree of the base commit.
BaseTree == [f \in File |-> IF f \in Tracked THEN "base" ELSE "absent"]

\* What the agent finds: the base commit checked out, plus what the image ships.
StartTree == [f \in File |-> IF f \in Tracked \cup BaseUntracked THEN "base" ELSE "absent"]

StartRepo == [wt |-> StartTree, idx |-> BaseTree, head |-> BaseTree]

\* What the ignore rules of a working tree hide.
Hidden(wt) == Hides[wt[IgnoreFile]]

\* git looks at f: it is in the index, or no rule hides it.
Visible(r, f) == r.idx[f] # "absent" \/ f \notin Hidden(r.wt)

\* git status --porcelain prints something: a file git looks at differs between
\* working tree and index (an untracked one is absent from the index), or index
\* and HEAD differ.
IsDirty(r) ==
    \/ r.idx # r.head
    \/ \E f \in File : Visible(r, f) /\ r.wt[f] # r.idx[f]

\* git checkout -- . : every file of the index gets its content.
CheckedOut(r) ==
    [f \in File |-> IF r.idx[f] # "absent" THEN r.idx[f] ELSE r.wt[f]]

\* git clean -fdq after it deletes what the index has not and the rules then in
\* force do not hide.  Staged edits survive both, and so do hidden new files.
RevertAll(r) ==
    LET wt == CheckedOut(r)
    IN  [r EXCEPT !.wt = [f \in File |-> IF f \in Hidden(wt) THEN wt[f] ELSE r.idx[f]]]

\* git add -A -- . :(exclude)ex
StageAll(r, ex) ==
    [r EXCEPT !.idx = [f \in File |-> IF f \notin ex /\ Visible(r, f) THEN r.wt[f] ELSE r.idx[f]]]

\* git diff --cached HEAD: the files it names, with their new content.
DiffCached(r) ==
    [f \in {g \in File : r.idx[g] # r.head[g]} |-> r.idx[f]]

Patch == UNION {[S -> Content] : S \in SUBSET File}

EmptyPatch == [f \in {} |-> "absent"]

\* Mutant: container extraction diffs the index the agent left.
DiffRealIndex(r, ex) == DiffCached(r)

\* Container extraction: stage into a temporary index seeded from HEAD, leaving
\* the real index alone, and diff that index against HEAD.
DiffTempIndex(r, ex) == DiffCached(StageAll([r EXCEPT !.idx = r.head], ex))

=============================================================================
