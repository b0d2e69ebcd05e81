------------------------------- MODULE Gates -------------------------------
(***************************************************************************)
(* The gates of condition C3 (support/gate_policy.py) around the work of   *)
(* an agent: the advisory tools are counted on the base tree before the    *)
(* agent starts, and each SUBMIT runs the whole policy on the tree as it   *)
(* then is.  Blocking failures go back to the agent until the revision     *)
(* budget is spent.  The policy in force is v2; v1, which the module keeps *)
(* and the support bundle writes down, differs in its gates only.          *)
(*                                                                         *)
(* A file is known by its worst trait (Content) and by where its bytes     *)
(* come from (origin), for git shows a file whose bytes only moved as a    *)
(* rename.  A tool is known by the contents it complains about and by      *)
(* whether the repository configures it, which is read from files the      *)
(* agent may edit like any other.  Files that git ignores and does not     *)
(* track are left out: they are in no diff.                                *)
(***************************************************************************)
EXTENDS Integers, FiniteSets

CONSTANTS
    Modules,    \* source files, numbered in the order of a diff
    Tests,      \* the repository's test files, numbered likewise
    TestNamed,  \* the modules with "test" somewhere in their name (latest.py)
    Named,      \* Named[m]: the module that the name made of m's path imports
    Shipped,    \* files of the image that git does not track
    Quoted,     \* files whose names git writes in quotes
    Uses,       \* Uses[m]: the modules an import of m runs, m included
    TestsFor,   \* TestsFor[m]: the tests that map to m by their names
    Covers,     \* Covers[t]: the modules test t exercises
    Installed,  \* the tools that can be executed
    ImportCap,  \* how many modules the import gate tries (20 in the code)
    RevisionBudget,
    Versions,   \* the policies to look at, out of "v1" and "v2"
    Bases,      \* the base trees to start from
    Edits,      \* what the agent writes: pairs of a file and its new content
    Moves,      \* what the agent moves: pairs of a file and where to
    Tunable,    \* the tools whose configuration the agent may edit
    MaxEdits    \* bound on the agent's edits

Files == Modules \cup Tests
Nowhere == -1   \* no module: the name cannot be imported
Own == -1       \* the origin of bytes the agent wrote
Void == -2      \* the origin of a file it made without any
Content == {"absent", "good", "untidy", "untyped", "wrong", "unimportable", "unparsable"}
Importable == {"good", "untidy", "untyped", "wrong"}
Working == {"good", "untidy", "untyped"}
Tools == {"ruff", "flake8", "mypy", "bandit"}
ConfigState == {"none", "valid", "garbled"}
Trees == [src : [Files -> Content], conf : [Tools -> ConfigState],
          origin : [Files -> Files \cup {Own, Void}]]
AllGates == {"compileall", "import", "targeted_tests"}

ASSUME FilesAssumption ==
    /\ Modules \subseteq Nat /\ IsFiniteSet(Modules)
    /\ Tests \subseteq Nat /\ IsFiniteSet(Tests)
    /\ Modules \cap Tests = {}
    /\ TestNamed \subseteq Modules
    /\ Named \in [Modules -> Modules \cup {Nowhere}]
    /\ Shipped \subseteq Files /\ Quoted \subseteq Files
    /\ Uses \in [Modules -> SUBSET Modules]
    /\ \A m \in Modules : m \in Uses[m]
    /\ TestsFor \in [Modules -> SUBSET Tests]
    /\ Covers \in [Tests -> SUBSET Modules]

ASSUME PolicyAssumption ==
    /\ Installed \subseteq Tools
    /\ ImportCap \in Nat
    /\ RevisionBudget \in Nat
    /\ Versions \subseteq {"v1", "v2"}
    /\ Bases \subseteq {t \in Trees : \A f \in Files : t.origin[f] = f}
    /\ Edits \subseteq Files \X Content
    /\ Moves \subseteq Files \X Files
    /\ Tunable \subseteq Tools
    /\ MaxEdits \in Nat

VARIABLES
    version,   \* the policy of this run
    base,      \* the tree before the agent
    tree,      \* the tree now
    pc,        \* "setup", "work" or "submitted"
    edits,     \* the number of edits so far
    baseline,  \* advisory counts on base; -1 for a tool that gave none
    revisions, \* how often gate feedback was sent
    results,   \* what the last run of the policy wrote
    judged     \* history: the tree that run looked at

vars == <<version, base, tree, pc, edits, baseline, revisions, results, judged>>

(***************************************************************************)
(* The two policies.                                                       *)
(***************************************************************************)
BlockingGates(v) == IF v = "v1" THEN {"compileall"} ELSE AllGates
AdvisoryGates(v) == IF v = "v1" THEN {"ruff", "bandit"} ELSE {"ruff", "flake8", "mypy"}

InHead(old, f) == old.src[f] # "absent" /\ f \notin Shipped

\* git diff shows a file that is not what HEAD has at its place, the image's
\* untracked files among them; a deleted one is /dev/null, which is skipped.
InDiff(old, new, f) ==
    /\ new.src[f] # "absent"
    /\ InHead(old, f) => new.origin[f] # f

\* It writes no "+++ b/" line for bytes of HEAD that only moved (a rename) and
\* for a new file without any, and quotes names outside ASCII.
Silent(old, new, f) ==
    \/ f \in Quoted
    \/ /\ ~InHead(old, f)
       /\ \/ new.origin[f] = Void
          \/ \E g \in Files :
                 new.origin[f] = g /\ InHead(old, g) /\ new.src[g] = "absent"

\* What the "+++ b/" lines name.
ChangedFiles(old, new) ==
    {f \in Files : InDiff(old, new, f) /\ ~Silent(old, new, f)}

DetectConfiguredTools(t) == {x \in Tools : t.conf[x] # "none"}

(***************************************************************************)
(* Blocking gates.                                                         *)
(***************************************************************************)
GateCompileall(t) == \A f \in Files : t.src[f] # "unparsable"

\* Names with "test" in them are left out, and so is what is beyond the cap.
ImportChecked(changed) ==
    LET cs == changed \cap (Modules \ TestNamed)
    IN  {m \in cs : Cardinality({n \in cs : n < m}) < ImportCap}

\* The path with dots for slashes: a name that may be another module's, or
\* nobody's (my-tool.py).
ImportedBy(m) == IF Named[m] = Nowhere THEN {} ELSE Uses[Named[m]]

GateImport(t, changed) ==
    \A m \in ImportChecked(changed) :
        /\ Named[m] # Nowhere
        /\ \A n \in ImportedBy(m) : t.src[n] \in Importable

\* Mutant: the tests of changed modules are not looked for.
ChangedTestsOnly(changed) == changed \cap Tests

ChangedTestTargets(changed) ==
    (changed \cap Tests) \cup UNION {TestsFor[m] : m \in changed \cap Modules}

TestPasses(t, x) ==
    /\ t.src[x] \in Working
    /\ \A m \in Covers[x] : \A n \in Uses[m] : t.src[n] \in Working

\* Mutant: a target that does not exist is handed to pytest, which fails.
GateTargetsAll(t, changed) == \A x \in ChangedTestTargets(changed) : TestPasses(t, x)

\* Targets are names: only those that exist in the patched tree are run.
GateTargetedTests(t, changed) ==
    \A x \in ChangedTestTargets(changed) : t.src[x] = "absent" \/ TestPasses(t, x)

Passes(g, t, changed) ==
    \/ g = "compileall" /\ GateCompileall(t)
    \/ g = "import" /\ GateImport(t, changed)
    \/ g = "targeted_tests" /\ GateTargetedTests(t, changed)

(***************************************************************************)
(* Advisory gates.  ruff and flake8 report a file that does not parse and  *)
(* go on, bandit passes it over, mypy reports nothing else.                *)
(***************************************************************************)
Sees(x) ==
    CASE x = "mypy"   -> {"untyped"}
      [] x = "bandit" -> {"untidy"}
      [] OTHER        -> {"untidy", "unparsable"}
Unparsable(t) == {f \in Files : t.src[f] = "unparsable"}
Complaints(x, t) ==
    IF x = "mypy" /\ Unparsable(t) # {} THEN Unparsable(t)
    ELSE {f \in Files : t.src[f] \in Sees(x)}

\* -1: not configured (v2 only), not found, or an answer that is no number.
\* A garbled configuration does not stop mypy from answering.
GivesCount(v, x, t) ==
    /\ x \in Installed
    /\ v = "v2" => x \in DetectConfiguredTools(t)
    /\ t.conf[x] = "garbled" => x = "mypy"

WarningCount(v, x, t) ==
    IF GivesCount(v, x, t) THEN Cardinality(Complaints(x, t)) ELSE -1

ComputeBaseline(v, t) == [x \in AdvisoryGates(v) |-> WarningCount(v, x, t)]

\* Mutant: the count itself, the baseline forgotten.
NewWarningsAll(count, before) == count

\* None is written -1.
NewWarnings(count, before) ==
    LET Positive(n) == IF n > 0 THEN n ELSE 0
    IN  IF count < 0 THEN -1 ELSE Positive(count - Positive(before))

RunPolicy(v, t, changed, before) ==
    [failed |-> {g \in BlockingGates(v) : ~Passes(g, t, changed)},
     count  |-> [x \in AdvisoryGates(v) |-> WarningCount(v, x, t)],
     fresh  |-> [x \in AdvisoryGates(v) |->
                    NewWarnings(WarningCount(v, x, t), before[x])]]

BlockingFailures(r) == r.failed

(***************************************************************************)
(* The run.                                                                *)
(***************************************************************************)
NoResults == [failed |-> {}, count |-> <<>>, fresh |-> <<>>]

Init ==
    /\ version \in Versions
    /\ base \in Bases
    /\ tree = base
    /\ pc = "setup"
    /\ edits = 0
    /\ baseline = <<>>
    /\ revisions = 0
    /\ results = NoResults
    /\ judged = base

\* Before the agent starts, on the tree it will start from.
TakeBaseline ==
    /\ pc = "setup"
    /\ baseline' = ComputeBaseline(version, tree)
    /\ pc' = "work"
    /\ UNCHANGED <<version, base, tree, edits, revisions, results, judged>>

\* The agent's tree changes, within the bound.
Works(t) ==
    /\ pc = "work"
    /\ edits < MaxEdits
    /\ edits' = edits + 1
    /\ tree' = t
    /\ UNCHANGED <<version, base, pc, baseline, revisions, results, judged>>

\* The agent writes a file anew, or deletes it.
Edit(f, c) ==
    Works([tree EXCEPT !.src[f] = c, !.origin[f] = Own])

\* It makes a file without a byte (__init__.py), where there is none.
Touch(f) ==
    /\ tree.src[f] = "absent"
    /\ Works([tree EXCEPT !.src[f] = "good", !.origin[f] = Void])

\* It takes a file back to what HEAD has (git checkout -- f).
Restore(f) ==
    /\ InHead(base, f)
    /\ tree.src[f] = "absent" \/ tree.origin[f] # f
    /\ Works([tree EXCEPT !.src[f] = base.src[f], !.origin[f] = f])

\* It moves a file (mv, git mv): what parses may no longer import from there.
Move(f, g, c) ==
    /\ tree.src[f] # "absent" /\ tree.src[g] = "absent"
    /\ IF tree.origin[f] = g THEN c = base.src[g]
       ELSE c = tree.src[f] \/ (c = "unimportable" /\ tree.src[f] # "unparsable")
    /\ Works([tree EXCEPT !.src[f] = "absent", !.origin[f] = Own,
                          !.src[g] = c, !.origin[g] = tree.origin[f]])

\* The agent changes what the repository says of a tool.
Configure(x, s) ==
    Works([tree EXCEPT !.conf[x] = s])

\* SUBMIT: the whole policy runs; what fails is sent back while the budget lasts.
Judge == RunPolicy(version, tree, ChangedFiles(base, tree), baseline)

\* Mutant: one revision more than the budget.
SentBackOnceMore ==
    /\ BlockingFailures(Judge) # {}
    /\ revisions <= RevisionBudget

SentBack ==
    /\ BlockingFailures(Judge) # {}
    /\ revisions < RevisionBudget

Submit ==
    /\ pc = "work"
    /\ results' = Judge
    /\ judged' = tree
    /\ revisions' = IF SentBack THEN revisions + 1 ELSE revisions
    /\ pc' = IF SentBack THEN "work" ELSE "submitted"
    /\ UNCHANGED <<version, base, tree, edits, baseline>>

Next ==
    \/ TakeBaseline
    \/ \E e \in Edits : Edit(e[1], e[2])
    \/ \E f \in Files : Touch(f) \/ Restore(f)
    \/ \E w \in Moves, c \in Content : Move(w[1], w[2], c)
    \/ \E x \in Tunable, s \in ConfigState : Configure(x, s)
    \/ Submit

Spec == Init /\ [][Next]_vars

(***************************************************************************)
(* Properties.                                                             *)
(***************************************************************************)
Counts == Nat \cup {-1}
Reports(v) ==
    [failed : SUBSET BlockingGates(v), count : [AdvisoryGates(v) -> Counts],
     fresh : [AdvisoryGates(v) -> Counts]]

\* Types; a baseline exists from the setup on, results from the first SUBMIT on.
TypeOK ==
    /\ version \in Versions
    /\ base \in Trees /\ tree \in Trees /\ judged \in Trees
    /\ pc \in {"setup", "work", "submitted"}
    /\ edits \in 0 .. MaxEdits
    /\ IF pc = "setup" THEN baseline = <<>>
       ELSE baseline \in [AdvisoryGates(version) -> Counts]
    /\ revisions \in 0 .. RevisionBudget
    /\ results = NoResults \/ results \in Reports(version)
    /\ pc = "submitted" => results # NoResults

Judged == results # NoResults

\* A file the agent wrote, made or moved here.
Touched(t, f) == t.src[f] # "absent" /\ t.origin[f] # f

\* A patch that passes is what gate_policy_v2 says: the whole tree parses, a
\* module the agent touched can be imported, and a test that maps to it and
\* exists passes.  The exceptions are those of the code: what the diff names no
\* "+++ b/" line for (renames, new empty files, quoted names) is looked at by no
\* gate but compileall, and the import gate leaves out names with "test" in
\* them, those beyond the cap, and tries another module where the name is
\* another's.  Only a spent budget lets anything else through.
SubmittedIsSound ==
    (pc = "submitted" /\ revisions < RevisionBudget) =>
        /\ \A f \in Files : tree.src[f] # "unparsable"
        /\ version = "v2" =>
             \A m \in Modules : Touched(tree, m) /\ ~Silent(base, tree, m) =>
                 /\ \/ tree.src[m] \in Importable
                    \/ m \in TestNamed \/ Named[m] # m
                    \/ Cardinality({n \in ChangedFiles(base, tree) : n < m}) >= ImportCap
                 /\ \A x \in TestsFor[m] :
                        tree.src[x] = "absent" \/ TestPasses(tree, x)

\* compileall fails only where some file does not parse, though it may be one
\* that nobody touched.  The other gates fail only for a file that the agent
\* touched, or that the image ships beside HEAD: its name cannot be imported, or
\* it, or what runs with it, does not work.
Reached(m) == ImportedBy(m) \cup TestsFor[m] \cup
              UNION {Uses[n] : n \in UNION {Covers[x] : x \in TestsFor[m]}}
NotOfHead(t, f) ==
    Touched(t, f) \/ (t.src[f] # "absent" /\ (f \in Shipped \/ base.src[f] = "absent"))
NoFalseAlarm ==
    Judged =>
        /\ "compileall" \in results.failed => \E f \in Files : judged.src[f] = "unparsable"
        /\ results.failed \ {"compileall"} # {} =>
             \/ \E m \in Modules :
                    /\ NotOfHead(judged, m)
                    /\ \/ Named[m] = Nowhere
                       \/ \E f \in Reached(m) :
                              /\ judged.src[f] \notin Working
                              /\ f \in Tests => judged.src[f] # "absent"
             \/ \E x \in Tests : NotOfHead(judged, x) /\ ~TestPasses(judged, x)

\* Legacy warnings stay out (:7-8): of a tool that was counted on the base
\* tree, the new warnings are at most those the agent's files gained, and at
\* least those less the ones that went.  mypy's count is comparable only
\* between trees that parse.
Comparable(x) ==
    /\ baseline[x] >= 0 /\ results.count[x] >= 0
    /\ x = "mypy" => Unparsable(base) = {} /\ Unparsable(judged) = {}
Gained(x) == Complaints(x, judged) \ Complaints(x, base)
Lost(x) == Complaints(x, base) \ Complaints(x, judged)
DeltaIsTheAgents ==
    Judged => \A x \in AdvisoryGates(version) : Comparable(x) =>
        /\ results.fresh[x] <= Cardinality(Gained(x))
        /\ results.fresh[x] >= Cardinality(Gained(x)) - Cardinality(Lost(x))

\* What gate_policy.py:7-8 says without a condition: "pre-existing (legacy)
\* repository warnings are never attributed to the agent's patch".
LegacyNeverNew ==
    Judged => \A x \in AdvisoryGates(version) :
        results.fresh[x] <= Cardinality(Gained(x))

\* What gate_policy.py:177 says: "every changed module must import without
\* error", or the patch is not let through before the budget is spent.
ChangedModulesImport ==
    (pc = "submitted" /\ revisions < RevisionBudget /\ version = "v2") =>
        \A m \in Modules : Touched(tree, m) => tree.src[m] \in Importable
=============================================================================
