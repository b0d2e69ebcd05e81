----------------------------- MODULE Evaluation -----------------------------
(***************************************************************************)
(* From a patch to its verdict and its quality card, as functions:         *)
(* evaluation/local_eval.py, evaluation/swebench_eval.py,                  *)
(* quality/quality_card.py and the diff metrics they use.                  *)
(*                                                                         *)
(* A test node is known by how many of its items (the cases of a           *)
(* parametrized test) pass, fail and are skipped; a node that does not     *)
(* exist has none.                                                         *)
(***************************************************************************)
EXTENDS Integers, Sequences, FiniteSets, SequencesExt

CONSTANT Paths  \* the files a patch can touch

Node == [pass : Nat, fail : Nat, skip : Nat]
Patch == [Paths -> {"same", "edited", "deleted"}]
EmptyPatch == [p \in Paths |-> "same"]

EvalResult(applies, builds, f2p, p2p, resolved) ==
    [patch_applies |-> applies, build_success |-> builds,
     f2p |-> f2p, p2p |-> p2p, resolved |-> resolved]

Tests(passed, total) == [passed |-> passed, total |-> total]
NoTests == Tests(0, 0)
Refuted == EvalResult(FALSE, FALSE, NoTests, NoTests, FALSE)

-----------------------------------------------------------------------------
(* The local evaluator.                                                    *)

\* The items that pass, each as its node and its place among the node's.
PassedItems(nodes) == UNION {{i} \X (1 .. nodes[i].pass) : i \in 1 .. Len(nodes)}

\* One pytest call for all nodes.  Exit code 0 counts every node as passed,
\* skipped or not.  Otherwise the summary's number of passed items is taken
\* for the number of passed nodes.  A node that does not exist stops pytest
\* before it runs anything.
RunPytest(nodes) ==
    LET n == Len(nodes)
    IN  IF n = 0 THEN NoTests
        ELSE IF \E i \in 1 .. n : nodes[i].pass + nodes[i].fail + nodes[i].skip = 0
             THEN Tests(0, n)
        ELSE IF \A i \in 1 .. n : nodes[i].fail = 0 THEN Tests(n, n)
        ELSE Tests(Cardinality(PassedItems(nodes)), n)

\* Mutant: the tests that passed before are not asked for.
ResolvedOnF2P(applies, builds, f2p, p2p) ==
    applies /\ builds /\ f2p.total > 0 /\ f2p.passed = f2p.total

Resolved(applies, builds, f2p, p2p) ==
    /\ applies /\ builds
    /\ f2p.total > 0 /\ f2p.passed = f2p.total
    /\ p2p.passed = p2p.total

\* w: whether git apply takes the patch, whether the tree compiles with it,
\* and the task's tests on it.  The empty patch always applies.
EvaluatePatch(patch, w) ==
    LET applies == patch = EmptyPatch \/ w.applies
        f2p == IF applies THEN RunPytest(w.f2p) ELSE NoTests
        p2p == IF applies THEN RunPytest(w.p2p) ELSE NoTests
    IN  EvalResult(applies, w.builds, f2p, p2p, Resolved(applies, w.builds, f2p, p2p))

-----------------------------------------------------------------------------
(* The official harness.  It leaves a detailed report per instance, which  *)
(* is preferred, or a summary for the whole run, or none.  The run         *)
(* directory keeps both, each with what it reports of and who asked: a     *)
(* later attempt has the same names for them and removes none.             *)

NoReports == [detailed |-> <<>>, summary |-> <<>>]

\* What is there after the harness, asked by v, has met w.
ReportsAfter(reports, w, v) ==
    [detailed |-> IF w.detailed THEN [of |-> w, by |-> v] ELSE reports.detailed,
     summary  |-> IF w.summary THEN [of |-> w, by |-> v] ELSE reports.summary]

\* Whoever left it, and whatever the exit code of the harness was.
FindReport(reports) ==
    IF reports.detailed # <<>> THEN "detailed"
    ELSE IF reports.summary # <<>> THEN "summary" ELSE "none"

\* A summary names the resolved instances and says nothing of patch or tests.
EvalFromReport(kind, w) ==
    IF kind = "detailed"
    THEN EvalResult(w.applied, w.applied, Tests(w.f2p.pass, w.f2p.pass + w.f2p.fail),
                    Tests(w.p2p.pass, w.p2p.pass + w.p2p.fail), w.resolved)
    ELSE EvalResult(FALSE, FALSE, NoTests, NoTests, w.resolved)

-----------------------------------------------------------------------------
(* The quality card.                                                       *)

QualityLevel(ev) ==
    IF ~ev.patch_applies \/ ~ev.build_success THEN "Q0_invalid"
    ELSE IF ~ev.resolved THEN "Q1_plausible_failing"
    ELSE "Q2_functionally_correct"

\* diff_metrics takes a path from its "+++" line: a deleted file has none.
ChangedPaths(patch) == {p \in Paths : patch[p] = "edited"}

\* Shared files over gold files; <<>> for unavailable.
GoldOverlap(files, gold) ==
    IF gold = {} THEN <<>> ELSE <<Cardinality(files \cap gold), Cardinality(gold)>>

\* gold: the gold patch, the empty one where there is none.
BuildCard(ev, patch, gold) ==
    LET files == ChangedPaths(patch)
        lost  == ev.p2p.total - ev.p2p.passed
    IN  [resolved |-> ev.resolved, level |-> QualityLevel(ev),
         regressions |-> IF lost > 0 THEN lost ELSE 0,
         touched |-> Cardinality(files),
         overlap |-> GoldOverlap(files, ChangedPaths(gold)),
         unrelated |-> ChangedPaths(gold) # {} /\ ~(files \subseteq ChangedPaths(gold))]

\* recompute_card_from_run_dir: from the files of the run, which have no gold.
RecomputeCard(ev, patch) == BuildCard(ev, patch, EmptyPatch)

=============================================================================
