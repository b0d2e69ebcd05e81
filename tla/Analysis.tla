------------------------------ MODULE Analysis ------------------------------
(***************************************************************************)
(* What the analysis (analysis/aggregate.py) makes of an experiment whose  *)
(* runs are written one by one, fail, die with their launch and are taken  *)
(* up again by a launch that may use another model or protocol.  The       *)
(* report is a function of the run directories and can be asked for at any *)
(* time; so its properties are invariants of the directories.              *)
(*                                                                         *)
(* A run is seen here from run_spec.json on: its four writes and what may  *)
(* come between.  Stages, containers and torn files are RunPipeline's.     *)
(***************************************************************************)
EXTENDS Evaluation

CONSTANTS
    Cells,        \* records [task, condition, seed]
    Baseline,     \* the condition the others are compared with
    WorldsOf,     \* WorldsOf[c]: what the evaluation of cell c may meet
    GoldOf,       \* GoldOf[c]: the gold patch of the cell's task
    PatchesOf,    \* PatchesOf[c]: the patches the agent may deliver for c
    Versions,     \* model, protocol and condition version, together
    NoVersion,    \* none of them
    Resume,       \* run_experiment's resume
    MaxFaults,    \* bound on the attempts that fail
    MaxLaunches   \* bound on the launches

LocalWorld == [by : {"local"}, applies : BOOLEAN, builds : BOOLEAN,
               f2p : Seq(Node), p2p : Seq(Node)]
DockerWorld == [by : {"docker"}, detailed : BOOLEAN, summary : BOOLEAN,
                applied : BOOLEAN, resolved : BOOLEAN, f2p : Node, p2p : Node]

ASSUME CellsAssumption ==
    /\ Cells \subseteq [task : STRING, condition : STRING, seed : Nat]
    /\ IsFiniteSet(Cells)
    /\ \A c \in Cells : WorldsOf[c] \subseteq LocalWorld \cup DockerWorld
    /\ GoldOf \in [Cells -> Patch]
    /\ \A c \in Cells : PatchesOf[c] \subseteq Patch
    /\ NoVersion \notin Versions
    /\ Resume \in BOOLEAN /\ {MaxFaults, MaxLaunches} \subseteq Nat

VARIABLES
    disk,      \* disk[c]: the run directory of the cell
    current,   \* the cells that are being run: at most one (max_workers = 1)
    stage,     \* "agent", "eval" or "card"
    verdict,   \* the evaluation result in memory
    version,   \* of the launch
    launches, faults

vars == <<disk, current, stage, verdict, version, launches, faults>>

\* by and met are history: the version whose patch was judged by the verdict on
\* disk, and what the last evaluation met.
Nothing == [spec |-> NoVersion, infra |-> FALSE, patch |-> EmptyPatch,
            reports |-> NoReports, eval |-> <<>>, card |-> <<>>,
            by |-> NoVersion, met |-> <<>>]

Init ==
    /\ disk = [c \in Cells |-> Nothing]
    /\ current = {}
    /\ stage = "agent"
    /\ verdict = <<>>
    /\ version \in Versions
    /\ launches = 1 /\ faults = 0

\* Mutant: cells are run again whatever is there.
NeverSkipped(c) == FALSE

\* _is_complete, asked on resume.
Skipped(c) == Resume /\ disk[c].card # <<>>

\* Mutant: an existing run_spec.json is kept.
SpecKept(d) == IF d.spec = NoVersion THEN [d EXCEPT !.spec = version] ELSE d

\* run_single writes the specification of the run first.
SpecWritten(d) == [d EXCEPT !.spec = version]

Start(c) ==
    /\ current = {} /\ ~Skipped(c)
    /\ disk' = [disk EXCEPT ![c] = SpecWritten(@)]
    /\ current' = {c} /\ stage' = "agent"
    /\ UNCHANGED <<verdict, version, launches, faults>>

WritePatch(c) ==
    /\ c \in current /\ stage = "agent"
    /\ \E p \in PatchesOf[c] : disk' = [disk EXCEPT ![c].patch = p]
    /\ stage' = "eval"
    /\ UNCHANGED <<current, verdict, version, launches, faults>>

\* The verdict of the local evaluator is about the patch just written.
EvaluateLocal(c) ==
    /\ c \in current /\ stage = "eval"
    /\ \E w \in {x \in WorldsOf[c] : x.by = "local"} :
           /\ verdict' = EvaluatePatch(disk[c].patch, w)
           /\ disk' = [disk EXCEPT ![c] =
                        [@ EXCEPT !.eval = verdict', !.by = version, !.met = w]]
    /\ stage' = "card"
    /\ UNCHANGED <<current, version, launches, faults>>

\* That of the harness is what the best report says, which may be one that an
\* earlier attempt has left; without any the run raises.
EvaluateDocker(c) ==
    /\ c \in current /\ stage = "eval"
    /\ \E w \in {x \in WorldsOf[c] : x.by = "docker"} :
           LET reports == ReportsAfter(disk[c].reports, w, version)
               kind == FindReport(reports)
           IN  /\ kind # "none"
               /\ verdict' = EvalFromReport(kind, reports[kind].of)
               /\ disk' = [disk EXCEPT ![c] =
                            [@ EXCEPT !.reports = reports, !.eval = verdict',
                                      !.by = reports[kind].by, !.met = w]]
    /\ stage' = "card"
    /\ UNCHANGED <<current, version, launches, faults>>

WriteCard(c) ==
    /\ c \in current /\ stage = "card"
    /\ disk' = [disk EXCEPT ![c].card = BuildCard(verdict, disk[c].patch, GoldOf[c])]
    /\ current' = {} /\ stage' = "agent" /\ verdict' = <<>>
    /\ UNCHANGED <<version, launches, faults>>

\* _infrastructure_failure, before the verdict: a status, and empty results.
InfraFails(c) ==
    /\ c \in current /\ stage = "agent"
    /\ faults < MaxFaults /\ faults' = faults + 1
    /\ disk' = [disk EXCEPT ![c] = [@ EXCEPT
           !.infra = TRUE, !.patch = EmptyPatch, !.eval = Refuted, !.by = version,
           !.met = <<>>, !.card = BuildCard(Refuted, EmptyPatch, GoldOf[c])]]
    /\ current' = {} /\ verdict' = <<>>
    /\ UNCHANGED <<stage, version, launches>>

\* The attempt raises and is tried again or given up.
Raises(c) ==
    /\ c \in current
    /\ faults < MaxFaults /\ faults' = faults + 1
    /\ current' = {} /\ stage' = "agent" /\ verdict' = <<>>
    /\ UNCHANGED <<disk, version, launches>>

\* The launch ends or dies, and the experiment is launched again.
Relaunch ==
    /\ launches < MaxLaunches
    /\ launches' = launches + 1
    /\ version' \in Versions
    /\ current' = {} /\ stage' = "agent" /\ verdict' = <<>>
    /\ UNCHANGED <<disk, faults>>

Next ==
    \/ \E c \in Cells :
           \/ Start(c) \/ WritePatch(c) \/ EvaluateLocal(c) \/ EvaluateDocker(c)
           \/ WriteCard(c) \/ InfraFails(c) \/ Raises(c)
    \/ Relaunch

Spec == Init /\ [][Next]_vars

-----------------------------------------------------------------------------
(* The report.                                                             *)

\* load_runs: card, verdict and specification are there, and no status says
\* infrastructure failure.
Rows == {c \in Cells : /\ disk[c].card # <<>> /\ disk[c].eval # <<>>
                       /\ disk[c].spec # NoVersion /\ ~disk[c].infra}

\* ... and it refuses rows of several models, protocols or versions.
Refused == Cardinality({disk[c].spec : c \in Rows}) > 1

RowResolved(c) == disk[c].eval.resolved

\* Mutant: a task that has a row in one of the conditions only is paired.
EitherTask(T, B) == {t.task : t \in T \cup B}

CommonTasks(T, B) == {t.task : t \in T} \cap {b.task : b \in B}

SeedZero(cond) == {c \in Rows : c.condition = cond /\ c.seed = 0}

\* _paired and paired_contrast without its bootstrap: tasks by who resolved them.
PairedContrast(cond) ==
    LET T == SeedZero(cond)
        B == SeedZero(Baseline)
        Solved(S, t) == \E c \in S : c.task = t /\ RowResolved(c)
        common == CommonTasks(T, B)
        Split(x, y) == {t \in common : Solved(T, t) = x /\ Solved(B, t) = y}
    IN  [n |-> Cardinality(common),
         both |-> Cardinality(Split(TRUE, TRUE)),
         only_treat |-> Cardinality(Split(TRUE, FALSE)),
         only_base |-> Cardinality(Split(FALSE, TRUE)),
         neither |-> Cardinality(Split(FALSE, FALSE))]

Summary(cond) ==
    LET rs == {c \in Rows : c.condition = cond}
    IN  [n |-> Cardinality(rs),
         resolved |-> Cardinality({c \in rs : RowResolved(c)}),
         applying |-> Cardinality({c \in rs : disk[c].eval.patch_applies}),
         q2_plus |-> Cardinality({c \in rs : disk[c].card.level = "Q2_functionally_correct"})]

\* The outcomes of n throws of a coin, as sets of throws, with at most k heads:
\* the sum of the binomials in _binom_cdf.
AtMost(k, n) == {S \in SUBSET (1 .. n) : Cardinality(S) <= k}

\* The exact McNemar test, as a fraction of 2^(b + c).
McNemarExact(b, c) ==
    LET n == b + c
        tail == Cardinality(AtMost(IF b < c THEN b ELSE c, n))
    IN  IF 2 * tail < 2 ^ n THEN 2 * tail ELSE 2 ^ n

-----------------------------------------------------------------------------
(* Properties.                                                             *)

\* The evaluation of the row has left the report that was taken for it.
OwnReport(c) == disk[c].met.by = "local" \/ disk[c].met.detailed

\* Unless the analysis refuses, the verdicts that were given on a report of
\* their own all come from one version: no launch with another model can mix
\* into the cohort unseen, wherever the launch before it was interrupted.  The
\* exception is the harness that leaves no detailed report where an earlier
\* attempt has.
CohortIsHomogeneous ==
    ~Refused => \A c, d \in Rows : OwnReport(c) /\ OwnReport(d) => disk[c].by = disk[d].by

Plain(nodes) == \A i \in DOMAIN nodes : nodes[i].pass + nodes[i].fail + nodes[i].skip = 1

\* A row that counts as resolved by the local evaluator has a clean card and,
\* if each test is a single case, tests that were there and none that failed.
ResolvedIsClean ==
    \A c \in Rows : RowResolved(c) /\ disk[c].met.by = "local" =>
        /\ disk[c].card.level = "Q2_functionally_correct"
        /\ disk[c].card.regressions = 0
        /\ disk[c].met.f2p # <<>>
        /\ Plain(disk[c].met.f2p) =>
              \A i \in DOMAIN disk[c].met.f2p : disk[c].met.f2p[i].fail = 0
        /\ Plain(disk[c].met.p2p) =>
              \A i \in DOMAIN disk[c].met.p2p : disk[c].met.p2p[i].fail = 0

\* A contrast compares what both conditions have: no more pairs than either
\* has rows, four counts that are the pairs, a difference that differs from
\* that of the summaries by the unpaired rows at most, and a p-value of 1 for
\* a tie and the smaller the more one-sided.
Conditions == {c.condition : c \in Cells}
ContrastIsPaired ==
    \A cond \in Conditions \ {Baseline} :
        LET r == PairedContrast(cond)
            t == Summary(cond)
            b == Summary(Baseline)
            gap == (t.resolved - b.resolved) - (r.only_treat - r.only_base)
        IN  /\ r.n <= t.n /\ r.n <= b.n
            /\ r.both + r.only_treat + r.only_base + r.neither = r.n
            /\ gap <= t.n - r.n /\ -gap <= b.n - r.n
            /\ LET p == McNemarExact(r.only_treat, r.only_base)
               IN  /\ r.only_treat = r.only_base => p = 2 ^ (2 * r.only_base)
                   /\ r.only_base > 0 =>
                        \/ r.only_base > r.only_treat
                        \/ McNemarExact(r.only_treat + 1, r.only_base - 1) <= p

\* The card can be had again from the files of the run, save for what needs
\* the gold patch: it describes the patch and the verdict beside it.
CardIsRecomputable ==
    \A c \in Rows :
        LET again == RecomputeCard(disk[c].eval, disk[c].patch)
        IN  \A f \in {"resolved", "level", "regressions", "touched"} :
                again[f] = disk[c].card[f]

-----------------------------------------------------------------------------
(* What is said of the results and does not hold.                          *)

\* aggregate.py:83, "different checkpoints are not comparable": the verdict of a
\* row is that of the checkpoint it names.  A report of an earlier launch, taken
\* by a later one, is not.
VerdictsAreOfTheirSpec ==
    \A c \in Rows : disk[c].by = disk[c].spec

\* quality_card.py: "a resolved patch is 'functionally correct'".  Of a patch
\* that only a summary calls resolved the card says Q0_invalid.
ResolvedIsQ2 ==
    \A c \in Rows : RowResolved(c) => disk[c].card.level = "Q2_functionally_correct"

\* Resolved by the local evaluator, and a test failed: the cases of a
\* parametrized test make up for those that fail.
ResolvedHasNoFailure ==
    \A c \in Rows : RowResolved(c) /\ disk[c].met.by = "local" =>
        \A i \in DOMAIN disk[c].met.f2p : disk[c].met.f2p[i].fail = 0

\* A gold file that the patch deletes is one the patch touches.
DeletionsAreTouched ==
    \A c \in Rows : disk[c].card.touched =
        Cardinality({p \in Paths : disk[c].patch[p] # "same"})

\* A recomputed card is the card.
CardIsReproduced ==
    \A c \in Rows : RecomputeCard(disk[c].eval, disk[c].patch) = disk[c].card
=============================================================================
