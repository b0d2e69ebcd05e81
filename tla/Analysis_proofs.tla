--------------------------- MODULE Analysis_proofs ---------------------------
(***************************************************************************)
(* Proofs about Analysis: which version the verdicts of a cohort come      *)
(* from, and what a card describes, for every set of cells, evaluations,   *)
(* versions and interrupted launches.  Both rest on resuming: a run that   *)
(* has its card is not touched again.                                      *)
(***************************************************************************)
EXTENDS Analysis, FiniteSetTheorems, SequenceTheorems, TLAPS

-----------------------------------------------------------------------------
(* The inductive invariant.                                                *)

\* A run directory has its eight parts.
IsRecord(d) ==
    d = [spec |-> d.spec, infra |-> d.infra, patch |-> d.patch, reports |-> d.reports,
         eval |-> d.eval, card |-> d.card, by |-> d.by, met |-> d.met]

Shape ==
    /\ DOMAIN disk = Cells /\ disk = [c \in Cells |-> disk[c]]
    /\ \A c \in Cells : IsRecord(disk[c])

\* One cell at a time is being run.
OneAtATime == current \subseteq Cells /\ \A c, d \in current : c = d

\* The verdict is that of the patch beside it on what the evaluation met.
IsJudged(d, c) ==
    d.met \in WorldsOf[c] /\ (d.met.by = "local" => d.eval = EvaluatePatch(d.patch, d.met))

\* A verdict whose evaluation has left the report taken for it is of the version
\* the specification names.
IsOwn(d) == d.met.by = "local" \/ d.met.detailed => d.by = d.spec

\* A run that is under way is this launch's from its first file on, and has no
\* card; its verdict, once there, is in memory as it is on disk.
CurrentIsThisLaunchs ==
    \A c \in current :
        /\ disk[c].card = <<>> /\ disk[c].spec = version
        /\ stage = "card" =>
              /\ verdict = disk[c].eval
              /\ IsJudged(disk[c], c) /\ IsOwn(disk[c])

\* The card of a run describes the verdict and the patch beside it, and unless
\* the infrastructure failed the verdict is that of the patch, and of the version
\* the specification names if its evaluation left the report.
CardsFit ==
    \A c \in Cells : disk[c].card # <<>> =>
        /\ disk[c].card = BuildCard(disk[c].eval, disk[c].patch, GoldOf[c])
        /\ ~disk[c].infra => IsJudged(disk[c], c) /\ IsOwn(disk[c])

IInv == Shape /\ OneAtATime /\ CurrentIsThisLaunchs /\ CardsFit

\* A step that changes the directory of one cell.
LEMMA OneDirectory ==
    ASSUME Shape, NEW c \in Cells, NEW e, IsRecord(e), disk' = [disk EXCEPT ![c] = e]
    PROVE  Shape' /\ disk'[c] = e /\ \A d \in Cells \ {c} : disk'[d] = disk[d]
  <1>1. disk'[c] = e /\ \A d \in Cells \ {c} : disk'[d] = disk[d]
    BY DEF Shape
  <1>2. DOMAIN disk' = Cells /\ disk' = [d \in Cells |-> disk'[d]]
    BY DEF Shape
  <1>3. \A d \in Cells : IsRecord(disk'[d])
    BY <1>1 DEF Shape
  <1> QED
    BY <1>1, <1>2, <1>3 DEF Shape

\* What an evaluation and a failure put into a directory.
WithVerdict(d, ev, by, met) == [d EXCEPT !.eval = ev, !.by = by, !.met = met]
WithReports(d, reports, ev, by, met) ==
    [d EXCEPT !.reports = reports, !.eval = ev, !.by = by, !.met = met]
WithFailure(d, by, card) ==
    [d EXCEPT !.infra = TRUE, !.patch = EmptyPatch, !.eval = Refuted, !.by = by,
              !.met = <<>>, !.card = card]

LEMMA VerdictPut ==
    ASSUME NEW d, IsRecord(d), NEW reports, NEW ev, NEW by, NEW met, NEW e,
           \/ e = WithVerdict(d, ev, by, met)
           \/ e = WithReports(d, reports, ev, by, met)
    PROVE  /\ IsRecord(e) /\ e.card = d.card /\ e.spec = d.spec
           /\ e.by = by /\ e.eval = ev /\ e.met = met /\ e.patch = d.patch
  <1>1. PICK s, i, p, r, v, c, b, m :
            d = [spec |-> s, infra |-> i, patch |-> p, reports |-> r, eval |-> v,
                 card |-> c, by |-> b, met |-> m]
    BY DEF IsRecord
  <1>2. \E q : e = [spec |-> s, infra |-> i, patch |-> p, reports |-> q, eval |-> ev,
                    card |-> c, by |-> by, met |-> met]
    <2>1. CASE e = WithVerdict(d, ev, by, met)
      <3>1. e = [spec |-> s, infra |-> i, patch |-> p, reports |-> r, eval |-> ev,
                 card |-> c, by |-> by, met |-> met]
        BY <1>1, <2>1 DEF WithVerdict
      <3> QED
        BY <3>1
    <2>2. CASE e = WithReports(d, reports, ev, by, met)
      <3>1. e = [spec |-> s, infra |-> i, patch |-> p, reports |-> reports, eval |-> ev,
                 card |-> c, by |-> by, met |-> met]
        BY <1>1, <2>2 DEF WithReports
      <3> QED
        BY <3>1
    <2> QED
      BY <2>1, <2>2
  <1>3. d.card = c /\ d.spec = s /\ d.patch = p
    BY <1>1
  <1> QED
    BY <1>2, <1>3 DEF IsRecord

LEMMA FailurePut ==
    ASSUME NEW d, IsRecord(d), NEW by, NEW card,
           NEW e, e = WithFailure(d, by, card)
    PROVE  /\ IsRecord(e) /\ e.card = card /\ e.spec = d.spec
           /\ e.by = by /\ e.eval = Refuted /\ e.patch = EmptyPatch
           /\ e.infra
  <1>1. PICK s, i, p, r, v, c, b, m :
            d = [spec |-> s, infra |-> i, patch |-> p, reports |-> r, eval |-> v,
                 card |-> c, by |-> b, met |-> m]
    BY DEF IsRecord
  <1>2. e = [spec |-> s, infra |-> TRUE, patch |-> EmptyPatch, reports |-> r,
             eval |-> Refuted, card |-> card, by |-> by, met |-> <<>>]
    BY <1>1 DEF WithFailure
  <1>3. d.spec = s
    BY <1>1
  <1> QED
    BY <1>2, <1>3 DEF IsRecord

\* A detailed report the harness has just left is the one that is taken.
LEMMA NewReportIsTaken ==
    ASSUME NEW reports, NEW w, w.detailed, NEW v
    PROVE  LET after == ReportsAfter(reports, w, v)
           IN  after[FindReport(after)].by = v
  <1> DEFINE after == ReportsAfter(reports, w, v)
             new == [of |-> w, by |-> v]
  <1>1. after.detailed = new
    BY DEF ReportsAfter
  <1>2. new # <<>>
    <2>1. DOMAIN new = {"of", "by"} /\ DOMAIN <<>> = {}
      OBVIOUS
    <2> QED
      BY <2>1
  <1>3. FindReport(after) = "detailed"
    BY <1>1, <1>2 DEF FindReport
  <1>4. after["detailed"] = new
    BY <1>1
  <1> QED
    BY <1>3, <1>4

LEMMA InitHolds == Init => IInv
  <1> SUFFICES ASSUME Init PROVE IInv
    OBVIOUS
  <1>1. disk = [c \in Cells |-> Nothing] /\ current = {}
    BY DEF Init
  <1>2. IsRecord(Nothing) /\ Nothing.card = <<>>
    BY DEF IsRecord, Nothing
  <1> QED
    BY <1>1, <1>2 DEF IInv, Shape, OneAtATime, CurrentIsThisLaunchs, CardsFit

LEMMA StepHolds ==
    ASSUME Resume, IInv, [Next]_vars
    PROVE  IInv'
  <1> USE DEF IInv, OneAtATime, CurrentIsThisLaunchs, CardsFit
  <1>1. ASSUME NEW c \in Cells, Start(c)
        PROVE  IInv'
    <2> DEFINE e == [disk[c] EXCEPT !.spec = version]
    <2>1. /\ disk' = [disk EXCEPT ![c] = e] /\ disk[c].card = <<>>
          /\ current = {} /\ current' = {c} /\ stage' = "agent" /\ version' = version
      BY <1>1 DEF Start, SpecWritten, Skipped
    <2>2. IsRecord(e) /\ e.card = <<>> /\ e.spec = version
      BY <2>1 DEF Shape, IsRecord
    <2>3. Shape' /\ disk'[c] = e /\ \A d \in Cells \ {c} : disk'[d] = disk[d]
      BY <2>1, <2>2, OneDirectory
    <2> QED
      BY <2>1, <2>2, <2>3
  <1>2. ASSUME NEW c \in Cells, WritePatch(c)
        PROVE  IInv'
    <2>1. PICK p \in PatchesOf[c] : disk' = [disk EXCEPT ![c].patch = p]
      BY <1>2 DEF WritePatch
    <2> DEFINE e == [disk[c] EXCEPT !.patch = p]
    <2>2. /\ disk' = [disk EXCEPT ![c] = e] /\ c \in current /\ current' = current
          /\ stage' = "eval" /\ version' = version
      BY <1>2, <2>1 DEF WritePatch, Shape
    <2>3. IsRecord(e) /\ e.card = <<>> /\ e.spec = version
      <3>1. IsRecord(disk[c]) /\ disk[c].card = <<>> /\ disk[c].spec = version
        BY <2>2 DEF Shape
      <3> QED
        BY <3>1 DEF IsRecord
    <2>4. Shape' /\ disk'[c] = e /\ \A d \in Cells \ {c} : disk'[d] = disk[d]
      BY <2>2, <2>3, OneDirectory
    <2> QED
      BY <2>2, <2>3, <2>4
  <1>3. ASSUME NEW c \in Cells, EvaluateLocal(c)
        PROVE  IInv'
    <2>1. PICK w \in WorldsOf[c] :
              /\ w.by = "local" /\ verdict' = EvaluatePatch(disk[c].patch, w)
              /\ disk' = [disk EXCEPT ![c] =
                         [@ EXCEPT !.eval = verdict', !.by = version, !.met = w]]
      BY <1>3 DEF EvaluateLocal
    <2> DEFINE e == WithVerdict(disk[c], verdict', version, w)
    <2>2. /\ disk' = [disk EXCEPT ![c] = e] /\ c \in current /\ current' = current
          /\ stage' = "card" /\ version' = version
      BY <1>3, <2>1 DEF EvaluateLocal, WithVerdict
    <2>3. /\ IsRecord(e) /\ e.card = <<>> /\ e.spec = version
          /\ e.eval = verdict' /\ IsJudged(e, c) /\ IsOwn(e)
      <3>1. IsRecord(disk[c]) /\ disk[c].card = <<>> /\ disk[c].spec = version
        BY <2>2 DEF Shape
      <3> HIDE DEF e
      <3>2. e = WithVerdict(disk[c], verdict', version, w)
        BY DEF e
      <3>3. /\ IsRecord(e) /\ e.card = <<>> /\ e.spec = version /\ e.by = version
            /\ e.eval = verdict' /\ e.met = w /\ e.patch = disk[c].patch
        BY <3>1, <3>2, VerdictPut
      <3> QED
        BY <2>1, <3>3 DEF IsJudged, IsOwn
    <2>4. Shape' /\ disk'[c] = e /\ \A d \in Cells \ {c} : disk'[d] = disk[d]
      BY <2>2, <2>3, OneDirectory
    <2> QED
      BY <2>2, <2>3, <2>4
  <1>7. ASSUME NEW c \in Cells, EvaluateDocker(c)
        PROVE  IInv'
    <2>1. PICK w \in {x \in WorldsOf[c] : x.by = "docker"} :
              LET reports == ReportsAfter(disk[c].reports, w, version)
                  kind == FindReport(reports)
              IN  /\ verdict' = EvalFromReport(kind, reports[kind].of)
                  /\ disk' = [disk EXCEPT ![c] =
                               [@ EXCEPT !.reports = reports, !.eval = verdict',
                                         !.by = reports[kind].by, !.met = w]]
      BY <1>7 DEF EvaluateDocker
    <2> DEFINE reports == ReportsAfter(disk[c].reports, w, version)
               by == reports[FindReport(reports)].by
               e == WithReports(disk[c], reports, verdict', by, w)
    <2>2. /\ disk' = [disk EXCEPT ![c] = e] /\ c \in current /\ current' = current
          /\ stage' = "card" /\ version' = version
      BY <1>7, <2>1 DEF EvaluateDocker, WithReports
    <2>3. w.detailed => by = version
      BY NewReportIsTaken
    <2>4. /\ IsRecord(e) /\ e.card = <<>> /\ e.spec = version
          /\ e.eval = verdict' /\ IsJudged(e, c) /\ IsOwn(e)
      <3>1. IsRecord(disk[c]) /\ disk[c].card = <<>> /\ disk[c].spec = version
        BY <2>2 DEF Shape
      <3> HIDE DEF e, by, reports
      <3>2. e = WithReports(disk[c], reports, verdict', by, w)
        BY DEF e
      <3>3. /\ IsRecord(e) /\ e.card = <<>> /\ e.spec = version /\ e.by = by
            /\ e.eval = verdict' /\ e.met = w
        BY <3>1, <3>2, VerdictPut
      <3>4. w \in WorldsOf[c] /\ w.by # "local"
        OBVIOUS
      <3> QED
        BY <2>3, <3>3, <3>4 DEF IsJudged, IsOwn
    <2> HIDE DEF e
    <2>5. Shape' /\ disk'[c] = e /\ \A d \in Cells \ {c} : disk'[d] = disk[d]
      BY <2>2, <2>4, OneDirectory
    <2> QED
      BY <2>2, <2>4, <2>5
  <1>4. ASSUME NEW c \in Cells, WriteCard(c)
        PROVE  IInv'
    <2> DEFINE card == BuildCard(verdict, disk[c].patch, GoldOf[c])
               e == [disk[c] EXCEPT !.card = card]
    <2>1. /\ disk' = [disk EXCEPT ![c] = e] /\ c \in current /\ current' = {}
          /\ stage = "card"
      BY <1>4 DEF WriteCard, Shape
    <2>2. /\ IsRecord(e) /\ e.card = card /\ e.spec = disk[c].spec /\ e.by = disk[c].by
          /\ e.infra = disk[c].infra /\ e.eval = disk[c].eval /\ e.patch = disk[c].patch /\ e.met = disk[c].met
      BY DEF Shape, IsRecord
    <2>3. /\ e.card = BuildCard(e.eval, e.patch, GoldOf[c])
          /\ IsJudged(e, c) /\ IsOwn(e)
      BY <2>1, <2>2 DEF IsJudged, IsOwn
    <2>4. Shape' /\ disk'[c] = e /\ \A d \in Cells \ {c} : disk'[d] = disk[d]
      BY <2>1, <2>2, OneDirectory
    <2> QED
      BY <2>1, <2>3, <2>4
  <1>5. ASSUME NEW c \in Cells, InfraFails(c)
        PROVE  IInv'
    <2> DEFINE card == BuildCard(Refuted, EmptyPatch, GoldOf[c])
               e == WithFailure(disk[c], version, card)
    <2>1. disk' = [disk EXCEPT ![c] = e] /\ c \in current /\ current' = {}
      BY <1>5 DEF InfraFails, WithFailure
    <2>2. /\ IsRecord(e) /\ e.card = card /\ e.spec = version /\ e.by = version
          /\ e.eval = Refuted /\ e.patch = EmptyPatch /\ e.infra
      <3>1. IsRecord(disk[c]) /\ disk[c].spec = version
        BY <2>1 DEF Shape
      <3> HIDE DEF e
      <3>2. e = WithFailure(disk[c], version, card)
        BY DEF e
      <3> QED
        BY <3>1, <3>2, FailurePut
    <2>3. Shape' /\ disk'[c] = e /\ \A d \in Cells \ {c} : disk'[d] = disk[d]
      BY <2>1, <2>2, OneDirectory
    <2> QED
      BY <2>1, <2>2, <2>3
  <1>6. CASE Relaunch \/ (\E c \in Cells : Raises(c)) \/ UNCHANGED vars
    <2>1. UNCHANGED disk /\ (current' = {} \/ UNCHANGED <<current, stage, verdict, version>>)
      BY <1>6 DEF Relaunch, Raises, vars
    <2>2. Shape'
      BY <2>1 DEF Shape
    <2> QED
      BY <2>1, <2>2
  <1> QED
    BY <1>1, <1>2, <1>3, <1>4, <1>5, <1>6, <1>7 DEF Next

LEMMA InvariantHolds == ASSUME Resume PROVE Spec => []IInv
  <1>1. IInv /\ [Next]_vars => IInv'
    BY StepHolds
  <1> QED
    BY <1>1, InitHolds, PTL DEF Spec

-----------------------------------------------------------------------------

\* What is not refused has one specification.
LEMMA OneSpecification ==
    ASSUME ~Refused, NEW c \in Rows, NEW d \in Rows
    PROVE  disk[c].spec = disk[d].spec
  <1> DEFINE Specs == {disk[r].spec : r \in Rows}
             specOf == [r \in Rows |-> disk[r].spec]
  <1>1. IsFiniteSet(Rows)
    BY CellsAssumption, FS_Subset DEF Rows
  <1>2. specOf \in Surjection(Rows, Specs)
    BY DEF Surjection
  <1>3. IsFiniteSet(Specs)
    BY <1>1, <1>2, FS_Surjection
  <1>4. Cardinality(Specs) <= 1 /\ Cardinality(Specs) \in Nat
    BY <1>3, FS_CardinalityType DEF Refused
  <1> SUFFICES ASSUME disk[c].spec # disk[d].spec PROVE FALSE
    OBVIOUS
  <1> DEFINE pair == {disk[c].spec} \cup {disk[d].spec}
  <1>5. IsFiniteSet({disk[c].spec}) /\ Cardinality({disk[c].spec}) = 1
    BY FS_Singleton
  <1>6. Cardinality(pair) = 2
    BY <1>5, FS_AddElement
  <1>7. pair \in SUBSET Specs
    OBVIOUS
  <1>8. Cardinality(pair) <= Cardinality(Specs)
    BY <1>3, <1>7, FS_Subset
  <1> QED
    BY <1>4, <1>6, <1>8

\* A resumed experiment mixes no models, protocols or versions into one report,
\* wherever its launches were interrupted: load_runs refuses, or every verdict
\* that counts is of one version, provided that its evaluation left the report
\* it was taken from.
THEOREM CohortsAreHomogeneous == ASSUME Resume PROVE Spec => []CohortIsHomogeneous
  <1>1. ASSUME IInv PROVE CohortIsHomogeneous
    <2> SUFFICES ASSUME ~Refused, NEW c \in Rows, NEW d \in Rows,
                        OwnReport(c), OwnReport(d)
                 PROVE  disk[c].by = disk[d].by
      BY DEF CohortIsHomogeneous
    <2>1. disk[c].by = disk[c].spec /\ disk[d].by = disk[d].spec
      BY <1>1 DEF IInv, CardsFit, IsOwn, OwnReport, Rows
    <2>2. disk[c].spec = disk[d].spec
      BY OneSpecification
    <2> QED
      BY <2>1, <2>2
  <1> QED
    BY <1>1, InvariantHolds, PTL

\* The card of every run that counts can be had again from the verdict and the
\* patch beside it, save for what needs the gold patch (build_card,
\* recompute_card_from_run_dir).
THEOREM CardsAreRecomputable == ASSUME Resume PROVE Spec => []CardIsRecomputable
  <1>1. ASSUME IInv PROVE CardIsRecomputable
    <2> SUFFICES ASSUME NEW c \in Rows,
                        NEW f \in {"resolved", "level", "regressions", "touched"}
                 PROVE  RecomputeCard(disk[c].eval, disk[c].patch)[f] = disk[c].card[f]
      BY DEF CardIsRecomputable
    <2>1. disk[c].card = BuildCard(disk[c].eval, disk[c].patch, GoldOf[c])
      BY <1>1 DEF IInv, CardsFit, Rows
    <2>2. \A ev, p, g, h : BuildCard(ev, p, g)[f] = BuildCard(ev, p, h)[f]
      BY DEF BuildCard
    <2> QED
      BY <2>1, <2>2 DEF RecomputeCard
  <1> QED
    BY <1>1, InvariantHolds, PTL
-----------------------------------------------------------------------------
(* Resolved runs.                                                          *)

\* Where each test node is a single case, a pytest call that counts all nodes
\* as passed had none that failed.
LEMMA AllPassedNoneFailed ==
    ASSUME NEW nodes \in Seq(Node), Plain(nodes),
           RunPytest(nodes).passed = RunPytest(nodes).total
    PROVE  \A i \in DOMAIN nodes : nodes[i].fail = 0
  <1> DEFINE n == Len(nodes)
             items == PassedItems(nodes)
  <1>1. n \in Nat /\ DOMAIN nodes = 1 .. n /\ \A i \in 1 .. n : nodes[i] \in Node
    BY LenProperties, ElementOfSeq
  <1>2. SUFFICES ASSUME NEW f \in 1 .. n, nodes[f].fail # 0
                 PROVE  FALSE
    BY <1>1
  <1>3. \A i \in 1 .. n : nodes[i].pass + nodes[i].fail + nodes[i].skip = 1
    BY <1>1 DEF Plain
  <1>4. RunPytest(nodes) = Tests(Cardinality(items), n)
    <2>1. n # 0
      BY <1>1
    <2>2. ~ \E i \in 1 .. n : nodes[i].pass + nodes[i].fail + nodes[i].skip = 0
      BY <1>3
    <2>3. ~ \A i \in 1 .. n : nodes[i].fail = 0
      BY <1>2
    <2> QED
      BY <2>1, <2>2, <2>3 DEF RunPytest
  <1>5. Cardinality(items) = n
    BY <1>4 DEF Tests
  <1> DEFINE others == (1 .. n) \ {f}
             nodeOf == [x \in items |-> x[1]]
  <1>6. IsFiniteSet(others) /\ Cardinality(others) = n - 1
    <2>1. IsFiniteSet(1 .. n) /\ Cardinality(1 .. n) = n
      BY <1>1, FS_Interval
    <2> QED
      BY <2>1, FS_RemoveElement
  <1>7. \A x \in items : x[1] \in others /\ x = <<x[1], 1>>
    <2> SUFFICES ASSUME NEW i \in 1 .. n, NEW k \in 1 .. nodes[i].pass
                 PROVE  i # f /\ k = 1
      BY DEF PassedItems
    <2>1. /\ nodes[i].pass \in Nat /\ nodes[i].fail \in Nat /\ nodes[i].skip \in Nat
          /\ nodes[i].pass + nodes[i].fail + nodes[i].skip = 1
      BY <1>1, <1>3 DEF Node
    <2> QED
      BY <1>2, <2>1
  <1>8. nodeOf \in Injection(items, others)
    BY <1>7 DEF Injection, IsInjective
  <1>9. Cardinality(items) <= n - 1
    BY <1>6, <1>8, FS_Injection
  <1> QED
    BY <1>1, <1>5, <1>9

\* A run that counts as resolved by the local evaluator has a clean card, had
\* tests to pass, and where every test is a single case none of them failed
\* (evaluate_patch, run_pytest, build_card).
THEOREM ResolvedRunsAreClean == ASSUME Resume PROVE Spec => []ResolvedIsClean
  <1>1. ASSUME IInv PROVE ResolvedIsClean
    <2> SUFFICES ASSUME NEW c \in Rows, RowResolved(c), disk[c].met.by = "local"
                 PROVE  /\ disk[c].card.level = "Q2_functionally_correct"
                        /\ disk[c].card.regressions = 0
                        /\ disk[c].met.f2p # <<>>
                        /\ Plain(disk[c].met.f2p) =>
                              \A i \in DOMAIN disk[c].met.f2p : disk[c].met.f2p[i].fail = 0
                        /\ Plain(disk[c].met.p2p) =>
                              \A i \in DOMAIN disk[c].met.p2p : disk[c].met.p2p[i].fail = 0
      BY DEF ResolvedIsClean
    <2> DEFINE ev == disk[c].eval
               w == disk[c].met
               p == disk[c].patch
    <2>1. /\ c \in Cells /\ w \in WorldsOf[c] /\ ev = EvaluatePatch(p, w)
          /\ disk[c].card = BuildCard(ev, p, GoldOf[c])
      BY <1>1 DEF IInv, CardsFit, IsJudged, Rows
    <2>2. w.f2p \in Seq(Node) /\ w.p2p \in Seq(Node)
      <3>1. w \in LocalWorld \cup DockerWorld
        BY <2>1, CellsAssumption
      <3> QED
        BY <3>1 DEF LocalWorld, DockerWorld
    <2> DEFINE applies == p = EmptyPatch \/ w.applies
               f2p == IF applies THEN RunPytest(w.f2p) ELSE NoTests
               p2p == IF applies THEN RunPytest(w.p2p) ELSE NoTests
    <2>3. ev = EvalResult(applies, w.builds, f2p, p2p, Resolved(applies, w.builds, f2p, p2p))
      BY <2>1 DEF EvaluatePatch
    <2> HIDE DEF applies, f2p, p2p
    <2>4. /\ ev.patch_applies = applies /\ ev.build_success = w.builds
          /\ ev.f2p = f2p /\ ev.p2p = p2p
          /\ ev.resolved = Resolved(applies, w.builds, f2p, p2p)
      BY <2>3 DEF EvalResult
    <2>5. /\ applies /\ w.builds /\ f2p.total > 0 /\ f2p.passed = f2p.total
          /\ p2p.passed = p2p.total
      BY <2>4 DEF RowResolved, Resolved
    <2>6. f2p = RunPytest(w.f2p) /\ p2p = RunPytest(w.p2p)
      BY <2>5 DEF f2p, p2p
    <2>7. p2p.total \in Nat
      <3>1. Len(w.p2p) \in Nat
        BY <2>2, LenProperties
      <3> QED
        BY <2>6, <3>1 DEF RunPytest, Tests, NoTests
    <2>8. /\ disk[c].card.level = "Q2_functionally_correct"
          /\ disk[c].card.regressions = 0
      <3>1. /\ disk[c].card.level = QualityLevel(ev)
            /\ disk[c].card.regressions =
                   IF ev.p2p.total - ev.p2p.passed > 0 THEN ev.p2p.total - ev.p2p.passed ELSE 0
        BY <2>1 DEF BuildCard
      <3>2. ev.p2p.total - ev.p2p.passed = 0
        BY <2>4, <2>5, <2>7
      <3>3. QualityLevel(ev) = "Q2_functionally_correct"
        BY <2>4, <2>5 DEF QualityLevel, RowResolved
      <3> QED
        BY <3>1, <3>2, <3>3
    <2>9. w.f2p # <<>>
      <3> SUFFICES ASSUME w.f2p = <<>> PROVE FALSE
        OBVIOUS
      <3>1. f2p = Tests(0, 0)
        BY <2>6 DEF RunPytest, NoTests
      <3> QED
        BY <2>5, <3>1 DEF Tests
    <2>10. Plain(w.f2p) => \A i \in DOMAIN w.f2p : w.f2p[i].fail = 0
      BY <2>2, <2>5, <2>6, AllPassedNoneFailed
    <2>11. Plain(w.p2p) => \A i \in DOMAIN w.p2p : w.p2p[i].fail = 0
      BY <2>2, <2>5, <2>6, AllPassedNoneFailed
    <2> QED
      BY <2>8, <2>9, <2>10, <2>11
  <1> QED
    BY <1>1, InvariantHolds, PTL

-----------------------------------------------------------------------------
(* The paired contrast.                                                    *)

\* What is left of a finite set without a part of it.
LEMMA RestOfFinite ==
    ASSUME NEW S, IsFiniteSet(S), NEW T, T \subseteq S
    PROVE  /\ IsFiniteSet(T) /\ IsFiniteSet(S \ T)
           /\ Cardinality(S) \in Nat /\ Cardinality(T) \in Nat
           /\ Cardinality(S \ T) = Cardinality(S) - Cardinality(T)
           /\ Cardinality(T) <= Cardinality(S)
  <1>1. IsFiniteSet(T) /\ Cardinality(T) <= Cardinality(S)
    BY FS_Subset
  <1>2. IsFiniteSet(S \ T) /\ Cardinality(S \ T) = Cardinality(S) - Cardinality(S \cap T)
    BY FS_Difference
  <1>3. S \cap T = T
    OBVIOUS
  <1>4. Cardinality(S \cap T) = Cardinality(T)
    BY <1>3
  <1> QED
    BY <1>1, <1>2, <1>4, FS_CardinalityType

\* Tasks that each have a row of their own are no more than the rows.
LEMMA TasksHaveRows ==
    ASSUME NEW rows, IsFiniteSet(rows), NEW tasks, \A t \in tasks : \E c \in rows : c.task = t
    PROVE  IsFiniteSet(tasks) /\ Cardinality(tasks) <= Cardinality(rows)
  <1> DEFINE rowOf == [t \in tasks |-> CHOOSE c \in rows : c.task = t]
  <1>1. \A t \in tasks : rowOf[t] \in rows /\ rowOf[t].task = t
    OBVIOUS
  <1>2. rowOf \in Injection(tasks, rows)
    BY <1>1 DEF Injection, IsInjective
  <1> QED
    BY <1>2, FS_Injection

\* Two finite sets are made up of what they share and what each has alone.
LEMMA SharedAndAlone ==
    ASSUME NEW A, NEW B, IsFiniteSet(A), IsFiniteSet(B)
    PROVE  /\ Cardinality(A \cap B) + Cardinality(A \ B) = Cardinality(A)
           /\ Cardinality(A \cap B) + Cardinality(B \ A) = Cardinality(B)
           /\ Cardinality(A \cap B) + Cardinality(A \ B) + Cardinality(B \ A)
                = Cardinality(A \cup B)
  <1>1. /\ IsFiniteSet(A \cap B)
        /\ Cardinality(A \cup B) = Cardinality(A) + Cardinality(B) - Cardinality(A \cap B)
    BY FS_Union, FS_Intersection
  <1>2. Cardinality(A \ B) = Cardinality(A) - Cardinality(A \cap B)
    BY FS_Difference
  <1>3. Cardinality(B \ A) = Cardinality(B) - Cardinality(A \cap B)
    <2>1. Cardinality(B \ A) = Cardinality(B) - Cardinality(B \cap A)
      BY FS_Difference
    <2>2. B \cap A = A \cap B
      OBVIOUS
    <2> QED
      BY <2>1, <2>2
  <1> QED
    BY <1>1, <1>2, <1>3, FS_CardinalityType

\* At least half of the throws have at most half of the heads, by turning all
\* coins.
LEMMA HalfIsHalf ==
    ASSUME NEW b \in Nat
    PROVE  /\ Cardinality(AtMost(b, 2 * b)) \in Nat /\ 2 ^ (2 * b) \in Nat
           /\ 2 * Cardinality(AtMost(b, 2 * b)) >= 2 ^ (2 * b)
  <1> DEFINE U == 1 .. 2 * b
             All == SUBSET U
             Low == AtMost(b, 2 * b)
             High == {S \in All : Cardinality(S) >= b}
             turn == [S \in Low |-> U \ S]
  <1>1. IsFiniteSet(U) /\ Cardinality(U) = 2 * b
    BY FS_Interval
  <1>2. /\ \A S \in All : IsFiniteSet(S) /\ Cardinality(S) \in Nat
        /\ \A S \in All : Cardinality(U \ S) = 2 * b - Cardinality(S)
    <2>1. ASSUME NEW S \in All
          PROVE  IsFiniteSet(S) /\ Cardinality(S) \in Nat
      BY <1>1, FS_Subset, FS_CardinalityType
    <2>2. ASSUME NEW S \in All
          PROVE  Cardinality(U \ S) = 2 * b - Cardinality(S)
      BY <1>1, RestOfFinite
    <2> QED
      BY <2>1, <2>2
  <1>3. IsFiniteSet(All) /\ Cardinality(All) = 2 ^ (2 * b)
    BY <1>1, FS_SUBSET
  <1>4. Low \subseteq All /\ High \subseteq All /\ Low \cup High = All
    BY <1>2 DEF AtMost
  <1>5. IsFiniteSet(Low) /\ IsFiniteSet(High) /\ IsFiniteSet(Low \cap High)
    BY <1>3, <1>4, FS_Subset
  <1>6. Cardinality(High) <= Cardinality(Low)
    <2>1. \A S \in Low : turn[S] \in High
      BY <1>2, <1>4 DEF AtMost
    <2>2. ASSUME NEW H \in High PROVE \E S \in Low : turn[S] = H
      <3>1. U \ H \in Low
        BY <1>2 DEF AtMost
      <3>2. turn[U \ H] = H
        BY <3>1
      <3> QED
        BY <3>1, <3>2
    <2>3. turn \in Surjection(Low, High)
      BY <2>1, <2>2 DEF Surjection
    <2> QED
      BY <1>5, <2>3, FS_Surjection
  <1>7. Cardinality(All) = Cardinality(Low) + Cardinality(High) - Cardinality(Low \cap High)
    BY <1>4, <1>5, FS_Union
  <1> HIDE DEF U, All, Low, High, turn
  <1>8. /\ Cardinality(Low) \in Nat /\ Cardinality(High) \in Nat
        /\ Cardinality(Low \cap High) \in Nat /\ Cardinality(All) \in Nat
    BY <1>3, <1>5, FS_CardinalityType
  <1>9. 2 * Cardinality(Low) >= Cardinality(All)
    BY <1>6, <1>7, <1>8
  <1> QED
    BY <1>3, <1>8, <1>9 DEF Low

\* The p-value of a tie is 1, and one discordant pair that changes sides away
\* from it never raises the p-value.
LEMMA TieIsOne == \A b \in Nat : McNemarExact(b, b) = 2 ^ (2 * b)
  <1> SUFFICES ASSUME NEW b \in Nat PROVE McNemarExact(b, b) = 2 ^ (2 * b)
    OBVIOUS
  <1>1. b + b = 2 * b
    OBVIOUS
  <1>2. McNemarExact(b, b) =
            IF 2 * Cardinality(AtMost(b, 2 * b)) < 2 ^ (2 * b)
            THEN 2 * Cardinality(AtMost(b, 2 * b)) ELSE 2 ^ (2 * b)
    BY <1>1 DEF McNemarExact
  <1> QED
    BY <1>2, HalfIsHalf

LEMMA OneSidedIsRarer ==
    ASSUME NEW b \in Nat, NEW c \in Nat, c > 0, c <= b
    PROVE  McNemarExact(b + 1, c - 1) <= McNemarExact(b, c)
  <1> DEFINE n == b + c
             lower == Cardinality(AtMost(c - 1, n))
             upper == Cardinality(AtMost(c, n))
             top == 2 ^ n
  <1>1. IsFiniteSet(1 .. n) /\ Cardinality(1 .. n) = n
    BY FS_Interval
  <1>2. IsFiniteSet(SUBSET (1 .. n)) /\ Cardinality(SUBSET (1 .. n)) = top
    BY <1>1, FS_SUBSET
  <1>3. IsFiniteSet(AtMost(c, n))
    BY <1>2, FS_Subset DEF AtMost
  <1>4. AtMost(c - 1, n) \in SUBSET AtMost(c, n)
    <2>1. \A S \in SUBSET (1 .. n) : Cardinality(S) \in Nat
      BY <1>1, FS_Subset, FS_CardinalityType
    <2> QED
      BY <2>1 DEF AtMost
  <1>5. lower <= upper /\ lower \in Nat /\ upper \in Nat /\ top \in Nat
    BY <1>2, <1>3, <1>4, FS_Subset, FS_CardinalityType
  <1>6. McNemarExact(b + 1, c - 1) = IF 2 * lower < top THEN 2 * lower ELSE top
    <2>1. (b + 1) + (c - 1) = n /\ ~(b + 1 < c - 1)
      OBVIOUS
    <2> QED
      BY <2>1 DEF McNemarExact
  <1>7. McNemarExact(b, c) = IF 2 * upper < top THEN 2 * upper ELSE top
    BY DEF McNemarExact
  <1> HIDE DEF lower, upper, top
  <1> QED
    BY <1>5, <1>6, <1>7

\* The contrast of a condition with the baseline counts the tasks both have,
\* each once, and its difference is that of the summaries but for the rows that
\* have no pair; its p-value is 1 for a tie and smaller the more one-sided
\* (_paired, paired_contrast, mcnemar_exact), whatever the directories hold.
THEOREM ContrastsArePaired == Spec => []ContrastIsPaired
  <1>1. ContrastIsPaired
    <2> SUFFICES ASSUME NEW cond \in Conditions \ {Baseline}
                 PROVE  LET r == PairedContrast(cond)
                            t == Summary(cond)
                            b == Summary(Baseline)
                            gap == (t.resolved - b.resolved) - (r.only_treat - r.only_base)
                        IN  /\ r.n <= t.n /\ r.n <= b.n
                            /\ r.both + r.only_treat + r.only_base + r.neither = r.n
                            /\ gap <= t.n - r.n /\ -gap <= b.n - r.n
                            /\ LET p == McNemarExact(r.only_treat, r.only_base)
                               IN  /\ r.only_treat = r.only_base => p = 2 ^ (2 * r.only_base)
                                   /\ r.only_base > 0 =>
                                        \/ r.only_base > r.only_treat
                                        \/ McNemarExact(r.only_treat + 1, r.only_base - 1) <= p
      BY DEF ContrastIsPaired
    <2> DEFINE treated == SeedZero(cond)
               untreated == SeedZero(Baseline)
               common == CommonTasks(treated, untreated)
               rowsT == {c \in Rows : c.condition = cond}
               rowsB == {c \in Rows : c.condition = Baseline}
               wonT == {c \in rowsT : RowResolved(c)}
               wonB == {c \in rowsB : RowResolved(c)}
               solvedT == {t \in common : \E c \in treated : c.task = t /\ c \in wonT}
               solvedB == {t \in common : \E c \in untreated : c.task = t /\ c \in wonB}
               r == PairedContrast(cond)
               t == Summary(cond)
               b == Summary(Baseline)
    <2>1. IsFiniteSet(rowsT) /\ IsFiniteSet(rowsB)
      BY CellsAssumption, FS_Subset DEF Rows
    <2>2. /\ wonT \subseteq rowsT /\ solvedT \subseteq common
          /\ \A k \in solvedT : \E c \in wonT : c.task = k
          /\ \A k \in common \ solvedT : \E c \in rowsT \ wonT : c.task = k
      BY DEF SeedZero, CommonTasks
    <2>3. /\ wonB \subseteq rowsB /\ solvedB \subseteq common
          /\ \A k \in solvedB : \E c \in wonB : c.task = k
          /\ \A k \in common \ solvedB : \E c \in rowsB \ wonB : c.task = k
      BY DEF SeedZero, CommonTasks
    <2>4. /\ t.n = Cardinality(rowsT) /\ t.resolved = Cardinality(wonT)
          /\ b.n = Cardinality(rowsB) /\ b.resolved = Cardinality(wonB)
      BY DEF Summary
    <2>5. /\ r.n = Cardinality(common)
          /\ r.both = Cardinality(solvedT \cap solvedB) /\ r.only_treat = Cardinality(solvedT \ solvedB)
          /\ r.only_base = Cardinality(solvedB \ solvedT)
          /\ r.neither = Cardinality(common \ (solvedT \cup solvedB))
      <3> DEFINE Solved(S, k) == \E c \in S : c.task = k /\ RowResolved(c)
                 Split(x, y) == {k \in common : Solved(treated, k) = x /\ Solved(untreated, k) = y}
      <3>1. /\ \A k : Solved(treated, k) <=> \E c \in treated : c.task = k /\ c \in wonT
            /\ \A k : Solved(untreated, k) <=> \E c \in untreated : c.task = k /\ c \in wonB
        BY DEF SeedZero
      <3>2. /\ Split(TRUE, TRUE) = solvedT \cap solvedB /\ Split(TRUE, FALSE) = solvedT \ solvedB
            /\ Split(FALSE, TRUE) = solvedB \ solvedT
            /\ Split(FALSE, FALSE) = common \ (solvedT \cup solvedB)
        BY <3>1
      <3>3. r = [n |-> Cardinality(common),
                 both |-> Cardinality(Split(TRUE, TRUE)),
                 only_treat |-> Cardinality(Split(TRUE, FALSE)),
                 only_base |-> Cardinality(Split(FALSE, TRUE)),
                 neither |-> Cardinality(Split(FALSE, FALSE))]
        BY DEF PairedContrast
      <3> HIDE DEF Split, r
      <3> QED
        BY <3>2, <3>3
    <2> HIDE DEF r, t, b, treated, untreated, common, rowsT, rowsB, solvedT, solvedB, wonT, wonB
    <2>6. /\ IsFiniteSet(solvedT) /\ Cardinality(solvedT) <= Cardinality(wonT)
          /\ IsFiniteSet(common) /\ IsFiniteSet(wonT)
          /\ Cardinality(common) - Cardinality(solvedT) <= Cardinality(rowsT) - Cardinality(wonT)
      <3>1. /\ IsFiniteSet(wonT) /\ IsFiniteSet(rowsT \ wonT)
            /\ Cardinality(rowsT \ wonT) = Cardinality(rowsT) - Cardinality(wonT)
        BY <2>1, <2>2, RestOfFinite
      <3>2. IsFiniteSet(solvedT) /\ Cardinality(solvedT) <= Cardinality(wonT)
        BY <3>1, <2>2, TasksHaveRows
      <3>3. /\ IsFiniteSet(common \ solvedT)
            /\ Cardinality(common \ solvedT) <= Cardinality(rowsT \ wonT)
        BY <3>1, <2>2, TasksHaveRows
      <3>4. IsFiniteSet(solvedT \cup (common \ solvedT))
        BY <3>2, <3>3, FS_Union
      <3>5. solvedT \cup (common \ solvedT) = common
        BY <2>2
      <3>6. IsFiniteSet(common)
        BY <3>4, <3>5
      <3>7. Cardinality(common \ solvedT) = Cardinality(common) - Cardinality(solvedT)
        BY <3>6, <2>2, RestOfFinite
      <3> QED
        BY <3>1, <3>2, <3>3, <3>6, <3>7
    <2>7. /\ IsFiniteSet(solvedB) /\ Cardinality(solvedB) <= Cardinality(wonB)
          /\ IsFiniteSet(wonB)
          /\ Cardinality(common) - Cardinality(solvedB) <= Cardinality(rowsB) - Cardinality(wonB)
      <3>1. /\ IsFiniteSet(wonB) /\ IsFiniteSet(rowsB \ wonB)
            /\ Cardinality(rowsB \ wonB) = Cardinality(rowsB) - Cardinality(wonB)
        BY <2>1, <2>3, RestOfFinite
      <3>2. IsFiniteSet(solvedB) /\ Cardinality(solvedB) <= Cardinality(wonB)
        BY <3>1, <2>3, TasksHaveRows
      <3>3. Cardinality(common \ solvedB) <= Cardinality(rowsB \ wonB)
        BY <3>1, <2>3, TasksHaveRows
      <3>4. Cardinality(common \ solvedB) = Cardinality(common) - Cardinality(solvedB)
        BY <2>6, <2>3, RestOfFinite
      <3> QED
        BY <3>1, <3>2, <3>3, <3>4
    <2>8. /\ Cardinality(solvedT \cap solvedB) + Cardinality(solvedT \ solvedB)
               = Cardinality(solvedT)
          /\ Cardinality(solvedT \cap solvedB) + Cardinality(solvedB \ solvedT)
               = Cardinality(solvedB)
          /\ Cardinality(solvedT \cap solvedB) + Cardinality(solvedT \ solvedB)
               + Cardinality(solvedB \ solvedT) = Cardinality(solvedT \cup solvedB)
      BY <2>6, <2>7, SharedAndAlone
    <2>9. /\ IsFiniteSet(solvedT \cup solvedB)
          /\ IsFiniteSet(common \ (solvedT \cup solvedB))
          /\ Cardinality(common \ (solvedT \cup solvedB))
               = Cardinality(common) - Cardinality(solvedT \cup solvedB)
      <3>1. solvedT \cup solvedB \subseteq common
        BY <2>2, <2>3
      <3> QED
        BY <2>6, <3>1, RestOfFinite
    <2>10. /\ IsFiniteSet(solvedT \cap solvedB) /\ IsFiniteSet(solvedT \ solvedB)
          /\ IsFiniteSet(solvedB \ solvedT)
      BY <2>6, <2>7, FS_Intersection, FS_Difference
    <2>11. /\ {r.n, r.both, r.only_treat, r.only_base, r.neither} \subseteq Nat
          /\ {t.n, t.resolved, b.n, b.resolved} \subseteq Nat
      BY <2>1, <2>4, <2>5, <2>6, <2>7, <2>9, <2>10, FS_CardinalityType
    <2>12. /\ r.n <= t.n /\ r.n <= b.n
           /\ r.both + r.only_treat + r.only_base + r.neither = r.n
           /\ (t.resolved - b.resolved) - (r.only_treat - r.only_base) <= t.n - r.n
           /\ -((t.resolved - b.resolved) - (r.only_treat - r.only_base)) <= b.n - r.n
      <3>1. {Cardinality(solvedT), Cardinality(solvedB), Cardinality(solvedT \cup solvedB)}
                \subseteq Nat
        BY <2>6, <2>7, <2>9, FS_CardinalityType
      <3> QED
        BY <2>4, <2>5, <2>6, <2>7, <2>8, <2>9, <2>11, <3>1
    <2>13. r.only_treat = r.only_base =>
               McNemarExact(r.only_treat, r.only_base) = 2 ^ (2 * r.only_base)
      BY <2>11, TieIsOne
    <2>14. r.only_base > 0 =>
               \/ r.only_base > r.only_treat
               \/ McNemarExact(r.only_treat + 1, r.only_base - 1)
                    <= McNemarExact(r.only_treat, r.only_base)
      BY <2>11, OneSidedIsRarer
    <2> QED
      BY <2>12, <2>13, <2>14 DEF r, t, b
  <1> QED
    BY <1>1, PTL
=============================================================================
