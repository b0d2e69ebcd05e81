---------------------------- MODULE Gates_proofs ----------------------------
(***************************************************************************)
(* Proofs about Gates, for every repository, policy, cap and budget.       *)
(* Everything rests on one invariant: what the last run of the policy      *)
(* wrote is what the policy says of the tree it looked at.                 *)
(***************************************************************************)
EXTENDS Gates, FiniteSetTheorems, TLAPS

LEMMA FilesFinite == IsFiniteSet(Files)
    BY FilesAssumption, FS_Union DEF Files

\* What a tool complains about is a finite set of files.
LEMMA ComplaintsFinite ==
    ASSUME NEW x, NEW t
    PROVE  /\ Complaints(x, t) \subseteq Files
           /\ IsFiniteSet(Complaints(x, t))
           /\ Cardinality(Complaints(x, t)) \in Nat
<1>1. Complaints(x, t) \subseteq Files
    BY DEF Complaints, Unparsable
<1> QED
    BY <1>1, FilesFinite, FS_Subset, FS_CardinalityType

\* A count is a natural number or -1, and so is the number of new warnings.
LEMMA CountType ==
    ASSUME NEW v, NEW x, NEW t
    PROVE  WarningCount(v, x, t) \in Counts
    BY ComplaintsFinite DEF WarningCount, Counts

LEMMA NewWarningsType ==
    ASSUME NEW n \in Counts, NEW m \in Counts
    PROVE  NewWarnings(n, m) \in Counts
    BY DEF NewWarnings, Counts

LEMMA BaselineType ==
    ASSUME NEW v, NEW t
    PROVE  ComputeBaseline(v, t) \in [AdvisoryGates(v) -> Counts]
    BY CountType DEF ComputeBaseline

LEMMA RunPolicyType ==
    ASSUME NEW v, NEW t, NEW changed, NEW before \in [AdvisoryGates(v) -> Counts]
    PROVE  /\ RunPolicy(v, t, changed, before) \in Reports(v)
           /\ RunPolicy(v, t, changed, before) # NoResults
<1> DEFINE r == RunPolicy(v, t, changed, before)
<1>1. r.failed \in SUBSET BlockingGates(v)
    BY DEF RunPolicy
<1>2. r.count \in [AdvisoryGates(v) -> Counts]
    BY CountType DEF RunPolicy
<1>3. r.fresh \in [AdvisoryGates(v) -> Counts]
    <2>1. \A x \in AdvisoryGates(v) :
              NewWarnings(WarningCount(v, x, t), before[x]) \in Counts
        BY CountType, NewWarningsType
    <2> QED
        BY <2>1 DEF RunPolicy
<1>4. r \in Reports(v)
    BY <1>1, <1>2, <1>3 DEF Reports, RunPolicy
<1>5. DOMAIN r.count # DOMAIN NoResults.count
    BY DEF RunPolicy, NoResults, AdvisoryGates
<1> QED
    BY <1>4, <1>5

-----------------------------------------------------------------------------
(* The inductive invariant.                                                *)

\* The results on disk are the policy's, of the tree it looked at, with the
\* counts of the base tree before them.
ResultsAreThePolicys ==
    /\ pc # "setup" => baseline = ComputeBaseline(version, base)
    /\ Judged => pc # "setup"
    /\ Judged => results = RunPolicy(version, judged, ChangedFiles(base, judged), baseline)

\* The agent finds the base tree, and what is submitted is what was judged.
TreesAreTied ==
    /\ pc = "setup" => tree = base
    /\ pc = "submitted" => judged = tree

\* Failures are let through only when the budget is spent.
FailuresAreSentBack ==
    pc = "submitted" /\ revisions < RevisionBudget => results.failed = {}

IInv == TypeOK /\ ResultsAreThePolicys /\ TreesAreTied /\ FailuresAreSentBack

LEMMA InitIInv == Init => IInv
    BY PolicyAssumption
    DEF Init, IInv, TypeOK, ResultsAreThePolicys, TreesAreTied, FailuresAreSentBack, Judged, NoResults

LEMMA TakeBaselineKeeps ==
    ASSUME IInv, TakeBaseline
    PROVE  IInv'
<1> USE DEF IInv, TakeBaseline
<1>1. baseline' \in [AdvisoryGates(version) -> Counts]
    BY BaselineType
<1>2. TypeOK'
    BY <1>1 DEF TypeOK
<1>3. ResultsAreThePolicys' /\ TreesAreTied' /\ FailuresAreSentBack'
    BY DEF ResultsAreThePolicys, TreesAreTied, FailuresAreSentBack, Judged
<1> QED
    BY <1>2, <1>3

\* Whatever the agent does to its tree, it has not been submitted yet.
LEMMA WorkKeeps ==
    ASSUME IInv, NEW t \in Trees, Works(t)
    PROVE  IInv'
<1>1. edits' \in 0 .. MaxEdits
    BY PolicyAssumption DEF IInv, TypeOK, Works
<1> QED
    BY <1>1 DEF Works, IInv, TypeOK, ResultsAreThePolicys, TreesAreTied, FailuresAreSentBack,
                Judged

LEMMA EditKeeps ==
    ASSUME IInv, NEW e \in Edits, Edit(e[1], e[2])
    PROVE  IInv'
<1>1. e[1] \in Files /\ e[2] \in Content
    BY PolicyAssumption
<1>2. [tree EXCEPT !.src[e[1]] = e[2], !.origin[e[1]] = Own] \in Trees
    BY <1>1 DEF IInv, TypeOK, Trees
<1> QED
    BY <1>2, WorkKeeps DEF Edit

LEMMA TouchKeeps ==
    ASSUME IInv, NEW f \in Files, Touch(f)
    PROVE  IInv'
<1>1. [tree EXCEPT !.src[f] = "good", !.origin[f] = Void] \in Trees
    BY DEF IInv, TypeOK, Trees, Content
<1> QED
    BY <1>1, WorkKeeps DEF Touch

LEMMA RestoreKeeps ==
    ASSUME IInv, NEW f \in Files, Restore(f)
    PROVE  IInv'
<1>1. [tree EXCEPT !.src[f] = base.src[f], !.origin[f] = f] \in Trees
    BY DEF IInv, TypeOK, Trees
<1> QED
    BY <1>1, WorkKeeps DEF Restore

LEMMA MoveKeeps ==
    ASSUME IInv, NEW w \in Moves, NEW c \in Content, Move(w[1], w[2], c)
    PROVE  IInv'
<1> DEFINE t == [tree EXCEPT !.src[w[1]] = "absent", !.origin[w[1]] = Own,
                             !.src[w[2]] = c, !.origin[w[2]] = tree.origin[w[1]]]
<1>1. w[1] \in Files /\ w[2] \in Files
    BY PolicyAssumption
<1>2. /\ tree.src \in [Files -> Content] /\ tree.conf \in [Tools -> ConfigState]
      /\ tree.origin \in [Files -> Files \cup {Own, Void}]
      /\ tree \in Trees
    BY DEF IInv, TypeOK, Trees
<1>3. t.src \in [Files -> Content] /\ t.conf = tree.conf
    BY <1>1, <1>2 DEF Trees, Content
<1>4. t.origin \in [Files -> Files \cup {Own, Void}]
    BY <1>1, <1>2 DEF Trees
<1>5. t \in Trees
    BY <1>2, <1>3, <1>4 DEF Trees
<1> QED
    BY <1>5, WorkKeeps DEF Move

LEMMA ConfigureKeeps ==
    ASSUME IInv, NEW x \in Tunable, NEW s \in ConfigState, Configure(x, s)
    PROVE  IInv'
<1>1. [tree EXCEPT !.conf[x] = s] \in Trees
    BY PolicyAssumption DEF IInv, TypeOK, Trees
<1> QED
    BY <1>1, WorkKeeps DEF Configure

LEMMA SubmitKeeps ==
    ASSUME IInv, Submit
    PROVE  IInv'
<1> USE DEF IInv, Submit
<1>1. results' \in Reports(version) /\ results' # NoResults
    BY RunPolicyType DEF Judge, TypeOK
<1>2. revisions' \in 0 .. RevisionBudget
    BY PolicyAssumption DEF TypeOK, SentBack
<1>3. TypeOK'
    BY <1>1, <1>2 DEF TypeOK
<1>4. ResultsAreThePolicys'
    BY DEF ResultsAreThePolicys, Judged, Judge
<1>5. TreesAreTied'
    BY DEF TreesAreTied
<1>6. FailuresAreSentBack'
    BY DEF FailuresAreSentBack, SentBack, BlockingFailures
<1> QED
    BY <1>3, <1>4, <1>5, <1>6

\* The policy's results are always those of the tree it looked at, against the
\* counts of the base tree.
THEOREM Inductive == Spec => []IInv
<1>1. IInv /\ [Next]_vars => IInv'
    <2> SUFFICES ASSUME IInv, [Next]_vars PROVE IInv'
        OBVIOUS
    <2>1. CASE UNCHANGED vars
        BY <2>1 DEF vars, IInv, TypeOK, ResultsAreThePolicys, TreesAreTied,
                    FailuresAreSentBack, Judged
    <2> QED
        BY <2>1, TakeBaselineKeeps, EditKeeps, TouchKeeps, RestoreKeeps, MoveKeeps,
           ConfigureKeeps, SubmitKeeps DEF Next
<1> QED
    BY <1>1, InitIInv, PTL DEF Spec

\* Types; results exist when a patch was submitted.
THEOREM TypeCorrect == Spec => []TypeOK
<1>1. IInv => TypeOK
    BY DEF IInv
<1> QED
    BY <1>1, Inductive, PTL

-----------------------------------------------------------------------------
(* The properties.                                                         *)

\* A gate that is not among the failures passed.
LEMMA NoFailureAllPass ==
    ASSUME NEW v, NEW t, NEW changed, NEW before,
           RunPolicy(v, t, changed, before).failed = {}
    PROVE  \A g \in BlockingGates(v) : Passes(g, t, changed)
    BY DEF RunPolicy

\* A changed module that the import gate leaves out has "test" in its name, or
\* a full cap of changed files before it.
LEMMA ImportCheckedUnlessCapped ==
    ASSUME NEW old, NEW new, NEW m \in Modules, m \notin TestNamed,
           m \in ChangedFiles(old, new),
           ~(Cardinality({n \in ChangedFiles(old, new) : n < m}) >= ImportCap)
    PROVE  m \in ImportChecked(ChangedFiles(old, new))
<1> DEFINE changed == ChangedFiles(old, new)
           cs      == changed \cap (Modules \ TestNamed)
           ahead   == {n \in changed : n < m}
           skipped == {n \in cs : n < m}
<1>1. IsFiniteSet(ahead)
    <2>1. ahead \subseteq Files
        BY DEF ChangedFiles
    <2> QED
        BY <2>1, FilesFinite, FS_Subset
<1>2. skipped \in SUBSET ahead
    OBVIOUS
<1>3. Cardinality(skipped) <= Cardinality(ahead)
    BY <1>1, <1>2, FS_Subset
<1>4. Cardinality(skipped) \in Nat /\ Cardinality(ahead) \in Nat
    BY <1>1, <1>2, FS_Subset, FS_CardinalityType
<1>5. Cardinality(ahead) < ImportCap
    BY <1>4, PolicyAssumption
<1>6. Cardinality(skipped) < ImportCap
    BY <1>3, <1>4, <1>5, PolicyAssumption
<1>7. m \in cs
    OBVIOUS
<1> QED
    BY <1>6, <1>7 DEF ImportChecked

\* A patch that is let through with budget left parses, and under v2 a module it
\* names in a "+++ b/" line can be imported (but for names with "test", names
\* that are another's and those beyond the cap) and the tests that map to it
\* pass or are not there.
THEOREM SubmissionSound == Spec => []SubmittedIsSound
<1>1. IInv => SubmittedIsSound
    <2> SUFFICES ASSUME IInv, pc = "submitted", revisions < RevisionBudget
                 PROVE  SubmittedIsSound
        BY DEF SubmittedIsSound
    <2> DEFINE changed == ChangedFiles(base, tree)
    <2>1. results = RunPolicy(version, tree, changed, baseline) /\ results.failed = {}
        BY DEF IInv, TypeOK, ResultsAreThePolicys, TreesAreTied, FailuresAreSentBack, Judged
    <2>2. \A g \in BlockingGates(version) : Passes(g, tree, changed)
        BY <2>1, NoFailureAllPass
    <2>3. GateCompileall(tree)
        BY <2>2 DEF BlockingGates, AllGates, Passes
    <2>4. \A f \in Files : tree.src[f] # "unparsable"
        BY <2>3 DEF GateCompileall
    <2>5. ASSUME version = "v2", NEW m \in Modules,
                 Touched(tree, m), ~Silent(base, tree, m)
          PROVE  /\ \/ tree.src[m] \in Importable
                    \/ m \in TestNamed \/ Named[m] # m
                    \/ Cardinality({n \in changed : n < m}) >= ImportCap
                 /\ \A x \in TestsFor[m] : tree.src[x] = "absent" \/ TestPasses(tree, x)
        <3>1. GateImport(tree, changed) /\ GateTargetedTests(tree, changed)
            BY <2>2, <2>5 DEF BlockingGates, AllGates, Passes
        <3>2. m \in changed
            BY <2>5 DEF Touched, ChangedFiles, InDiff, Files
        <3>3. m \in ImportChecked(changed) /\ Named[m] = m => tree.src[m] \in Importable
            <4> SUFFICES ASSUME m \in ImportChecked(changed), Named[m] = m
                         PROVE  tree.src[m] \in Importable
                OBVIOUS
            <4>1. m \in ImportedBy(m)
                BY <3>1, FilesAssumption DEF ImportedBy, GateImport
            <4> QED
                BY <3>1, <4>1 DEF GateImport
        <3>4. \/ tree.src[m] \in Importable
              \/ m \in TestNamed \/ Named[m] # m
              \/ Cardinality({n \in changed : n < m}) >= ImportCap
            BY <3>2, <3>3, ImportCheckedUnlessCapped
        <3>5. \A x \in TestsFor[m] : x \in ChangedTestTargets(changed)
            BY <3>2 DEF ChangedTestTargets
        <3> QED
            BY <3>1, <3>4, <3>5 DEF GateTargetedTests
    <2> QED
        BY <2>4, <2>5 DEF SubmittedIsSound
<1> QED
    BY <1>1, Inductive, PTL

\* What a gate looks at is what the agent touched or HEAD does not have.
LEMMA ChangedIsNotOfHead ==
    ASSUME NEW t, NEW f \in ChangedFiles(base, t)
    PROVE  f \in Files /\ t.src[f] # "absent" /\ NotOfHead(t, f)
    BY DEF ChangedFiles, InDiff, InHead, NotOfHead, Touched

\* compileall fails only for a file that does not parse, the other gates only
\* for a file of the agent, or one the image ships beside HEAD, whose name cannot
\* be imported or which does not work, with what runs with it.
THEOREM AlarmsAreTrue == Spec => []NoFalseAlarm
<1>1. IInv => NoFalseAlarm
    <2> DEFINE changed == ChangedFiles(base, judged)
               ModuleAlarm ==
                   \E m \in Modules :
                       /\ NotOfHead(judged, m)
                       /\ \/ Named[m] = Nowhere
                          \/ \E f \in Reached(m) :
                                 /\ judged.src[f] \notin Working
                                 /\ f \in Tests => judged.src[f] # "absent"
               TestAlarm == \E x \in Tests : NotOfHead(judged, x) /\ ~TestPasses(judged, x)
    <2> SUFFICES ASSUME IInv, Judged
                 PROVE  /\ "compileall" \in results.failed =>
                              \E f \in Files : judged.src[f] = "unparsable"
                        /\ results.failed \ {"compileall"} # {} => ModuleAlarm \/ TestAlarm
        BY DEF NoFalseAlarm
    <2>1. \A g \in results.failed : g \in BlockingGates(version) /\ ~Passes(g, judged, changed)
        BY DEF IInv, ResultsAreThePolicys, RunPolicy
    <2>2. "compileall" \in results.failed => \E f \in Files : judged.src[f] = "unparsable"
        BY <2>1 DEF Passes, GateCompileall
    <2>3. ASSUME NEW g \in results.failed, g # "compileall"
          PROVE  ModuleAlarm \/ TestAlarm
        <3>1. CASE g = "import"
            <4>1. PICK m \in ImportChecked(changed) :
                      Named[m] = Nowhere \/ \E n \in ImportedBy(m) : judged.src[n] \notin Importable
                BY <2>1, <3>1 DEF Passes, GateImport
            <4>2. m \in Modules /\ NotOfHead(judged, m)
                BY ChangedIsNotOfHead DEF ImportChecked
            <4>3. CASE Named[m] = Nowhere
                BY <4>2, <4>3
            <4>4. CASE Named[m] # Nowhere
                <5>1. PICK n \in ImportedBy(m) : judged.src[n] \notin Importable
                    BY <4>1, <4>4
                <5>2. n \in Modules /\ n \notin Tests
                    BY <4>2, <4>4, FilesAssumption DEF ImportedBy
                <5>3. n \in Reached(m)
                    BY DEF Reached
                <5>4. judged.src[n] \notin Working
                    BY <5>1 DEF Importable, Working
                <5> QED
                    BY <4>2, <5>2, <5>3, <5>4
            <4> QED
                BY <4>3, <4>4
        <3>2. CASE g = "targeted_tests"
            <4>1. PICK x \in ChangedTestTargets(changed) :
                      judged.src[x] # "absent" /\ ~TestPasses(judged, x)
                BY <2>1, <3>2 DEF Passes, GateTargetedTests
            <4>2. CASE x \in changed \cap Tests
                BY <4>1, <4>2, ChangedIsNotOfHead
            <4>3. CASE \E m \in changed \cap Modules : x \in TestsFor[m]
                <5>1. PICK m \in changed \cap Modules : x \in TestsFor[m]
                    BY <4>3
                <5>2. m \in Modules /\ NotOfHead(judged, m)
                    BY <5>1, ChangedIsNotOfHead
                <5>3. CASE judged.src[x] \notin Working
                    <6>1. x \in Reached(m)
                        BY <5>1 DEF Reached
                    <6> QED
                        BY <4>1, <5>2, <5>3, <6>1
                <5>4. CASE judged.src[x] \in Working
                    <6>1. PICK k \in Covers[x] : \E n \in Uses[k] : judged.src[n] \notin Working
                        BY <4>1, <5>4 DEF TestPasses
                    <6>2. PICK n \in Uses[k] : judged.src[n] \notin Working
                        BY <6>1
                    <6>3. n \in Reached(m)
                        BY <5>1 DEF Reached
                    <6>4. x \in Tests
                        BY <5>1, FilesAssumption
                    <6>5. k \in Modules
                        BY <6>4, FilesAssumption
                    <6>6. n \in Modules /\ n \notin Tests
                        BY <6>5, FilesAssumption
                    <6> QED
                        BY <5>2, <6>2, <6>3, <6>6
                <5> QED
                    BY <5>3, <5>4
            <4> QED
                BY <4>2, <4>3 DEF ChangedTestTargets
        <3> QED
            BY <2>1, <2>3, <3>1, <3>2 DEF BlockingGates, AllGates
    <2> QED
        BY <2>2, <2>3
<1> QED
    BY <1>1, Inductive, PTL

\* How far apart the sizes of two finite sets can be.
LEMMA SizesDiffer ==
    ASSUME NEW A, NEW B, IsFiniteSet(A), IsFiniteSet(B)
    PROVE  /\ Cardinality(A) \in Nat /\ Cardinality(B) \in Nat
           /\ Cardinality(A \ B) \in Nat /\ Cardinality(B \ A) \in Nat
           /\ Cardinality(A) - Cardinality(B) = Cardinality(A \ B) - Cardinality(B \ A)
<1>1. /\ IsFiniteSet(A \ B) /\ IsFiniteSet(B \ A) /\ IsFiniteSet(A \cap B)
      /\ Cardinality(A \ B) = Cardinality(A) - Cardinality(A \cap B)
      /\ Cardinality(B \ A) = Cardinality(B) - Cardinality(B \cap A)
    BY FS_Difference, FS_Intersection
<1>2. Cardinality(B \cap A) = Cardinality(A \cap B)
    <2>1. A \cap B = B \cap A
        OBVIOUS
    <2> QED
        BY <2>1, Zenon
<1>3. /\ Cardinality(A) \in Nat /\ Cardinality(B) \in Nat /\ Cardinality(A \cap B) \in Nat
      /\ Cardinality(A \ B) \in Nat /\ Cardinality(B \ A) \in Nat
    BY <1>1, FS_CardinalityType
<1> QED
    BY <1>1, <1>2, <1>3

\* The new warnings of a tool that was counted before and after are those the
\* agent's files gained, give or take the ones that went.
THEOREM WarningsAreTheAgents == Spec => []DeltaIsTheAgents
<1>1. IInv => DeltaIsTheAgents
    <2> SUFFICES ASSUME IInv, Judged, NEW x \in AdvisoryGates(version), Comparable(x)
                 PROVE  /\ results.fresh[x] <= Cardinality(Gained(x))
                        /\ results.fresh[x] >= Cardinality(Gained(x)) - Cardinality(Lost(x))
        BY DEF DeltaIsTheAgents
    <2> DEFINE new == Complaints(x, judged)
               old == Complaints(x, base)
    <2>1. /\ results.count[x] = WarningCount(version, x, judged)
          /\ results.fresh[x] = NewWarnings(results.count[x], baseline[x])
          /\ baseline[x] = WarningCount(version, x, base)
        BY DEF IInv, ResultsAreThePolicys, RunPolicy, ComputeBaseline
    <2>2. results.count[x] = Cardinality(new) /\ baseline[x] = Cardinality(old)
        BY <2>1 DEF Comparable, WarningCount
    <2>3. /\ Cardinality(new) \in Nat /\ Cardinality(old) \in Nat
          /\ Cardinality(Gained(x)) \in Nat /\ Cardinality(Lost(x)) \in Nat
          /\ Cardinality(new) - Cardinality(old)
                 = Cardinality(Gained(x)) - Cardinality(Lost(x))
        BY ComplaintsFinite, SizesDiffer DEF Gained, Lost
    <2>4. results.fresh[x] = IF Cardinality(new) - Cardinality(old) > 0
                             THEN Cardinality(new) - Cardinality(old) ELSE 0
        BY <2>1, <2>2, <2>3 DEF NewWarnings
    <2> QED
        BY <2>3, <2>4
<1> QED
    BY <1>1, Inductive, PTL
=============================================================================
