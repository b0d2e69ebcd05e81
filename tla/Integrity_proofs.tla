---------------------------- MODULE Integrity_proofs ----------------------------
(*****************************************************************************)
(* Proofs about Integrity, for every set of paths.  The type invariant needs *)
(* PathAssumption only; the rest also that names are plain.                  *)
(*****************************************************************************)
EXTENDS Integrity, TLAPS

\* Every variable keeps its type, and the baseline never names a tracked file.
THEOREM TypeCorrect == Spec => []TypeOK
<1>1. Init => TypeOK
    BY PathAssumption DEF Init, TypeOK, Stage
<1>2. TypeOK /\ [Next]_vars => TypeOK'
    <2> SUFFICES ASSUME TypeOK, [Next]_vars PROVE TypeOK'
        OBVIOUS
    <2> USE DEF TypeOK, Stage
    <2>1. CASE SnapshotS0
        BY <2>1 DEF SnapshotS0, UntrackedFiles
    <2>2. ASSUME NEW p \in Path, NEW d \in SUBSET Path, Write(p, d)
          PROVE  dirty' \subseteq Path /\ hidden' \subseteq Path \ Tracked /\ written' \subseteq Path
        <3>1. hidden' \in {Ignored, {}, Path \ Tracked, hidden}
            BY <2>2 DEF Write
        <3> QED
            BY <2>2, <3>1, PathAssumption DEF Write
    <2>3. ASSUME NEW p \in Path, BaselineToolWrites(p) PROVE TypeOK'
        BY <2>2, <2>3 DEF BaselineToolWrites
    <2>4. ASSUME NEW p \in Path, AgentWrites(p) PROVE TypeOK'
        BY <2>2, <2>4 DEF AgentWrites
    <2>5. CASE SetupDone
        BY <2>5 DEF SetupDone
    <2>6. CASE SnapshotS1
        BY <2>6 DEF SnapshotS1
    <2>7. CASE AgentDone
        BY <2>7 DEF AgentDone
    <2>8. CASE Extract
        BY <2>8, PathAssumption DEF Extract, FinalPatch, FinalDiff, TrackedChanges, UntrackedFiles
    <2>9. CASE Stopped \/ UNCHANGED vars
        BY <2>9 DEF Stopped, vars
    <2> QED
        BY <2>1, <2>3, <2>4, <2>5, <2>6, <2>7, <2>8, <2>9 DEF Next
<1> QED
    BY <1>1, <1>2, PTL DEF Spec

-----------------------------------------------------------------------------
(* The inductive invariant.                                                  *)

\* Nothing but a changed .gitignore changes what is hidden.
RulesAreHeads == dirty \cap IgnoreRules = {} => hidden = Ignored

\* Before S0 .gitignore is HEAD's; until S1 what git lists was there at S0 or was
\* written since, as long as .gitignore is HEAD's.
SetupIsRecorded ==
    /\ stage = "s0" => dirty \cap IgnoreRules = {} /\ written = {}
    /\ stage \in {"setup", "s1"} /\ dirty \cap IgnoreRules = {} =>
           UntrackedFiles \subseteq base_untracked \cup written

\* From S1 on, what the agent did not write is in the baseline, reserved, a cache
\* or ignored.
RestIsExplained ==
    stage \in {"agent", "extract"} =>
        dirty \ written \subseteq base_untracked \cup Allowed \cup Ignored

\* Only a finished run has a patch.
PatchIsLast == stage # "done" => patch = {}

IInv ==
    /\ TypeOK
    /\ RulesAreHeads
    /\ SetupIsRecorded
    /\ RestIsExplained
    /\ PatchIsLast
    /\ PatchIsTheAgentsWork
    /\ AbortHasACause

\* A file that is written may be hidden by .gitignore only after .gitignore itself
\* was written.
LEMMA WriteKeepsRules ==
    ASSUME NEW p, NEW d, Write(p, d), RulesAreHeads, d \subseteq dirty \cup {p}, dirty \ {p} \subseteq d
    PROVE  RulesAreHeads'
<1>1. CASE dirty' \cap IgnoreRules = {}
    BY <1>1 DEF Write, RulesAreHeads
<1>2. CASE dirty' \cap IgnoreRules # {}
    BY <1>2 DEF RulesAreHeads
<1> QED
    BY <1>1, <1>2

\* The invariant is kept by every step, if names are plain.
LEMMA Inductive == ASSUME PlainNames, IInv, TypeOK', [Next]_vars PROVE IInv'
<1> USE DEF IInv
<1>1. CASE SnapshotS0
    <2>1. UNCHANGED <<dirty, hidden, written, patch>> /\ stage = "s0" /\ stage' \in {"setup", "infra"}
        BY <1>1 DEF SnapshotS0
    <2>2. RulesAreHeads' /\ RestIsExplained' /\ PatchIsLast' /\ PatchIsTheAgentsWork'
        BY <2>1 DEF RulesAreHeads, RestIsExplained, PatchIsLast, PatchIsTheAgentsWork
    <2>3. SetupIsRecorded'
        <3>1. CASE stage' = "setup"
            BY <1>1, <2>1, <3>1 DEF SnapshotS0, SetupIsRecorded, UntrackedFiles, HiddenFromGit
        <3>2. CASE stage' = "infra"
            BY <3>2 DEF SetupIsRecorded
        <3> QED
            BY <2>1, <3>1, <3>2
    <2>4. AbortHasACause'
        BY <1>1, <2>1 DEF SnapshotS0, AbortHasACause, UnexplainedChanges, TrackedChanges
    <2> QED
        BY <2>2, <2>3, <2>4
<1>2. ASSUME NEW p \in Path, BaselineToolWrites(p) PROVE IInv'
    <2>1. /\ stage = "setup" /\ UNCHANGED <<stage, base_untracked, patch, mounted>>
          /\ dirty' = dirty \cup {p} /\ written' = written \cup {p}
          /\ Write(p, dirty \cup {p})
        BY <1>2 DEF BaselineToolWrites, Write
    <2>2. RulesAreHeads'
        BY <2>1, WriteKeepsRules
    <2>3. RestIsExplained' /\ PatchIsLast' /\ AbortHasACause'
        BY <2>1 DEF RestIsExplained, PatchIsLast, AbortHasACause
    <2>4. PatchIsTheAgentsWork'
        BY <2>1 DEF PatchIsLast, PatchIsTheAgentsWork
    <2>5. SetupIsRecorded'
        <3>1. CASE dirty' \cap IgnoreRules = {}
            BY <2>1, <2>2, <3>1
               DEF SetupIsRecorded, RulesAreHeads, UntrackedFiles, HiddenFromGit
        <3>2. CASE dirty' \cap IgnoreRules # {}
            BY <2>1, <3>2 DEF SetupIsRecorded
        <3> QED
            BY <3>1, <3>2
    <2> QED
        BY <2>2, <2>3, <2>4, <2>5
<1>3. CASE SetupDone
    BY <1>3 DEF SetupDone, RulesAreHeads, SetupIsRecorded, UntrackedFiles, HiddenFromGit,
                RestIsExplained, PatchIsLast, PatchIsTheAgentsWork, AbortHasACause
<1>4. CASE SnapshotS1
    <2>1. /\ stage = "s1" /\ UNCHANGED <<dirty, hidden, base_untracked, patch, mounted>>
          /\ patch' = {}
        BY <1>4 DEF SnapshotS1, PatchIsLast
    <2>2. RulesAreHeads'
        BY <2>1 DEF RulesAreHeads
    <2>3. SetupIsRecorded' /\ PatchIsLast' /\ PatchIsTheAgentsWork'
        BY <1>4, <2>1 DEF SnapshotS1, SetupIsRecorded, PatchIsLast, PatchIsTheAgentsWork
    <2>4. CASE UnexplainedChanges(base_untracked, TRUE) = {}
        <3>1. stage' = "agent" /\ written' = {}
            BY <1>4, <2>4 DEF SnapshotS1
        <3>2. TrackedChanges \subseteq Allowed /\ UntrackedFiles \subseteq Allowed \cup base_untracked
            BY <2>4 DEF UnexplainedChanges
        <3>3. hidden = Ignored
            BY <3>2, PathAssumption DEF PlainNames, RulesAreHeads, TrackedChanges, Allowed
        <3>4. dirty \subseteq TrackedChanges \cup UntrackedFiles \cup HiddenFromGit
            BY DEF TrackedChanges, UntrackedFiles
        <3>5. HiddenFromGit \subseteq Ignored \cup Allowed
            BY <3>3 DEF HiddenFromGit, Allowed
        <3>6. RestIsExplained'
            BY <2>1, <3>1, <3>2, <3>4, <3>5 DEF RestIsExplained, Allowed
        <3> QED
            BY <2>2, <2>3, <3>1, <3>6 DEF AbortHasACause
    <2>5. CASE UnexplainedChanges(base_untracked, TRUE) # {}
        <3>1. stage' = "infra" /\ written' = written
            BY <1>4, <2>5 DEF SnapshotS1
        <3>2. (TrackedChanges \cup written) \ Allowed # {}
            <4>1. CASE TrackedChanges \ Allowed # {}
                BY <4>1
            <4>2. CASE TrackedChanges \ Allowed = {}
                <5>1. PICK p \in UntrackedFiles : p \notin Allowed \cup base_untracked
                    BY <2>5, <4>2 DEF UnexplainedChanges
                <5>2. dirty \cap IgnoreRules = {}
                    BY <4>2, PathAssumption DEF PlainNames, TrackedChanges, Allowed
                <5>3. p \in written
                    BY <2>1, <5>1, <5>2 DEF SetupIsRecorded
                <5> QED
                    BY <5>1, <5>3
            <4> QED
                BY <4>1, <4>2
        <3>3. AbortHasACause'
            BY <2>1, <3>1, <3>2 DEF AbortHasACause, TrackedChanges, Allowed
        <3> QED
            BY <2>2, <2>3, <3>1, <3>3 DEF RestIsExplained
    <2> QED
        BY <2>4, <2>5
<1>5. ASSUME NEW p \in Path, AgentWrites(p) PROVE IInv'
    <2>1. PICK d \in {dirty \cup {p}, dirty \ {p}} : Write(p, d)
        BY <1>5 DEF AgentWrites
    <2>2. /\ stage = "agent" /\ UNCHANGED <<stage, base_untracked, patch>>
          /\ dirty' = d /\ written' = written \cup {p}
        BY <1>5, <2>1 DEF AgentWrites, Write
    <2>3. RulesAreHeads'
        BY <2>1, WriteKeepsRules
    <2>4. SetupIsRecorded' /\ PatchIsLast' /\ AbortHasACause'
        BY <2>2 DEF SetupIsRecorded, PatchIsLast, AbortHasACause
    <2>5. PatchIsTheAgentsWork'
        BY <2>2 DEF PatchIsLast, PatchIsTheAgentsWork
    <2>6. RestIsExplained'
        BY <2>2 DEF RestIsExplained, Allowed
    <2> QED
        BY <2>3, <2>4, <2>5, <2>6
<1>6. CASE AgentDone
    BY <1>6 DEF AgentDone, RulesAreHeads, SetupIsRecorded, RestIsExplained, Allowed,
                PatchIsLast, PatchIsTheAgentsWork, AbortHasACause
<1>7. CASE Extract
    <2>1. /\ stage = "extract" /\ UNCHANGED <<dirty, hidden, base_untracked, written>>
          /\ stage' \in {"done", "raised"}
        BY <1>7 DEF Extract
    <2>2. RulesAreHeads' /\ SetupIsRecorded' /\ RestIsExplained' /\ AbortHasACause'
        BY <2>1 DEF RulesAreHeads, SetupIsRecorded, RestIsExplained, AbortHasACause
    <2>3. PatchIsLast'
        BY <1>7 DEF Extract, PatchIsLast
    <2>4. FinalPatch \ written \subseteq IF written \cap IgnoreRules = {} THEN {} ELSE Ignored
        <3>1. FinalPatch \ written \subseteq Ignored
            BY <2>1 DEF PlainNames, FinalPatch, FinalDiff, Excluded, TrackedChanges,
                        UntrackedFiles, RestIsExplained, Allowed
        <3>2. CASE written \cap IgnoreRules = {}
            <4>1. dirty \cap IgnoreRules = {}
                <5>1. IgnoreRules \cap (base_untracked \cup Allowed \cup Ignored) = {}
                    BY PathAssumption DEF PlainNames, Allowed, TypeOK
                <5> QED
                    BY <2>1, <3>2, <5>1 DEF RestIsExplained
            <4>2. hidden = Ignored
                BY <4>1 DEF RulesAreHeads
            <4>3. FinalPatch \cap Ignored = {}
                BY <4>2, PathAssumption
                   DEF FinalPatch, FinalDiff, TrackedChanges, UntrackedFiles, HiddenFromGit
            <4> QED
                BY <3>1, <3>2, <4>3
        <3> QED
            BY <3>1, <3>2
    <2>5. PatchIsTheAgentsWork'
        BY <1>7, <2>1, <2>4 DEF Extract, PatchIsTheAgentsWork
    <2> QED
        BY <2>2, <2>3, <2>5
<1>8. CASE Stopped \/ UNCHANGED vars
    BY <1>8 DEF Stopped, vars, RulesAreHeads, SetupIsRecorded, UntrackedFiles, HiddenFromGit,
                RestIsExplained, Allowed, PatchIsLast, PatchIsTheAgentsWork, AbortHasACause,
                TrackedChanges
<1> QED
    BY <1>1, <1>2, <1>3, <1>4, <1>5, <1>6, <1>7, <1>8 DEF Next

\* The initial states satisfy it.
LEMMA Initially == ASSUME Init PROVE IInv
<1>1. TypeOK
    BY PathAssumption DEF Init, TypeOK, Stage
<1> QED
    BY <1>1, PathAssumption
       DEF Init, IInv, RulesAreHeads, SetupIsRecorded, RestIsExplained, PatchIsLast,
           PatchIsTheAgentsWork, AbortHasACause

\* It holds throughout.
LEMMA Invariance == PlainNames => (Spec => []IInv)
<1> SUFFICES ASSUME PlainNames PROVE Spec => []IInv
    OBVIOUS
<1>1. Init => IInv
    BY Initially
<1>2. IInv /\ TypeOK' /\ [Next]_vars => IInv'
    BY Inductive
<1> QED
    BY <1>1, <1>2, TypeCorrect, PTL DEF Spec

\* The patch holds nothing but the agent's changes, unless it rewrote .gitignore.
THEOREM PatchIsClean == PlainNames => (Spec => []PatchIsTheAgentsWork)
<1> SUFFICES ASSUME PlainNames PROVE Spec => []PatchIsTheAgentsWork
    OBVIOUS
<1>1. IInv => PatchIsTheAgentsWork
    BY DEF IInv
<1> QED
    BY <1>1, Invariance, PTL

\* No run is thrown away for what its image ships.
THEOREM AbortsAreJustified == PlainNames => (Spec => []AbortHasACause)
<1> SUFFICES ASSUME PlainNames PROVE Spec => []AbortHasACause
    OBVIOUS
<1>1. IInv => AbortHasACause
    BY DEF IInv
<1> QED
    BY <1>1, Invariance, PTL

\* No agent starts on a tree with a change that the extraction would not exclude.
THEOREM AgentsStartClean == PlainNames => (Spec => []AgentStartsClean)
<1> SUFFICES ASSUME PlainNames PROVE Spec => []AgentStartsClean
    OBVIOUS
<1>1. IInv => AgentStartsClean
    BY DEF IInv, RestIsExplained, AgentStartsClean
<1> QED
    BY <1>1, Invariance, PTL

=============================================================================
