------------------------ MODULE HelperPipeline_proofs ------------------------
(*****************************************************************************)
(* Proofs about HelperPipeline, for every set of candidates, whatever pytest *)
(* and the audit say of them, and for any number of calls and faults.        *)
(*****************************************************************************)
EXTENDS HelperPipeline, TLAPS

USE DEF Goto, Leave, Fault

\* What a list of candidates is.
LEMMA CandidateLists ==
    ASSUME NEW cs \in UNION {[1..n -> Candidates] : n \in 0..K}
    PROVE  /\ Len(cs) \in 0..K /\ DOMAIN cs = 1..Len(cs)
           /\ \A n \in 1..Len(cs) : cs[n] \in Candidates
<1>1. PICK n \in 0..K : cs \in [1..n -> Candidates]
    OBVIOUS
<1>2. cs \in Seq(Candidates) /\ Len(cs) = n
    BY <1>1, BoundsAssumption
<1> QED
    BY <1>1, <1>2

\* No candidate is a list of candidates.
LEMMA NoCandidates == <<>> \in UNION {[1..n -> Candidates] : n \in 0..K}
<1>1. <<>> \in [1..0 -> Candidates]
    OBVIOUS
<1> QED
    BY <1>1, BoundsAssumption

-----------------------------------------------------------------------------
(* Types.                                                                    *)

LEMMA FreshTypes ==
    ASSUME Fresh
    PROVE  /\ cands' \in UNION {[1..n -> Candidates] : n \in 0..K}
           /\ i' \in 1..(K + 1)
           /\ {fallback', chosen', mounted'} \subseteq Candidates \cup {NoTest}
           /\ ran' \in [collected : BOOLEAN, fail_before : BOOLEAN]
           /\ passAfter' \in {"none", "pass", "fail"}
           /\ present' \in BOOLEAN /\ sick' \in BOOLEAN
<1>1. i' \in 1..(K + 1)
    <2>1. i' = 1
        BY DEF Fresh
    <2> QED
        BY <2>1, BoundsAssumption
<1> QED
    BY <1>1, NoCandidates DEF Fresh

LEMMA ClassOfType ==
    ASSUME TypeOK
    PROVE  ClassOf(ran, passAfter) \in {"T0", "T1", "T2", "T3"}
<1>1. ran.collected \in BOOLEAN /\ ran.fail_before \in BOOLEAN
    BY DEF TypeOK
<1>2. CASE ~ran.collected
    BY <1>2, <1>1 DEF ClassOf
<1> QED
    BY <1>1, <1>2 DEF ClassOf

LEMMA ClassType ==
    ASSUME TypeOK
    PROVE  Classification \in ReproTestClass
    BY ClassOfType DEF Classification, ReproTestClass

\* Every variable keeps its type.
THEOREM TypeCorrect == Spec => []TypeOK
<1>1. Init => TypeOK
    <2> SUFFICES ASSUME Init PROVE TypeOK
        OBVIOUS
    <2>1. cands \in UNION {[1..n -> Candidates] : n \in 0..K}
        BY NoCandidates DEF Init
    <2>2. /\ i \in 1..(K + 1) /\ calls \in 0..MaxCalls /\ faults \in 0..MaxFaults
          /\ strays \in 0..kills /\ kills \in 0..faults
        BY BoundsAssumption DEF Init
    <2> QED
        BY <2>1, <2>2 DEF Init, TypeOK, Stage
<1>2. TypeOK /\ [Next]_vars => TypeOK'
    <2> SUFFICES ASSUME TypeOK, [Next]_vars PROVE TypeOK'
        OBVIOUS
    <2> USE BoundsAssumption DEF TypeOK, Stage, callVars, genVars, agentVars, faultVars
    <2>2. CASE Freeze
        BY <2>2, FreshTypes DEF Freeze, Call
    <2>3. CASE Resolve
        <3>1. art' \in HelperTestArtifact \cup {NoArtifact}
            BY <2>3 DEF Resolve, Usable, IsArtifact
        <3>2. stage' \in {"deliver", "start"}
            BY <2>3 DEF Resolve
        <3> QED
            BY <2>3, <3>1, <3>2, FreshTypes DEF Resolve, Call
    <2>4. CASE StartBase \/ StartGold \/ CloseGold
        BY <2>4 DEF StartBase, StartGold, CloseGold
    <2>5. CASE Generate
        BY <2>5 DEF Generate
    <2>6. CASE TryCandidate
        <3>1. cands[i] \in Candidates /\ i + 1 \in 1..(K + 1)
            BY <2>6, CandidateLists DEF TryCandidate
        <3>2. CASE Selected(cands[i])
            BY <2>6, <3>1, <3>2 DEF TryCandidate
        <3>3. CASE ~Selected(cands[i])
            BY <2>6, <3>1, <3>3 DEF TryCandidate
        <3> QED
            BY <3>2, <3>3
    <2>7. CASE NoneSelected
        <3>1. stage' \in {"close", "rerun"}
            BY <2>7 DEF NoneSelected
        <3> QED
            BY <2>7, <3>1 DEF NoneSelected, Fallback
    <2>8. CASE Rerun
        BY <2>8 DEF Rerun
    <2>9. CASE CloseBase
        <3>1. stage' \in {"classify", "goldstart"}
            BY <2>9 DEF CloseBase
        <3> QED
            BY <2>9, <3>1 DEF CloseBase
    <2>10. CASE ApplyGold
        <3>1. stage' \in {"goldrun", "goldclose"}
            BY <2>10 DEF ApplyGold
        <3> QED
            BY <2>10, <3>1 DEF ApplyGold
    <2>11. CASE RunOnGold
        BY <2>11 DEF RunOnGold
    <2>12. CASE Classify
        <3>1. art' \in HelperTestArtifact
            BY <2>12, ClassType DEF Classify, HelperTestArtifact
        <3>2. stage' \in {"write", "deliver"}
            BY <2>12 DEF Classify
        <3> QED
            BY <2>12, <3>1, <3>2 DEF Classify
    <2>13. CASE WriteOpen
        BY <2>13 DEF WriteOpen
    <2>14. CASE WriteArtifact
        BY <2>14 DEF WriteArtifact
    <2>15. CASE Deliver
        <3>1. mounted' \in Candidates \cup {NoTest}
            BY <2>15 DEF Deliver, IsArtifact, HelperTestArtifact
        <3>2. present' \in BOOLEAN
            BY <2>15 DEF Deliver, Announces, IsArtifact
        <3> QED
            BY <2>15, <3>1, <3>2 DEF Deliver
    <2>16. CASE AgentDone
        BY <2>16 DEF AgentDone
    <2>17. CASE BoxDies
        BY <2>17 DEF BoxDies
    <2>18. CASE Raises
        BY <2>18 DEF Raises, BoxAfterRaise
    <2>19. CASE Killed
        <3>1. /\ strays' \in 0..kills' /\ kills' \in 0..faults' /\ faults' \in 0..MaxFaults
            BY <2>19 DEF Killed
        <3> QED
            BY <2>19, <3>1 DEF Killed
    <2>21. CASE StrayEnds
        BY <2>21 DEF StrayEnds
    <2>20. CASE UNCHANGED vars
        BY <2>20 DEF vars
    <2> QED
        BY <2>2, <2>3, <2>4, <2>5, <2>6, <2>7, <2>8, <2>9, <2>10, <2>11, <2>12, <2>13,
           <2>14, <2>15, <2>16, <2>17, <2>18, <2>19, <2>20, <2>21 DEF Next, Step, Stopped
<1> QED
    BY <1>1, <1>2, PTL DEF Spec

-----------------------------------------------------------------------------
(* Containers and the frozen file.                                           *)

\* A container exists in the stages that use one and in no other; the script
\* works only while there is no frozen artifact, and only it writes one.
Protocol ==
    /\ caller = "none" => stage = "idle"
    /\ stage \in InBase \cup InGold <=> box # "none"
    /\ stage \in {"write", "writing"} => caller = "script"
    /\ caller = "script" => ~IsArtifact(file)

LEMMA ProtocolHolds == Spec => []Protocol
<1>1. Init => Protocol
    BY DEF Init, Protocol, InBase, InGold
<1>2. Protocol /\ [Next]_vars => Protocol'
    <2> SUFFICES ASSUME Protocol, [Next]_vars PROVE Protocol'
        OBVIOUS
    <2> USE DEF Protocol, InBase, InGold, callVars, genVars, agentVars
    <2>1. CASE Freeze
        BY <2>1 DEF Freeze, Call, Generates, IsArtifact
    <2>2. CASE Resolve
        BY <2>2 DEF Resolve, Call
    <2>3. CASE StartBase \/ StartGold \/ Generate \/ Rerun
        BY <2>3 DEF StartBase, StartGold, Generate, Rerun
    <2>4. CASE TryCandidate \/ NoneSelected
        BY <2>4 DEF TryCandidate, NoneSelected
    <2>5. CASE CloseBase \/ CloseGold
        BY <2>5 DEF CloseBase, CloseGold
    <2>6. CASE ApplyGold \/ RunOnGold
        BY <2>6 DEF ApplyGold, RunOnGold
    <2>7. CASE Classify
        BY <2>7 DEF Classify
    <2>8. CASE WriteOpen \/ WriteArtifact
        BY <2>8 DEF WriteOpen, WriteArtifact, IsArtifact
    <2>9. CASE Deliver \/ AgentDone
        BY <2>9 DEF Deliver, AgentDone
    <2>10. CASE BoxDies
        BY <2>10 DEF BoxDies
    <2>11. CASE Raises \/ Killed \/ StrayEnds
        BY <2>11 DEF Raises, BoxAfterRaise, Killed, StrayEnds
    <2>12. CASE UNCHANGED vars
        BY <2>12 DEF vars
    <2> QED
        BY <2>1, <2>2, <2>3, <2>4, <2>5, <2>6, <2>7, <2>8, <2>9, <2>10, <2>11, <2>12
        DEF Next, Step, Stopped
<1> QED
    BY <1>1, <1>2, PTL DEF Spec

\* No caller has a generator container while its agent works or when it is
\* through, and there are never more of them running than processes were killed.
THEOREM GeneratorGoes == Spec => []GeneratorIsGone
<1>1. TypeOK /\ Protocol => GeneratorIsGone
    BY BoundsAssumption DEF TypeOK, Protocol, GeneratorIsGone, InBase, InGold
<1> QED
    BY <1>1, TypeCorrect, ProtocolHolds, PTL

\* A frozen helper stays on disk as it is, through calls, exceptions and kills; a
\* file torn by a kill is none yet.
THEOREM FrozenHelperStays == Spec => FrozenHelperIsKept
<1>1. Protocol /\ [Next]_vars => [IsArtifact(file) => file' = file]_vars
    <2> SUFFICES ASSUME Protocol, Next, IsArtifact(file) PROVE file' = file
        BY DEF vars, callVars, genVars, agentVars
    <2> USE DEF Protocol
    <2>1. CASE Freeze \/ Resolve
        BY <2>1 DEF Freeze, Resolve, Call
    <2>2. CASE WriteOpen \/ WriteArtifact
        BY <2>2 DEF WriteOpen, WriteArtifact
    <2>3. CASE StartBase \/ Generate \/ TryCandidate \/ NoneSelected \/ Rerun \/ CloseBase
        BY <2>3 DEF StartBase, Generate, TryCandidate, NoneSelected, Rerun, CloseBase
    <2>4. CASE StartGold \/ ApplyGold \/ RunOnGold \/ CloseGold \/ Classify \/ Deliver \/ AgentDone
        BY <2>4 DEF StartGold, ApplyGold, RunOnGold, CloseGold, Classify, Deliver, AgentDone
    <2>5. CASE BoxDies \/ Raises \/ Killed \/ StrayEnds \/ Stopped
        BY <2>5 DEF BoxDies, Raises, Killed, StrayEnds, Stopped, vars
    <2> QED
        BY <2>1, <2>2, <2>3, <2>4, <2>5 DEF Next, Step
<1> QED
    BY <1>1, ProtocolHolds, PTL DEF Spec, FrozenHelperIsKept

-----------------------------------------------------------------------------
(* The choice of a candidate.                                                *)

Sound(c) == OnBase[c] = "fail" /\ c \in Traceable \ Forbidden
Runs(c) == OnBase[c] # "error"

\* What the rounds before i have found.
NoneSoundBefore(n) == \A m \in 1..(n - 1) : ~Sound(cands[m])
FirstThatRuns(c, n) ==
    IF c = NoTest THEN \A m \in 1..(n - 1) : ~Runs(cands[m])
    ELSE \E k \in 1..(n - 1) : /\ c = cands[k] /\ Runs(cands[k])
                               /\ \A m \in 1..(k - 1) : ~Runs(cands[m])

\* The loop has passed over nothing to take, and keeps the first that runs;
\* once it is over, the choice is the preferred one.  As long as no container
\* has stopped.
After == {"rerun", "close", "goldstart", "apply", "goldrun", "goldclose", "classify"}
Choosing ==
    /\ box = "dead" => sick
    /\ stage \in {"start", "generate"} => i = 1 /\ fallback = NoTest
    /\ stage = "try" => i <= Len(cands) + 1
    /\ stage = "try" /\ ~sick => NoneSoundBefore(i) /\ FirstThatRuns(fallback, i)
    /\ stage \in After /\ ~sick => chosen = Preferred

LEMMA MinIs ==
    ASSUME NEW S \in SUBSET Nat, NEW x \in S, \A y \in S : x <= y
    PROVE  Min(S) = x
<1>1. Min(S) \in S /\ \A y \in S : Min(S) <= y
    BY DEF Min
<1>2. Min(S) <= x /\ x <= Min(S) /\ x \in Nat /\ Min(S) \in Nat
    BY <1>1
<1> QED
    BY <1>2

\* A sound candidate with none before it is the preferred one.
LEMMA SoundIsPreferred ==
    ASSUME TypeOK, NEW n \in 1..Len(cands), Sound(cands[n]), NoneSoundBefore(n)
    PROVE  cands[n] = Preferred
<1> DEFINE sound == {m \in DOMAIN cands : Sound(cands[m])}
<1>1. Len(cands) \in Nat /\ DOMAIN cands = 1..Len(cands)
    BY CandidateLists, BoundsAssumption DEF TypeOK
<1>2. n \in sound /\ sound \in SUBSET Nat
    BY <1>1
<1>3. \A m \in sound : n <= m
    BY <1>1 DEF NoneSoundBefore
<1>4. Min(sound) = n
    BY <1>2, <1>3, MinIs
<1>5. sound # {}
    BY <1>2
<1> QED
    BY <1>4, <1>5 DEF Preferred, Sound

\* Without a sound candidate the preferred one is the first that runs.
LEMMA FallbackIsPreferred ==
    ASSUME TypeOK, NEW n \in Nat, n > Len(cands), NEW c \in Candidates \cup {NoTest},
           NoneSoundBefore(n), FirstThatRuns(c, n), n <= Len(cands) + 1
    PROVE  c = Preferred
<1> DEFINE sound == {m \in DOMAIN cands : Sound(cands[m])}
           runs  == {m \in DOMAIN cands : Runs(cands[m])}
<1>1. /\ Len(cands) \in Nat /\ DOMAIN cands = 1..Len(cands)
      /\ \A m \in 1..Len(cands) : cands[m] \in Candidates
    BY CandidateLists, BoundsAssumption DEF TypeOK
<1>2. n - 1 = Len(cands)
    BY <1>1
<1>3. sound = {}
    BY <1>1, <1>2 DEF NoneSoundBefore
<1>4. CASE c = NoTest
    <2>1. runs = {}
        BY <1>1, <1>2, <1>4 DEF FirstThatRuns
    <2> QED
        BY <1>3, <2>1, <1>4 DEF Preferred, Sound, Runs
<1>5. CASE c # NoTest
    <2>1. PICK k \in 1..Len(cands) : /\ c = cands[k] /\ Runs(cands[k])
                                     /\ \A m \in 1..(k - 1) : ~Runs(cands[m])
        BY <1>2, <1>5 DEF FirstThatRuns
    <2>2. k \in runs /\ runs \in SUBSET Nat
        BY <1>1, <2>1
    <2>3. \A m \in runs : k <= m
        BY <1>1, <2>1
    <2>4. Min(runs) = k
        BY <2>2, <2>3, MinIs
    <2>5. runs # {}
        BY <2>2
    <2> QED
        BY <1>3, <2>1, <2>4, <2>5 DEF Preferred, Sound, Runs
<1> QED
    BY <1>4, <1>5

LEMMA ChoosingInit == Init => Choosing
    BY DEF Init, Choosing, After

LEMMA ChoosingStep ==
    ASSUME TypeOK, Protocol, Choosing, [Next]_vars
    PROVE  Choosing'
<1> USE DEF callVars, genVars, agentVars, faultVars
<1>1. ASSUME UNCHANGED <<stage, cands, i, fallback, chosen, sick>>, box' \in {box, "none", "up"}
      PROVE  Choosing'
    BY <1>1 DEF Choosing, NoneSoundBefore, FirstThatRuns, Preferred
<1>2. CASE Freeze
    BY <1>2 DEF Freeze, Call, Fresh, Choosing, After, Protocol, InBase, InGold
<1>3. CASE Resolve
    BY <1>3 DEF Resolve, Call, Fresh, Choosing, After, Protocol, InBase, InGold
<1>4. CASE StartBase
    BY <1>4 DEF StartBase, Choosing, After
<1>5. CASE Generate
    BY <1>5 DEF Generate, Choosing, After, NoneSoundBefore, FirstThatRuns
<1>6. CASE TryCandidate
    <2>1. i \in 1..Len(cands) /\ cands[i] \in Candidates /\ Len(cands) \in Nat
        BY <1>6, CandidateLists DEF TryCandidate, TypeOK
    <2>2. box \in {"up", "dead"} /\ ~sick => box = "up"
        BY <1>6 DEF TryCandidate, Protocol, Choosing, InBase, TypeOK
    <2>3. sick' = sick /\ cands' = cands /\ box' = box
        BY <1>6 DEF TryCandidate
    <2>4. box \in {"up", "dead"}
        BY <1>6 DEF TryCandidate, Protocol, InBase, TypeOK
    <2>5. CASE sick
        <3>1. \/ stage' = "rerun"
              \/ stage' = "try" /\ i' = i + 1
            BY <1>6, <2>5 DEF TryCandidate
        <3>2. stage' = "try" => i' <= Len(cands') + 1
            BY <2>1, <2>3, <3>1
        <3> QED
            BY <1>6, <2>3, <2>5, <3>1, <3>2 DEF Choosing, After
    <2>6. CASE ~sick /\ Selected(cands[i])
        <3>1. Sound(cands[i])
            BY <2>2, <2>4, <2>6 DEF Selected, RunCandidate, Sound
        <3>2. cands[i] = Preferred
            BY <1>6, <2>1, <2>6, <3>1, SoundIsPreferred DEF Choosing, TryCandidate
        <3>3. chosen' = Preferred' /\ stage' = "rerun"
            BY <1>6, <2>3, <2>6, <3>2 DEF TryCandidate, Preferred
        <3> QED
            BY <2>3, <2>2, <2>4, <2>6, <3>3 DEF Choosing, After
    <2>7. CASE ~sick /\ ~Selected(cands[i])
        <3>1. ~Sound(cands[i]) /\ RunCandidate(box, OnBase[cands[i]]) = OnBase[cands[i]]
            BY <2>2, <2>4, <2>7 DEF Selected, RunCandidate, Sound
        <3>2. i' = i + 1 /\ stage' = "try"
            BY <1>6, <2>7 DEF TryCandidate
        <3>3. fallback' = IF fallback = NoTest /\ Runs(cands[i]) THEN cands[i] ELSE fallback
            BY <1>6, <2>7, <3>1 DEF TryCandidate, Runs
        <3>4. NoneSoundBefore(i) /\ FirstThatRuns(fallback, i)
            BY <1>6, <2>7 DEF TryCandidate, Choosing
        <3>5. NoneSoundBefore(i)'
            BY <2>1, <2>3, <3>1, <3>2, <3>4 DEF NoneSoundBefore
        <3>6. FirstThatRuns(fallback, i)'
            <4>1. CASE fallback = NoTest /\ Runs(cands[i])
                <5>1. fallback' = cands[i] /\ cands[i] # NoTest
                    BY <2>1, <3>3, <4>1, CandidatesAssumption
                <5>2. \A m \in 1..(i - 1) : ~Runs(cands[m])
                    BY <3>4, <4>1 DEF FirstThatRuns
                <5> QED
                    BY <2>1, <2>3, <3>2, <4>1, <5>1, <5>2 DEF FirstThatRuns
            <4>2. CASE fallback = NoTest /\ ~Runs(cands[i])
                BY <2>1, <2>3, <3>2, <3>3, <3>4, <4>2 DEF FirstThatRuns
            <4>3. CASE fallback # NoTest
                BY <2>1, <2>3, <3>2, <3>3, <3>4, <4>3 DEF FirstThatRuns
            <4> QED
                BY <4>1, <4>2, <4>3
        <3>7. i' <= Len(cands') + 1
            BY <2>1, <2>3, <3>2
        <3> QED
            BY <2>2, <2>3, <2>4, <2>7, <3>2, <3>5, <3>6, <3>7 DEF Choosing, After
    <2> QED
        BY <2>5, <2>6, <2>7
<1>7. CASE NoneSelected
    <2>1. UNCHANGED <<cands, sick, box, i, fallback>> /\ chosen' = fallback
        BY <1>7 DEF NoneSelected, Fallback
    <2>2. stage' \in {"close", "rerun"}
        BY <1>7 DEF NoneSelected
    <2>3. ~sick => fallback = Preferred
        <3>1. Len(cands) \in Nat /\ Len(cands) <= K
            BY CandidateLists, BoundsAssumption DEF TypeOK
        <3>2. i \in Nat /\ i > Len(cands) /\ fallback \in Candidates \cup {NoTest}
            BY <1>7, BoundsAssumption DEF NoneSelected, TypeOK
        <3>3. i <= Len(cands) + 1
            BY <1>7 DEF Choosing, NoneSelected
        <3>4. ~sick => NoneSoundBefore(i) /\ FirstThatRuns(fallback, i)
            BY <1>7 DEF Choosing, NoneSelected
        <3> QED
            BY <3>2, <3>3, <3>4, FallbackIsPreferred
    <2>4. Preferred' = Preferred
        BY <2>1 DEF Preferred
    <2> QED
        BY <2>1, <2>2, <2>3, <2>4 DEF Choosing
<1>8. ASSUME stage \in After, stage' \in After \cup {"write", "deliver", "idle"},
             UNCHANGED <<cands, chosen, sick>>, box' \in {box, "none", "up"}
      PROVE  Choosing'
    BY <1>8 DEF Choosing, After, Preferred
<1>9. CASE Rerun
    BY <1>8, <1>9 DEF Rerun, After
<1>10. CASE CloseBase
    <2>1. stage' \in {"classify", "goldstart"}
        BY <1>10 DEF CloseBase
    <2> QED
        BY <1>8, <1>10, <2>1 DEF CloseBase, After
<1>11. CASE StartGold
    BY <1>8, <1>11 DEF StartGold, After
<1>12. CASE ApplyGold
    <2>1. stage' \in {"goldrun", "goldclose"}
        BY <1>12 DEF ApplyGold
    <2> QED
        BY <1>8, <1>12, <2>1 DEF ApplyGold, After
<1>13. CASE RunOnGold \/ CloseGold
    BY <1>8, <1>13 DEF RunOnGold, CloseGold, After
<1>14. CASE Classify
    <2>1. stage' \in {"write", "deliver"}
        BY <1>14 DEF Classify
    <2> QED
        BY <1>8, <1>14, <2>1 DEF Classify, After
<1>15. CASE WriteOpen \/ WriteArtifact \/ Deliver \/ AgentDone
    BY <1>15 DEF WriteOpen, WriteArtifact, Deliver, AgentDone, Choosing, After
<1>16. CASE BoxDies
    BY <1>16 DEF BoxDies, Choosing
<1>17. CASE Raises
    <2>1. stage' \in {"idle", "deliver"} /\ box' = "none"
        BY <1>17 DEF Raises, BoxAfterRaise
    <2> QED
        BY <2>1 DEF Choosing, After
<1>18. CASE Killed
    BY <1>18 DEF Killed, Choosing, After
<1>19. CASE StrayEnds \/ UNCHANGED vars
    BY <1>1, <1>19 DEF vars, StrayEnds
<1> QED
    BY <1>2, <1>3, <1>4, <1>5, <1>6, <1>7, <1>9, <1>10, <1>11, <1>12, <1>13, <1>14,
       <1>15, <1>16, <1>17, <1>18, <1>19 DEF Next, Step, Stopped

\* The loop takes the preferred candidate, whatever the order of the list.
THEOREM ChoiceIsRight == Spec => []ChoiceIsPreferred
<1>1. Choosing => ChoiceIsPreferred
    BY DEF Choosing, ChoiceIsPreferred, After
<1> QED
    BY <1>1, ChoosingInit, ChoosingStep, TypeCorrect, ProtocolHolds, PTL DEF Spec

-----------------------------------------------------------------------------
(* What a class rests on.                                                    *)

\* What the artifact a says, holds of its test.
Reproduces(a) ==
    IsArtifact(a) /\ a.classification \in CONFIRMATORY_CLASSES /\ ~a.sick /\ gold = "applies" =>
        OnBase[a.test_source] = "fail" /\ OnGold[a.test_source] = "pass"

\* The verdicts of this call: none before their runs, and true of the chosen
\* test once they are there, as long as no container has stopped; where a gold
\* patch applies, the test has run on it by the time the class is given.
Evidence ==
    /\ ran.fail_before => ran.collected
    /\ stage \in {"start", "generate", "try", "rerun"} => ~ran.fail_before
    /\ stage \in {"start", "generate", "try", "rerun", "close", "goldstart", "apply", "goldrun"}
           => passAfter = "none"
    /\ stage \in {"rerun", "goldstart", "apply", "goldrun", "goldclose"} => chosen # NoTest
    /\ stage \in After /\ ran.fail_before =>
           chosen # NoTest /\ (sick \/ OnBase[chosen] = "fail")
    /\ stage \in After /\ passAfter = "pass" => sick \/ OnGold[chosen] = "pass"
    /\ stage = "goldclose" /\ gold = "applies" => sick \/ passAfter # "none"
    /\ stage = "classify" /\ gold = "applies" /\ chosen # NoTest => sick \/ passAfter # "none"
    /\ Reproduces(art)
    /\ Reproduces(file)

LEMMA EvidenceInit == Init => Evidence
    BY DEF Init, Evidence, After, Reproduces, IsArtifact

\* A class in {T3, T4} is given on that evidence only.
LEMMA ClassRests ==
    ASSUME TypeOK, Evidence, stage = "classify", Classification \in CONFIRMATORY_CLASSES,
           ~sick, gold = "applies"
    PROVE  OnBase[chosen] = "fail" /\ OnGold[chosen] = "pass"
<1>1. ran.collected \in BOOLEAN /\ ran.fail_before \in BOOLEAN
      /\ passAfter \in {"none", "pass", "fail"}
    BY DEF TypeOK
<1>2. ClassOf(ran, passAfter) = "T3"
    BY ClassOfType DEF Classification, CONFIRMATORY_CLASSES
<1>3. ran.fail_before /\ passAfter # "fail"
    <2>1. ran.collected
        <3> SUFFICES ASSUME ~ran.collected PROVE ClassOf(ran, passAfter) = "T0"
            BY <1>2
        <3>1. ~ran.fail_before
            BY DEF Evidence
        <3> QED
            BY <1>1, <3>1 DEF ClassOf
    <2>2. ran.fail_before
        BY <1>1, <1>2, <2>1 DEF ClassOf
    <2> QED
        BY <1>1, <1>2, <2>1, <2>2 DEF ClassOf
<1>4. chosen # NoTest /\ OnBase[chosen] = "fail"
    BY <1>3 DEF Evidence, After
<1>5. passAfter = "pass"
    BY <1>1, <1>3, <1>4 DEF Evidence
<1> QED
    BY <1>4, <1>5 DEF Evidence, After

LEMMA EvidenceStep ==
    ASSUME TypeOK, Protocol, Choosing, Evidence, [Next]_vars
    PROVE  Evidence'
<1> USE DEF callVars, genVars, agentVars, faultVars
<1>1. CASE Freeze \/ Resolve
    <2>1. /\ gold' = gold /\ file' = file /\ art' \in {file, NoArtifact}
          /\ ran' = [collected |-> FALSE, fail_before |-> FALSE] /\ passAfter' = "none"
        BY <1>1 DEF Freeze, Resolve, Call, Fresh
    <2>2. stage' \in {"start", "deliver"}
        BY <1>1 DEF Freeze, Resolve
    <2> QED
        BY <2>1, <2>2 DEF Evidence, After, Reproduces, IsArtifact
<1>2. CASE StartBase \/ Generate \/ StartGold
    BY <1>2 DEF StartBase, Generate, StartGold, Evidence, After, Reproduces
<1>3. CASE TryCandidate
    <2>1. cands[i] # NoTest
        BY <1>3, CandidateLists, CandidatesAssumption DEF TryCandidate, TypeOK
    <2>2. stage' = "try" \/ (stage' = "rerun" /\ chosen' = cands[i])
        BY <1>3 DEF TryCandidate
    <2> QED
        BY <1>3, <2>1, <2>2 DEF TryCandidate, Evidence, After, Reproduces
<1>4. CASE NoneSelected
    <2>1. \/ stage' = "rerun" /\ chosen' # NoTest
          \/ stage' = "close"
        BY <1>4 DEF NoneSelected
    <2> QED
        BY <1>4, <2>1 DEF NoneSelected, Evidence, After, Reproduces
<1>5. CASE Rerun
    <2>1. sick \/ box = "up"
        BY <1>5 DEF Rerun, Protocol, Choosing, InBase, TypeOK
    <2>2. ran'.fail_before => RunCandidate(box, OnBase[chosen]) = "fail"
        BY <1>5 DEF Rerun
    <2>3. ran'.fail_before => sick \/ OnBase[chosen] = "fail"
        BY <2>1, <2>2 DEF RunCandidate
    <2>4. /\ stage = "rerun" /\ stage' = "close"
          /\ UNCHANGED <<gold, chosen, passAfter, sick, art, file>>
        BY <1>5 DEF Rerun
    <2>5. ran'.fail_before => ran'.collected
        BY <1>5 DEF Rerun
    <2> QED
        BY <2>3, <2>4, <2>5 DEF Evidence, After, Reproduces
<1>6. CASE CloseBase
    <2>1. stage = "close" /\ UNCHANGED <<gold, ran, chosen, passAfter, sick, art, file>>
        BY <1>6 DEF CloseBase
    <2>2. CASE chosen = NoTest \/ gold = "none"
        <3>1. stage' = "classify"
            BY <1>6, <2>2 DEF CloseBase
        <3> QED
            BY <2>1, <2>2, <3>1 DEF Evidence, After, Reproduces
    <2>3. CASE ~(chosen = NoTest \/ gold = "none")
        <3>1. stage' = "goldstart"
            BY <1>6, <2>3 DEF CloseBase
        <3> QED
            BY <2>1, <2>3, <3>1 DEF Evidence, After, Reproduces
    <2> QED
        BY <2>2, <2>3
<1>7. CASE ApplyGold
    <2>1. sick \/ box = "up"
        BY <1>7 DEF ApplyGold, Protocol, Choosing, InGold, TypeOK
    <2>2. stage' = "goldrun" \/ (stage' = "goldclose" /\ (sick \/ gold # "applies"))
        BY <1>7, <2>1 DEF ApplyGold
    <2> QED
        BY <1>7, <2>2 DEF ApplyGold, Evidence, After, Reproduces
<1>8. CASE RunOnGold
    <2>1. sick \/ box = "up"
        BY <1>8 DEF RunOnGold, Protocol, Choosing, InGold, TypeOK
    <2>2. passAfter' # "none" /\ (passAfter' = "pass" => sick \/ OnGold[chosen] = "pass")
        BY <1>8, <2>1 DEF RunOnGold, RunCandidate
    <2> QED
        BY <1>8, <2>2 DEF RunOnGold, Evidence, After, Reproduces
<1>9. CASE CloseGold
    BY <1>9 DEF CloseGold, Evidence, After, Reproduces
<1>10. CASE Classify
    <2>1. stage' \in {"write", "deliver"}
        BY <1>10 DEF Classify
    <2>2. Reproduces(art)'
        BY <1>10, ClassRests DEF Classify, Reproduces
    <2> QED
        BY <1>10, <2>1, <2>2 DEF Classify, Evidence, After, Reproduces
<1>11. CASE WriteOpen \/ WriteArtifact \/ Deliver \/ AgentDone
    BY <1>11 DEF WriteOpen, WriteArtifact, Deliver, AgentDone, Evidence, After, Reproduces,
       IsArtifact
<1>12. CASE BoxDies
    BY <1>12 DEF BoxDies, Evidence, After, Reproduces
<1>13. CASE Raises
    <2>1. stage' \in {"idle", "deliver"} /\ art' = NoArtifact /\ gold' = gold
        BY <1>13 DEF Raises
    <2> QED
        BY <1>13, <2>1 DEF Raises, Evidence, After, Reproduces, IsArtifact
<1>14. CASE Killed
    BY <1>14 DEF Killed, Evidence, After, Reproduces, IsArtifact
<1>15. CASE StrayEnds \/ UNCHANGED vars
    BY <1>15 DEF vars, StrayEnds, Evidence, After, Reproduces
<1> QED
    BY <1>1, <1>2, <1>3, <1>4, <1>5, <1>6, <1>7, <1>8, <1>9, <1>10, <1>11, <1>12, <1>13,
       <1>14, <1>15 DEF Next, Step, Stopped

\* A helper in a confirmatory class fails on base and passes on gold, where the
\* task has a gold patch that applies and no container of its generation stopped.
THEOREM ConfirmatoryIsRight == Spec => []ConfirmatoryReproduces
<1>1. Evidence => ConfirmatoryReproduces
    BY DEF Evidence, ConfirmatoryReproduces, Reproduces
<1> QED
    BY <1>1, EvidenceInit, EvidenceStep, ChoosingInit, ChoosingStep, TypeCorrect,
       ProtocolHolds, PTL DEF Spec
=============================================================================
