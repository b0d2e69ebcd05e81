---------------------------- MODULE HelperPipeline -----------------------------
(*****************************************************************************)
(* The C2 helper test of one task: generated and validated in instance       *)
(* containers (repro_tests/pregen_container.py), frozen to a file by         *)
(* scripts/freeze_helpers.py, and resolved, mounted and bundled by a run     *)
(* (run_manager._resolve_helper_artifact and what follows it).               *)
(*                                                                           *)
(* A candidate is known by what pytest and the audit of its literals say of  *)
(* it.  sick is history: a container of this generation stopped by itself.   *)
(*****************************************************************************)
EXTENDS Integers, Sequences, FiniteSetsExt

CONSTANTS
    Candidates,  \* the tests the generator model may come up with
    OnBase,      \* what pytest says of each on the base commit
    OnGold,      \* and with the gold patch
    Traceable,   \* those without a suspicious literal (has_issue_provenance)
    Forbidden,   \* those with a literal of the official test
    K,           \* candidates asked for
    GoldPatches, \* of "none", "applies", "rejected": what the gold patch may be
    MaxCalls,    \* bound: calls of the script and runs of the task
    MaxFaults    \* bound: exceptions, stopped containers, killed processes

TestOutcome == {"error", "fail", "pass"}

NoTest == "no test"

ASSUME CandidatesAssumption ==
    /\ NoTest \notin Candidates
    /\ OnBase \in [Candidates -> TestOutcome]
    /\ OnGold \in [Candidates -> TestOutcome]
    /\ Traceable \subseteq Candidates
    /\ Forbidden \subseteq Candidates

ASSUME GoldAssumption == GoldPatches \subseteq {"none", "applies", "rejected"}

ASSUME BoundsAssumption == K \in Nat \ {0} /\ MaxCalls \in Nat /\ MaxFaults \in Nat

ReproTestClass == {"T0", "T1", "T2", "T3", "T4"}
CONFIRMATORY_CLASSES == {"T3", "T4"}

HelperTestArtifact == [test_source : Candidates \cup {NoTest},
                       classification : ReproTestClass,
                       sick : BOOLEAN]

NoArtifact == [test_source |-> NoTest, classification |-> "none", sick |-> FALSE]
TornArtifact == [test_source |-> NoTest, classification |-> "torn", sick |-> FALSE]

VARIABLES
    gold,     \* the gold patch of the task
    caller,   \* "none", "script" or "run": who is at work
    cached,   \* the run was given the directory of frozen helpers
    stage,    \* where the caller is
    box,      \* the generator's container: "none", "up" or "dead"
    cands,    \* the candidates generated
    i,        \* the one tried next
    fallback, \* the first that could be collected
    chosen,   \* the test that is frozen
    ran,      \* [collected, fail_before] of its run on the base commit
    passAfter,\* pass_after: "none", "pass" or "fail"
    art,      \* the artifact the caller has got
    file,     \* the frozen artifact on disk
    mounted,  \* the test the agent can read in its container
    present,  \* the bundle's manifest says the layer is present
    strays,   \* containers of killed processes that still run
    kills,    \* history: processes killed while their container ran
    sick, calls, faults

genVars == <<cands, i, fallback, chosen, ran, passAfter, sick>>
callVars == <<gold, caller, cached, calls>>
agentVars == <<mounted, present>>
faultVars == <<strays, kills, faults>>
vars == <<callVars, stage, box, genVars, art, file, agentVars, faultVars>>

Stage == {"idle", "start", "generate", "try", "rerun", "close", "goldstart", "apply",
          "goldrun", "goldclose", "classify", "write", "writing", "deliver", "agent"}

\* The stages that have a container of their own.
InBase == {"generate", "try", "rerun", "close"}
InGold == {"apply", "goldrun", "goldclose"}

Goto(s) == stage' = s

Init ==
    /\ gold \in GoldPatches
    /\ caller = "none" /\ cached = FALSE /\ stage = "idle" /\ box = "none"
    /\ cands = <<>> /\ i = 1 /\ fallback = NoTest /\ chosen = NoTest
    /\ ran = [collected |-> FALSE, fail_before |-> FALSE]
    /\ passAfter = "none"
    /\ art = NoArtifact /\ file = NoArtifact
    /\ mounted = NoTest /\ present = FALSE
    /\ strays = 0 /\ kills = 0
    /\ sick = FALSE /\ calls = 0 /\ faults = 0

-----------------------------------------------------------------------------
(* Who asks for a helper.                                                    *)

IsArtifact(a) == a \notin {NoArtifact, TornArtifact}

\* _load_frozen_helper returns the artifact of the file.
Usable(a) ==
    /\ IsArtifact(a)
    /\ a.classification \in CONFIRMATORY_CLASSES
    /\ a.test_source # NoTest

\* A call starts with nothing of the calls before it.
Fresh ==
    /\ cands' = <<>> /\ i' = 1 /\ fallback' = NoTest /\ chosen' = NoTest
    /\ ran' = [collected |-> FALSE, fail_before |-> FALSE]
    /\ passAfter' = "none" /\ sick' = FALSE
    /\ mounted' = NoTest /\ present' = FALSE

Call(who) ==
    /\ caller = "none"
    /\ calls < MaxCalls
    /\ calls' = calls + 1
    /\ caller' = who
    /\ Fresh
    /\ UNCHANGED <<gold, box, file, faultVars>>

\* Mutant: --overwrite is always on.
AlwaysGenerates(f) == TRUE

\* The script generates only what no file is there for.
Generates(f) == f = NoArtifact

\* freeze_helpers.py for a task without a file.
Freeze ==
    /\ Call("script")
    /\ Generates(file)
    /\ art' = NoArtifact
    /\ cached' = TRUE
    /\ Goto("start")

\* A run under C2 with a generator model resolves its helper: from the file, or
\* by generating one.  A file that does not parse is an error that leaves the run
\* without a helper.
Resolve ==
    /\ Call("run")
    /\ cached' \in BOOLEAN
    /\ art' = IF cached' /\ Usable(file) THEN file ELSE NoArtifact
    /\ Goto(IF cached' /\ (Usable(file) \/ file = TornArtifact) THEN "deliver" ELSE "start")

-----------------------------------------------------------------------------
(* generate_helper_in_container.                                             *)

StartBase ==
    /\ stage = "start"
    /\ box' = "up"
    /\ Goto("generate")
    /\ UNCHANGED <<callVars, genVars, art, file, agentVars, faultVars>>

Generate ==
    /\ stage = "generate"
    /\ cands' \in UNION {[1..n -> Candidates] : n \in 0..K}
    /\ Goto("try")
    /\ UNCHANGED <<callVars, box, i, fallback, chosen, ran, passAfter, sick, art, file,
                   agentVars, faultVars>>

\* Mutant: a test that cannot be collected counts as one that fails.
RunCandidateLoosely(b, outcome) == IF outcome = "pass" /\ b = "up" THEN "pass" ELSE "fail"

\* _run_candidate_in_container: the exit code of pytest, or of docker exec on a
\* container that has stopped, which is that of a failing test.
RunCandidate(b, outcome) == IF b = "up" THEN outcome ELSE "fail"

\* The candidate collects, fails on base, has provenance and no forbidden literal.
Selected(c) ==
    LET out == RunCandidate(box, OnBase[c])
    IN out = "fail" /\ c \in Traceable \ Forbidden

\* One round of the selection loop.
TryCandidate ==
    /\ stage = "try"
    /\ i <= Len(cands)
    /\ IF Selected(cands[i])
       THEN chosen' = cands[i] /\ Goto("rerun") /\ UNCHANGED <<i, fallback>>
       ELSE /\ i' = i + 1
            /\ fallback' = IF fallback = NoTest /\ RunCandidate(box, OnBase[cands[i]]) # "error"
                           THEN cands[i] ELSE fallback
            /\ UNCHANGED <<chosen, stage>>
    /\ UNCHANGED <<callVars, box, cands, ran, passAfter, sick, art, file, agentVars, faultVars>>

\* Mutant: without a selected candidate the last one is taken, collected or not.
LastResort(fb, cs) == IF cs = <<>> THEN NoTest ELSE cs[Len(cs)]

\* What the loop falls back on when nothing was selected.
Fallback(fb, cs) == fb

\* The loop ends without a selection: the fallback, or a T0 artifact.
NoneSelected ==
    /\ stage = "try"
    /\ i > Len(cands)
    /\ chosen' = Fallback(fallback, cands)
    /\ Goto(IF chosen' = NoTest THEN "close" ELSE "rerun")
    /\ UNCHANGED <<callVars, box, cands, i, fallback, ran, passAfter, sick, art, file,
                   agentVars, faultVars>>

\* The chosen test, frozen, runs on the base commit once more.
Rerun ==
    /\ stage = "rerun"
    /\ LET out == RunCandidate(box, OnBase[chosen])
       IN ran' = [collected |-> out # "error", fail_before |-> out = "fail"]
    /\ Goto("close")
    /\ UNCHANGED <<callVars, box, cands, i, fallback, chosen, passAfter, sick, art, file,
                   agentVars, faultVars>>

\* The container is removed; without a runnable candidate that is the end.
CloseBase ==
    /\ stage = "close"
    /\ box' = "none"
    /\ Goto(IF chosen = NoTest \/ gold = "none" THEN "classify" ELSE "goldstart")
    /\ UNCHANGED <<callVars, genVars, art, file, agentVars, faultVars>>

StartGold ==
    /\ stage = "goldstart"
    /\ box' = "up"
    /\ Goto("apply")
    /\ UNCHANGED <<callVars, genVars, art, file, agentVars, faultVars>>

\* git apply: nothing says APPLIED when the patch is rejected or nobody answers.
ApplyGold ==
    /\ stage = "apply"
    /\ Goto(IF box = "up" /\ gold = "applies" THEN "goldrun" ELSE "goldclose")
    /\ UNCHANGED <<callVars, box, genVars, art, file, agentVars, faultVars>>

RunOnGold ==
    /\ stage = "goldrun"
    /\ passAfter' = IF RunCandidate(box, OnGold[chosen]) = "pass" THEN "pass" ELSE "fail"
    /\ Goto("goldclose")
    /\ UNCHANGED <<callVars, box, cands, i, fallback, chosen, ran, sick, art, file,
                   agentVars, faultVars>>

CloseGold ==
    /\ stage = "goldclose"
    /\ box' = "none"
    /\ Goto("classify")
    /\ UNCHANGED <<callVars, genVars, art, file, agentVars, faultVars>>

\* Mutant: a test that was not run on gold gets the label of an error.
ClassOrError(r, pass) ==
    IF r.fail_before /\ pass = "none" THEN "ERROR"
    ELSE CASE ~r.collected -> "T0" [] r.collected /\ ~r.fail_before -> "T1"
           [] r.fail_before /\ pass = "fail" -> "T2" [] r.fail_before /\ pass = "pass" -> "T3"

\* The class, before the audit of the literals.
ClassOf(r, pass) ==
    CASE ~r.collected                   -> "T0"
      [] r.collected /\ ~r.fail_before  -> "T1"
      [] r.fail_before /\ pass = "fail" -> "T2"
      [] r.fail_before /\ pass # "fail" -> "T3"

Classification ==
    LET cls == ClassOf(ran, passAfter)
    IN IF cls = "T3" /\ chosen \in Traceable \ Forbidden THEN "T4" ELSE cls

Classify ==
    /\ stage = "classify"
    /\ art' = [test_source |-> chosen, classification |-> Classification, sick |-> sick]
    /\ Goto(IF caller = "script" THEN "write" ELSE "deliver")
    /\ UNCHANGED <<callVars, box, genVars, file, agentVars, faultVars>>

-----------------------------------------------------------------------------
(* What becomes of the artifact.                                             *)

\* write_text opens the file of the frozen helper, then writes it.
WriteOpen ==
    /\ stage = "write"
    /\ file' = TornArtifact
    /\ Goto("writing")
    /\ UNCHANGED <<callVars, box, genVars, art, agentVars, faultVars>>

\* The caller is through and leaves its container as the finally clauses do.
Leave(s) == Goto(s) /\ caller' = "none" /\ UNCHANGED <<gold, cached, calls>>

WriteArtifact ==
    /\ stage = "writing"
    /\ file' = art
    /\ Leave("idle")
    /\ UNCHANGED <<box, genVars, art, agentVars, faultVars>>

\* _tests_artifact: only a T3/T4 helper makes the layer present.
Announces(a) == IsArtifact(a) /\ a.classification \in CONFIRMATORY_CLASSES

\* The run mounts whatever test it has got, then builds its bundle.
Deliver ==
    /\ stage = "deliver"
    /\ mounted' = IF IsArtifact(art) THEN art.test_source ELSE NoTest
    /\ present' = Announces(art)
    /\ Goto("agent")
    /\ UNCHANGED <<callVars, box, genVars, art, file, faultVars>>

AgentDone ==
    /\ stage = "agent"
    /\ Leave("idle")
    /\ UNCHANGED <<box, genVars, art, file, agentVars, faultVars>>

-----------------------------------------------------------------------------
(* What goes wrong.                                                          *)

Fault == faults < MaxFaults /\ faults' = faults + 1

BoxDies ==
    /\ box = "up"
    /\ box' = "dead" /\ sick' = TRUE
    /\ Fault
    /\ UNCHANGED <<callVars, stage, cands, i, fallback, chosen, ran, passAfter, art, file,
                   agentVars, strays, kills>>

\* Mutant: a container whose stage raised is left running.
BoxAfterRaiseLeaks(b) == b

\* finally: close() of the container of the stage.
BoxAfterRaise(b) == "none"

\* docker run or the chat client raises.  The script goes on with its next
\* task, a run goes on without a helper.
Raises ==
    /\ stage \in {"start", "generate", "goldstart"}
    /\ box' = BoxAfterRaise(box)
    /\ Fault
    /\ art' = NoArtifact
    /\ IF caller = "script" THEN Leave("idle")
                            ELSE Goto("deliver") /\ UNCHANGED callVars
    /\ UNCHANGED <<genVars, file, agentVars, strays, kills>>

\* The process is killed, and no finally clause runs: a container it had up goes
\* on without it.
Killed ==
    /\ caller # "none"
    /\ Fault
    /\ IF box = "up" THEN strays' = strays + 1 /\ kills' = kills + 1
                     ELSE UNCHANGED <<strays, kills>>
    /\ box' = "none"
    /\ art' = NoArtifact
    /\ Leave("idle")
    /\ UNCHANGED <<genVars, file, agentVars>>

\* Such a container ends when its "sleep 7200" does.
StrayEnds ==
    /\ strays > 0
    /\ strays' = strays - 1
    /\ UNCHANGED <<callVars, stage, box, genVars, art, file, agentVars, kills, faults>>

Stopped == caller = "none" /\ calls = MaxCalls /\ UNCHANGED vars

Step ==
    \/ StartBase \/ Generate \/ TryCandidate \/ NoneSelected \/ Rerun \/ CloseBase
    \/ StartGold \/ ApplyGold \/ RunOnGold \/ CloseGold \/ Classify
    \/ WriteOpen \/ WriteArtifact \/ Deliver \/ AgentDone

Next == Freeze \/ Resolve \/ Step \/ BoxDies \/ Raises \/ Killed \/ StrayEnds \/ Stopped

Spec == Init /\ [][Next]_vars

-----------------------------------------------------------------------------

TypeOK ==
    /\ gold \in GoldPatches
    /\ caller \in {"none", "script", "run"}
    /\ cached \in BOOLEAN
    /\ stage \in Stage
    /\ box \in {"none", "up", "dead"}
    /\ cands \in UNION {[1..n -> Candidates] : n \in 0..K}
    /\ i \in 1..(K + 1)
    /\ {fallback, chosen, mounted} \subseteq Candidates \cup {NoTest}
    /\ ran \in [collected : BOOLEAN, fail_before : BOOLEAN]
    /\ passAfter \in {"none", "pass", "fail"}
    /\ art \in HelperTestArtifact \cup {NoArtifact}
    /\ file \in HelperTestArtifact \cup {NoArtifact, TornArtifact}
    /\ present \in BOOLEAN
    /\ strays \in 0..kills /\ kills \in 0..faults
    /\ sick \in BOOLEAN
    /\ calls \in 0..MaxCalls
    /\ faults \in 0..MaxFaults

\* The candidate to take, from the whole list: the first that reproduces the
\* issue and passes the audit, else the first that pytest can collect.
Preferred ==
    LET sound == {n \in DOMAIN cands : OnBase[cands[n]] = "fail"
                                         /\ cands[n] \in Traceable \ Forbidden}
        runs  == {n \in DOMAIN cands : OnBase[cands[n]] # "error"}
    IN CASE sound # {} -> cands[Min(sound)]
         [] sound = {} /\ runs # {} -> cands[Min(runs)]
         [] OTHER -> NoTest

\* The loop over the candidates ends with that choice, however they are ordered,
\* as long as its container lives (pregen_container.py:85-99).
ChoiceIsPreferred ==
    stage \in {"rerun", "goldstart", "apply", "goldrun", "goldclose", "classify"} /\ ~sick =>
        chosen = Preferred

\* A helper in a confirmatory class does what the class says (schema.py:22-23),
\* on base and on gold, if a gold patch applies and no container stopped: the
\* exit codes, the second run on base and the cascade add up.
ConfirmatoryReproduces ==
    \A a \in {art, file} :
        IsArtifact(a) /\ a.classification \in CONFIRMATORY_CLASSES
            /\ ~a.sick /\ gold = "applies" =>
                OnBase[a.test_source] = "fail" /\ OnGold[a.test_source] = "pass"

\* A frozen helper is never replaced: not by another call of the script, a run
\* that generates its own, or a process killed in between (frozen once, reused).
FrozenHelperIsKept == [][IsArtifact(file) => file' = file]_vars

\* A caller's own generator containers are gone when its agent starts, and when
\* it is through, whatever raised or stopped in them: the helper of a run is never
\* produced next to its agent (run_manager.py:109-112).  What may still run is the
\* container of a killed process, one for each.
GeneratorIsGone ==
    stage \in {"idle", "agent"} => box = "none" /\ strays <= kills

-----------------------------------------------------------------------------
(* What the documents say, and the runs show the code does not do.           *)

\* PROTOCOL_0.3.1_FREEZE.md:39, "Only T3/T4 helpers are used for C2": an agent
\* that can read a helper has a confirmatory one.
MountedIsConfirmatory ==
    stage = "agent" /\ mounted # NoTest => art.classification \in CONFIRMATORY_CLASSES

\* schema.py:22, "fails on base, passes on gold": a confirmatory helper of a task
\* that has a gold patch was seen to pass on it before it is frozen.
ConfirmatoryPassesGold ==
    stage = "writing" /\ gold # "none" /\ art.classification \in CONFIRMATORY_CLASSES => passAfter = "pass"

=============================================================================
