----------------------------- MODULE Treatment -----------------------------
(***************************************************************************)
(* How a run sets its condition up, from the condition's name to the       *)
(* prompt the agent starts with: run_single and _run_body up to agent.run  *)
(* (runner/run_manager.py), build_bundle and SupportBundle.write           *)
(* (support/bundle.py), build_system_prompt (support/prompts.py), the      *)
(* isolation records, and the script that freezes repository memory, which *)
(* may run at the same time.                                               *)
(*                                                                         *)
(* A stage ends where a kill would find other files in the run directory.  *)
(* A run that fails or is killed is run again in the same directory, where *)
(* nothing is cleared; what the process had in memory is gone.             *)
(*                                                                         *)
(* A text is named by where it came from; "empty" is the empty text and    *)
(* "none" says that there is no such text or file.                         *)
(***************************************************************************)
EXTENDS ContextPack, FiniteSets

CONSTANTS
    Jobs,        \* runs to look at: condition, mode, sandbox, repository
    HelperTexts, \* the helpers a generator may come up with
    Overwrite,   \* freeze_repo_memory --overwrite
    MaxAttempts  \* bound on the attempts in one directory

\* Artifacts are written in this order.
LayerOrder == <<"context", "tests", "gates", "harness", "memory">>
Layers == ToSet(LayerOrder)

\* CONDITIONS: the layers each condition switches on.
Enabled ==
    [C0_minimal    |-> {},
     C1_context    |-> {"context"},
     C2_tests      |-> {"tests"},
     C3_gates      |-> {"gates"},
     C4_harness    |-> {"harness"},
     C5_memory     |-> {"memory"},
     C6_full_stack |-> Layers,
     C6_minus_C4   |-> Layers \ {"harness"},
     C2_C3         |-> {"tests", "gates"},
     C1_random     |-> {"context"}]

Sandboxes == {"none", "confirmatory", "open"}
Backend == {"bwrap", "unshare", "absent"}
Frozen == {"none", "empty", "whole"}

\* template: the task has a local repository; client: a generator is at hand;
\* backend: what sandbox_available finds; cache: the frozen memory at the start.
Job == [condition : DOMAIN Enabled, evaluator : {"auto", "local", "docker"},
        template : BOOLEAN, in_container : BOOLEAN, sandbox : Sandboxes,
        client : BOOLEAN, backend : Backend, cache : Frozen,
        files : Seq(File), terms : BOOLEAN]

ASSUME TreatmentAssumption ==
    /\ Jobs \subseteq Job
    /\ HelperTexts \cap {"none", "empty"} = {}
    /\ Overwrite \in BOOLEAN
    /\ MaxAttempts \in Nat \ {0}

VARIABLES
    job,              \* chosen once
    frozen, freezer,  \* the memory file in the cache; the script that writes it
    pc, attempt,
    helper,           \* this attempt's C2 helper: its class and text
    bundle,           \* the support bundle, a status and a text per layer
    pack,             \* what its context was built from
    policy,           \* agent.sandbox_policy
    baselined,        \* agent.gate_baseline was taken
    given,            \* what the agent starts with, per layer
    disk              \* the run directory

running == <<helper, bundle, pack, policy, baselined, given>>
memory == <<frozen, freezer>>
vars == <<job, memory, pc, attempt, running, disk>>

Stages == {"helper", "workspace", "bundle", "files", "manifest", "baseline",
           "isolation", "check", "provenance", "prompt"}

On == Enabled[job.condition]

ResolveMode(j) ==
    IF j.evaluator = "local" \/ (j.evaluator = "auto" /\ j.template) THEN "fixture"
    ELSE "real"

UseContainer == job.in_container /\ ResolveMode(job) = "real"

NoHelper == [class |-> "none", text |-> "none"]
Artifact(status, text) == [status |-> status, text |-> text]
Off == Artifact("off", "none")
NoBundle == [l \in Layers |-> Off]
NoPack == Pack("none", 0, 0, <<>>, FALSE)
NoText == [l \in Layers |-> "none"]

\* file: "none", "torn" or "whole".  artifact is the helper in
\* helper_artifact.json, unavailable says that helper_artifact_error.json is there.
EmptyDisk ==
    [artifact   |-> "none",
     unavailable |-> FALSE,
     support    |-> NoText,
     mount      |-> "none",
     manifest   |-> [file |-> "none", bundle |-> NoBundle],
     visible    |-> [file |-> "none", backend |-> "none", network |-> FALSE],
     check      |-> [file |-> "none", layers |-> {}, bundle |-> NoBundle,
                     network |-> "unknown", passed |-> FALSE],
     provenance |-> [file |-> "none", helper |-> "none", bundle |-> NoText]]

Forgotten ==
    /\ helper' = NoHelper
    /\ bundle' = NoBundle
    /\ pack' = NoPack
    /\ policy' = "none"
    /\ baselined' = FALSE
    /\ given' = NoText

Init ==
    /\ job \in Jobs
    /\ frozen = job.cache /\ freezer = "idle"
    /\ pc = "helper" /\ attempt = 1
    /\ helper = NoHelper /\ bundle = NoBundle /\ pack = NoPack
    /\ policy = "none" /\ baselined = FALSE /\ given = NoText
    /\ disk = EmptyDisk

Stage(from, to) == pc = from /\ pc' = to /\ UNCHANGED <<job, memory, attempt>>

-----------------------------------------------------------------------------
(* The helper and the workspace.                                           *)

\* A helper that cannot be had is recorded in a file of its own; the other file
\* stays, whichever attempt wrote it.
ArtifactRecorded(h) ==
    IF h = NoHelper THEN [disk EXCEPT !.unavailable = TRUE]
    ELSE [disk EXCEPT !.artifact = h.text]

\* It is no error, and the class is not looked at before the helper is mounted.
\* Without a container nothing is mounted.
ResolveHelper ==
    /\ Stage("helper", "workspace")
    /\ IF "tests" \in On /\ job.client
       THEN \E c \in {"none", "diagnostic", "confirmatory"}, t \in HelperTexts :
                /\ helper' = IF c = "none" THEN NoHelper ELSE [class |-> c, text |-> t]
                /\ disk' = IF UseContainer /\ c # "none"
                           THEN [ArtifactRecorded(helper') EXCEPT !.mount = t]
                           ELSE ArtifactRecorded(helper')
       ELSE helper' = NoHelper /\ UNCHANGED disk
    /\ UNCHANGED <<bundle, pack, policy, baselined, given>>

\* The directory is mounted if this attempt has put a helper into it.
Mounted == IF UseContainer /\ helper # NoHelper THEN disk.mount ELSE "none"

\* A fixture without a repository to copy raises.
StartWorkspace ==
    /\ Stage("workspace", "bundle")
    /\ ResolveMode(job) = "fixture" => job.template
    /\ UNCHANGED <<running, disk>>

-----------------------------------------------------------------------------
(* The bundle.                                                             *)

\* Mutant: a helper of any class is announced.
AnyTestsArtifact ==
    IF helper # NoHelper THEN Artifact("present", helper.text)
    ELSE Artifact("declared", "none")

TestsArtifact ==
    IF helper.class = "confirmatory" THEN Artifact("present", helper.text)
    ELSE Artifact("declared", "none")

\* build_memory: the frozen file if there is one, whatever is in it.
BuildMemory == IF frozen = "none" THEN "derived" ELSE frozen

ContextPacks ==
    IF job.condition = "C1_random"
    THEN {BuildRandomContextPack(job.files, o) : o \in SetToSeqs(DOMAIN job.files)}
    ELSE {BuildContextPackV2(job.files, job.terms)}

ArtifactOf(l) ==
    IF l \notin On THEN Off
    ELSE CASE l = "context" -> Artifact("present", "pack")
           [] l = "tests"   -> TestsArtifact
           [] l = "gates"   -> Artifact("present", "policy v1")
           [] l = "harness" -> Artifact("present", "rules")
           [] l = "memory"  -> Artifact("present", BuildMemory)

BuildBundle ==
    /\ Stage("bundle", "files")
    /\ IF "context" \in On THEN pack' \in ContextPacks ELSE pack' = NoPack
    /\ bundle' = [l \in Layers |-> ArtifactOf(l)]
    /\ UNCHANGED <<helper, policy, baselined, given, disk>>

Present(l) == bundle[l].status = "present"

\* Mutant: a file that is there is kept.
MissingFilesWritten(L) ==
    [l \in Layers |-> IF l \in L /\ Present(l) /\ bundle[l].text # "empty"
                         /\ disk.support[l] = "none"
                      THEN bundle[l].text ELSE disk.support[l]]

\* Only a present, non-empty artifact has a file.  Nothing is removed.
FilesWritten(L) ==
    [l \in Layers |-> IF l \in L /\ Present(l) /\ bundle[l].text # "empty"
                      THEN bundle[l].text ELSE disk.support[l]]

WriteFiles ==
    /\ Stage("files", "manifest")
    /\ disk' = [disk EXCEPT !.support = FilesWritten(Layers)]
    /\ UNCHANGED running

WriteManifest ==
    /\ Stage("manifest", "baseline")
    /\ disk' = [disk EXCEPT !.manifest = [file |-> "whole", bundle |-> bundle]]
    /\ UNCHANGED running

-----------------------------------------------------------------------------
(* Baseline, isolation and the records.                                    *)

TakeBaseline ==
    /\ Stage("baseline", "isolation")
    /\ baselined' = ("gates" \in On)
    /\ UNCHANGED <<helper, bundle, pack, policy, given, disk>>

Isolated == job.sandbox # "none" \/ UseContainer

\* Mutant: the manifest takes the policy's word for the backend.
BackendPromised ==
    IF UseContainer THEN "container"
    ELSE IF job.sandbox = "confirmatory" THEN "bwrap"
    ELSE "none"

\* Mutant: no name is written for the backend that was not found.
BackendAsFound ==
    IF UseContainer THEN "container"
    ELSE IF job.sandbox = "confirmatory" THEN job.backend
    ELSE "none"

BackendRecorded ==
    IF UseContainer THEN "container"
    ELSE IF job.sandbox = "confirmatory" /\ job.backend # "absent" THEN job.backend
    ELSE "none"

ApplyIsolation ==
    /\ Stage("isolation", "check")
    /\ disk' = IF Isolated
               THEN [disk EXCEPT !.visible =
                        [file |-> "whole", backend |-> BackendRecorded,
                         network |-> ~UseContainer /\ job.sandbox = "open"]]
               ELSE disk
    /\ policy' = IF Isolated /\ ~UseContainer THEN job.sandbox ELSE policy
    /\ UNCHANGED <<helper, bundle, pack, baselined, given>>

NetworkClaimed ==
    IF UseContainer \/ job.sandbox = "confirmatory" THEN "disabled"
    ELSE IF job.sandbox = "open" THEN "enabled"
    ELSE "unknown"

WriteManipulationCheck ==
    /\ Stage("check", "provenance")
    /\ disk' = [disk EXCEPT !.check =
           [file |-> "whole", layers |-> {l \in Layers : Present(l)},
            bundle |-> bundle, network |-> NetworkClaimed,
            passed |-> \A l \in Layers \ {"tests"} : Present(l) <=> l \in On]]
    /\ UNCHANGED running

ProvenanceOf(b) ==
    [file |-> "whole", helper |-> IF UseContainer THEN helper.text ELSE "none", bundle |-> b]

WriteProvenance ==
    /\ Stage("provenance", "prompt")
    /\ disk' = [disk EXCEPT !.provenance = ProvenanceOf([l \in Layers |-> bundle[l].text])]
    /\ UNCHANGED running

-----------------------------------------------------------------------------
(* The agent's start: build_system_prompt, the gates and the state machine *)
(* that LLMAgent.run puts in its way.  An empty memory is a section without *)
(* text, an empty helper none.                                             *)

GivenOf(l) ==
    IF l \notin On THEN "none"
    ELSE CASE l \in {"context", "memory"} -> bundle[l].text
           [] l = "tests"   -> IF Present(l) THEN bundle[l].text ELSE "none"
           [] l = "gates"   -> "policy v2"
           [] l = "harness" -> "rules"

StartAgent ==
    /\ Stage("prompt", "agent")
    /\ given' = [l \in Layers |-> GivenOf(l)]
    /\ UNCHANGED <<helper, bundle, pack, policy, baselined, disk>>

-----------------------------------------------------------------------------
(* Failures, kills, another attempt.                                       *)

\* A stage raises, or a snapshot of the container's tree is not clean.
StageFails ==
    /\ pc \in Stages
    /\ pc' = "failed"
    /\ UNCHANGED <<job, memory, attempt, running, disk>>

\* What a kill within a stage leaves: some of the files, the last one cut off.
CutOff ==
    LET Upto(n) == {LayerOrder[i] : i \in 1 .. n} IN
    CASE pc = "helper" /\ "tests" \in On /\ job.client ->
           {[disk EXCEPT !.artifact = "empty"]}
      [] pc = "files" ->
           {[disk EXCEPT !.support =
                IF n < Len(LayerOrder) /\ FilesWritten(Layers)[LayerOrder[n + 1]] # "none"
                THEN [FilesWritten(Upto(n)) EXCEPT ![LayerOrder[n + 1]] =
                        IF Present(LayerOrder[n + 1]) THEN "empty" ELSE @]
                ELSE FilesWritten(Upto(n))] : n \in 0 .. Len(LayerOrder)}
      [] pc = "manifest"   -> {[disk EXCEPT !.manifest.file = "torn"]}
      [] pc = "isolation" /\ Isolated -> {[disk EXCEPT !.visible.file = "torn"]}
      [] pc = "check"      -> {[disk EXCEPT !.check.file = "torn"]}
      [] pc = "provenance" -> {[disk EXCEPT !.provenance.file = "torn"]}
      [] OTHER -> {disk}

Kill ==
    /\ pc \in Stages
    /\ pc' = "failed"
    /\ disk' \in CutOff \cup {disk}
    /\ UNCHANGED <<job, memory, attempt, running>>

\* The scheduler retries, or the run is launched again.
Retry ==
    /\ pc = "failed" /\ attempt < MaxAttempts
    /\ pc' = "helper" /\ attempt' = attempt + 1
    /\ Forgotten
    /\ UNCHANGED <<job, memory, disk>>

-----------------------------------------------------------------------------
(* freeze_repo_memory: write_text opens, and so empties, the file first.   *)

FreezeOpen ==
    /\ freezer = "idle"
    /\ frozen = "none" \/ Overwrite
    /\ frozen' = "empty" /\ freezer' = "open"
    /\ UNCHANGED <<job, pc, attempt, running, disk>>

FreezeWrite ==
    /\ freezer = "open"
    /\ frozen' = "whole" /\ freezer' = "idle"
    /\ UNCHANGED <<job, pc, attempt, running, disk>>

FreezeKilled ==
    /\ freezer = "open"
    /\ freezer' = "idle"
    /\ UNCHANGED <<job, frozen, pc, attempt, running, disk>>

Next ==
    \/ ResolveHelper \/ StartWorkspace \/ BuildBundle \/ WriteFiles \/ WriteManifest
    \/ TakeBaseline \/ ApplyIsolation \/ WriteManipulationCheck \/ WriteProvenance
    \/ StartAgent \/ StageFails \/ Kill \/ Retry
    \/ FreezeOpen \/ FreezeWrite \/ FreezeKilled

Spec == Init /\ [][Next]_vars

-----------------------------------------------------------------------------
(* Properties.                                                             *)

Texts == HelperTexts \cup {"none", "empty", "pack", "derived", "whole", "policy v1",
                           "policy v2", "rules"}
Bundles == [Layers -> [status : {"off", "declared", "present"}, text : Texts]]
FileState == {"none", "torn", "whole"}

RunDirectories ==
    [artifact   : Texts, unavailable : BOOLEAN,
     support    : [Layers -> Texts],
     mount      : Texts,
     manifest   : [file : FileState, bundle : Bundles],
     visible    : [file : FileState, backend : {"bwrap", "unshare", "container", "none"},
                   network : BOOLEAN],
     check      : [file : FileState, layers : SUBSET Layers, bundle : Bundles,
                   network : {"unknown", "enabled", "disabled"}, passed : BOOLEAN],
     provenance : [file : FileState, helper : Texts, bundle : [Layers -> Texts]]]

TypeOK ==
    /\ job \in Job
    /\ frozen \in Frozen /\ freezer \in {"idle", "open"}
    /\ pc \in Stages \cup {"agent", "failed"} /\ attempt \in 1 .. MaxAttempts
    /\ helper \in [class : {"none", "diagnostic", "confirmatory"}, text : Texts]
    /\ bundle \in Bundles /\ given \in [Layers -> Texts]
    /\ policy \in Sandboxes /\ baselined \in BOOLEAN
    /\ disk \in RunDirectories

AgentRuns == pc = "agent"

\* The agent gets its condition and nothing else, whatever earlier attempts
\* left: a layer that is switched off gives it nothing, one that is switched
\* on gives it something, unless no confirmatory helper could be had; and a
\* helper it is told of, or gates that judge it, are this attempt's.
TreatmentIsTheConditions ==
    AgentRuns => \A l \in Layers :
        /\ l \notin On => given[l] = "none"
        /\ l \in On => \/ given[l] # "none"
                       \/ l = "tests" /\ helper.class # "confirmatory"
        /\ given.tests # "none" =>
              /\ helper.class = "confirmatory" /\ given.tests = helper.text
              /\ UseContainer => Mounted = given.tests
        /\ given.gates # "none" => baselined

\* When the agent starts, the records of the directory are those of this
\* attempt, and each says the same of what the agent is given: the
\* manipulation check, the manifest, the files in support/, the provenance, and the
\* helper_artifact.json of a helper the agent is told of.  An empty memory has no
\* file, and gates act by a policy the file does not show.
RecordsTellTheTreatment ==
    AgentRuns =>
        /\ disk.manifest = [file |-> "whole", bundle |-> bundle]
        /\ disk.check.file = "whole" /\ disk.check.bundle = disk.manifest.bundle
        /\ disk.check.layers = {l \in Layers : given[l] # "none"}
        /\ \A l \in Layers \ {"gates"} :
               given[l] \notin {"none", "empty"} => disk.support[l] = given[l]
        /\ disk.provenance.file = "whole"
        /\ disk.provenance.helper = Mounted
        /\ given.tests # "none" => disk.artifact = given.tests

\* Whether the agent's commands reach the network: build_sandbox_argv, or the
\* container's own --network none.
NetworkOpen ==
    /\ ~UseContainer
    /\ policy \in {"none", "open"} \/ job.backend = "absent"

\* An agent that can reach the network is recorded as one: no record claims a
\* sandbox for it, in the visible-input manifest at least.  And an agent that
\* cannot is recorded as one.
OpenNetworkIsRecorded ==
    AgentRuns =>
        IF NetworkOpen
        THEN \/ disk.visible.file = "whole" /\ disk.visible.backend = "none"
             \/ disk.visible.file = "none" /\ disk.check.network = "unknown"
        ELSE /\ disk.check.network = "disabled"
             /\ disk.visible.file = "whole" /\ ~disk.visible.network
             /\ disk.visible.backend # "none"

\* The pack an issue is answered with: within the budget but for the
\* separators and headings that are not counted; of the source files and of
\* the tests the best, without a gap; and the random control takes no more.
Blocks == ToSet(pack.blocks)
ContextIsRankedAndBounded ==
    pack.kind \in {"v2", "random"} =>
        LET files   == job.files
            open    == IF Budget + 1 > Header THEN Budget + 1 ELSE Header
            Peer(f, g) == files[f].test = files[g].test
            out     == {g \in CandidateFiles(files) : files[g].size > 0} \ Blocks
        IN  /\ pack.length <= open + 1 + Len(pack.blocks) +
                                (IF pack.kind = "v2" THEN 2 * (Heading + 1) ELSE 0)
            /\ IsInjective(pack.blocks)
            /\ pack.kind = "v2" =>
                 /\ Cardinality({f \in Blocks : ~files[f].test}) <= TopK
                 /\ Cardinality({f \in Blocks : files[f].test}) <= TopTests
                 /\ \A f \in Blocks, g \in out :
                        Peer(f, g) => Score(files[f]) >= Score(files[g])

-----------------------------------------------------------------------------
(* What is said of the setup and does not hold.                            *)

\* manipulation.py: network_disabled is "Verified that the agent had no
\* network access".  Without a backend nothing disables it.
NetworkClaimHolds ==
    (AgentRuns /\ disk.check.network = "disabled") => ~NetworkOpen

\* support/ is the bundle the agent had: a file of an attempt before stays.
SupportDirIsTheBundle ==
    AgentRuns => \A l \in Layers : disk.support[l] # "none" => disk.support[l] = bundle[l].text

\* C5 gives the agent a memory: a file that was opened and not written is
\* taken as it is, and the check calls it present.
MemoryIsThere == (AgentRuns /\ "memory" \in disk.check.layers) => given.memory # "empty"

\* The prompt names .se_support/helper_test.py: on the host nothing is there.
AnnouncedIsReadable == (AgentRuns /\ given.tests # "none") => Mounted = given.tests

\* gate_policy.json is the policy in force.
PolicyFileIsInForce ==
    (AgentRuns /\ given.gates # "none") => disk.support.gates = given.gates
=============================================================================
