-------------------------- MODULE Treatment_proofs --------------------------
(***************************************************************************)
(* Proofs about Treatment, for every set of runs and helpers and for any   *)
(* number of attempts, failed, killed and done again in one directory.     *)
(* What matters in the run directory after a stage is known by the stage   *)
(* alone, whatever earlier attempts left: that is the inductive invariant. *)
(***************************************************************************)
EXTENDS Treatment, ContextPack_proofs, TLAPS

LEMMA LayersAre == Layers = {"context", "tests", "gates", "harness", "memory"}
    BY DEF Layers, LayerOrder, ToSet

-----------------------------------------------------------------------------
(* Types.                                                                  *)

LEMMA NothingTypes ==
    /\ NoHelper \in [class : {"none", "diagnostic", "confirmatory"}, text : Texts]
    /\ NoBundle \in Bundles
    /\ NoText \in [Layers -> Texts]
    /\ EmptyDisk \in RunDirectories
<1>1. NoHelper \in [class : {"none", "diagnostic", "confirmatory"}, text : Texts]
    BY DEF NoHelper, Texts
<1>2. NoBundle \in Bundles
    BY DEF NoBundle, Off, Artifact, Bundles, Texts
<1>3. NoText \in [Layers -> Texts]
    BY DEF NoText, Texts
<1>4. EmptyDisk \in RunDirectories
    BY <1>2, <1>3 DEF EmptyDisk, RunDirectories, FileState, Texts
<1> QED
    BY <1>1, <1>2, <1>3, <1>4

\* What the stages write has the type of what they write to.
LEMMA WrittenTypes ==
    ASSUME TypeOK
    PROVE  /\ \A L \in SUBSET Layers : FilesWritten(L) \in [Layers -> Texts]
           /\ TestsArtifact \in [status : {"off", "declared", "present"}, text : Texts]
           /\ BackendRecorded \in {"bwrap", "unshare", "container", "none"}
           /\ NetworkClaimed \in {"unknown", "enabled", "disabled"}
<1>1. \A L \in SUBSET Layers : FilesWritten(L) \in [Layers -> Texts]
    <2> SUFFICES ASSUME NEW L \in SUBSET Layers, NEW l \in Layers
                 PROVE  /\ bundle[l].text \in Texts
                        /\ disk.support[l] \in Texts
        BY DEF FilesWritten
    <2> QED
        BY DEF TypeOK, Bundles, RunDirectories
<1>2. TestsArtifact \in [status : {"off", "declared", "present"}, text : Texts]
    BY DEF TestsArtifact, Artifact, TypeOK, Texts
<1>3. BackendRecorded \in {"bwrap", "unshare", "container", "none"}
    BY DEF BackendRecorded, TypeOK, Job, Backend
<1>4. NetworkClaimed \in {"unknown", "enabled", "disabled"}
    BY DEF NetworkClaimed
<1> QED
    BY <1>1, <1>2, <1>3, <1>4

LEMMA ArtifactTypes ==
    ASSUME TypeOK, NEW l \in Layers
    PROVE  ArtifactOf(l) \in [status : {"off", "declared", "present"}, text : Texts]
<1>1. BuildMemory \in Texts
    BY DEF BuildMemory, Frozen, Texts, TypeOK
<1>2. CASE l \notin On
    BY <1>2 DEF ArtifactOf, Off, Artifact, Texts
<1>3. CASE l \in On /\ l = "tests"
    BY <1>3, WrittenTypes DEF ArtifactOf
<1>4. CASE l \in On /\ l = "memory"
    BY <1>4, <1>1 DEF ArtifactOf, Artifact
<1>5. CASE l \in On /\ l \in {"context", "gates", "harness"}
    BY <1>5 DEF ArtifactOf, Artifact, Texts
<1> QED
    BY <1>2, <1>3, <1>4, <1>5, LayersAre

LEMMA CutOffTypes ==
    ASSUME TypeOK, NEW d \in CutOff
    PROVE  d \in RunDirectories
<1>1. CASE pc = "files"
    <2> DEFINE Upto(n) == {LayerOrder[i] : i \in 1 .. n}
    <2>1. \A n \in 0 .. Len(LayerOrder) : Upto(n) \in SUBSET Layers
        BY DEF Layers, LayerOrder, ToSet
    <2>2. PICK n \in 0 .. Len(LayerOrder) :
              d = [disk EXCEPT !.support =
                      IF n < Len(LayerOrder) /\ FilesWritten(Layers)[LayerOrder[n + 1]] # "none"
                      THEN [FilesWritten(Upto(n)) EXCEPT ![LayerOrder[n + 1]] =
                              IF Present(LayerOrder[n + 1]) THEN "empty" ELSE @]
                      ELSE FilesWritten(Upto(n))]
        BY <1>1 DEF CutOff
    <2>3. FilesWritten(Upto(n)) \in [Layers -> Texts]
        BY <2>1, WrittenTypes
    <2>4. \A l : [FilesWritten(Upto(n)) EXCEPT ![l] = IF Present(l) THEN "empty" ELSE @]
                    \in [Layers -> Texts]
        BY <2>3 DEF Texts
    <2>5. \E s \in [Layers -> Texts] : d = [disk EXCEPT !.support = s]
        BY <2>2, <2>3, <2>4
    <2> QED
        BY <2>5 DEF TypeOK, RunDirectories
<1>2. CASE pc # "files"
    <2>1. d \in {disk, [disk EXCEPT !.artifact = "empty"], [disk EXCEPT !.manifest.file = "torn"],
                 [disk EXCEPT !.visible.file = "torn"], [disk EXCEPT !.check.file = "torn"],
                 [disk EXCEPT !.provenance.file = "torn"]}
        <3>1. CASE pc = "manifest"
            BY <3>1 DEF CutOff
        <3>2. CASE pc = "isolation" /\ Isolated
            BY <3>2 DEF CutOff
        <3>3. CASE pc = "check"
            BY <3>3 DEF CutOff
        <3>4. CASE pc = "provenance"
            BY <3>4 DEF CutOff
        <3>5. CASE pc = "helper"
            BY <3>5 DEF CutOff
        <3>6. CASE pc \notin {"helper", "manifest", "check", "provenance"}
                   /\ ~(pc = "isolation" /\ Isolated)
            BY <1>2, <3>6 DEF CutOff
        <3> QED
            BY <3>1, <3>2, <3>3, <3>4, <3>5, <3>6
    <2>2. [disk EXCEPT !.manifest.file = "torn"] \in RunDirectories
        BY DEF TypeOK, RunDirectories, FileState
    <2>3. [disk EXCEPT !.visible.file = "torn"] \in RunDirectories
        BY DEF TypeOK, RunDirectories, FileState
    <2>4. [disk EXCEPT !.check.file = "torn"] \in RunDirectories
        BY DEF TypeOK, RunDirectories, FileState
    <2>5. [disk EXCEPT !.provenance.file = "torn"] \in RunDirectories
        BY DEF TypeOK, RunDirectories, FileState
    <2>6. [disk EXCEPT !.artifact = "empty"] \in RunDirectories
        BY DEF TypeOK, RunDirectories, Texts
    <2> QED
        BY <2>1, <2>2, <2>3, <2>4, <2>5, <2>6 DEF TypeOK
<1> QED
    BY <1>1, <1>2

\* What the helper stage leaves on disk: the artifact of the helper it got, and in
\* a container's run the mounted copy.
LEMMA ResolvedDisk ==
    ASSUME TypeOK, ResolveHelper
    PROVE  /\ helper' \in [class : {"none", "diagnostic", "confirmatory"}, text : Texts]
           /\ helper' = NoHelper \/ helper'.text \notin {"none", "empty"}
           /\ disk' \in RunDirectories
           /\ disk'.visible = disk.visible
           /\ helper' # NoHelper => disk'.artifact = helper'.text
           /\ UseContainer /\ helper' # NoHelper => disk'.mount = helper'.text
<1>1. disk \in RunDirectories
    BY DEF TypeOK
<1>2. CASE helper' = NoHelper /\ UNCHANGED disk
    BY <1>1, <1>2, NothingTypes
<1>3. ASSUME NEW c \in {"none", "diagnostic", "confirmatory"}, NEW t \in HelperTexts,
             helper' = (IF c = "none" THEN NoHelper ELSE [class |-> c, text |-> t]),
             disk' = IF UseContainer /\ c # "none"
                     THEN [ArtifactRecorded(helper') EXCEPT !.mount = t]
                     ELSE ArtifactRecorded(helper')
      PROVE  /\ helper' \in [class : {"none", "diagnostic", "confirmatory"}, text : Texts]
             /\ helper' = NoHelper \/ helper'.text \notin {"none", "empty"}
             /\ disk' \in RunDirectories
             /\ disk'.visible = disk.visible
             /\ helper' # NoHelper => disk'.artifact = helper'.text
             /\ UseContainer /\ helper' # NoHelper => disk'.mount = helper'.text
    <2>1. CASE c = "none"
        <3>1. helper' = NoHelper /\ disk' = [disk EXCEPT !.unavailable = TRUE]
            BY <1>3, <2>1 DEF ArtifactRecorded
        <3>2. disk' \in RunDirectories /\ disk'.visible = disk.visible
            BY <1>1, <3>1 DEF RunDirectories
        <3> QED
            BY <3>1, <3>2, NothingTypes
    <2>2. CASE c # "none"
        <3>1. helper' = [class |-> c, text |-> t]
            BY <1>3, <2>2
        <3>2. t \in Texts /\ t \notin {"none", "empty"}
            BY TreatmentAssumption DEF Texts
        <3>3. helper' # NoHelper /\ helper'.text = t
            BY <2>2, <3>1 DEF NoHelper
        <3>4. \/ disk' = [disk EXCEPT !.artifact = t, !.mount = t]
              \/ ~UseContainer /\ disk' = [disk EXCEPT !.artifact = t]
            BY <1>3, <2>2, <3>3 DEF ArtifactRecorded
        <3>5. /\ disk' \in RunDirectories /\ disk'.visible = disk.visible
              /\ disk'.artifact = t /\ (UseContainer => disk'.mount = t)
            <4>1. /\ [disk EXCEPT !.artifact = t] \in RunDirectories
                  /\ [disk EXCEPT !.artifact = t].visible = disk.visible
                  /\ [disk EXCEPT !.artifact = t].artifact = t
                BY <1>1, <3>2 DEF RunDirectories
            <4>2. /\ [disk EXCEPT !.artifact = t, !.mount = t] \in RunDirectories
                  /\ [disk EXCEPT !.artifact = t, !.mount = t].visible = disk.visible
                  /\ [disk EXCEPT !.artifact = t, !.mount = t].artifact = t
                  /\ [disk EXCEPT !.artifact = t, !.mount = t].mount = t
                BY <1>1, <3>2 DEF RunDirectories
            <4>3. CASE disk' = [disk EXCEPT !.artifact = t, !.mount = t]
                BY <4>2, <4>3, Zenon
            <4>4. CASE ~UseContainer /\ disk' = [disk EXCEPT !.artifact = t]
                BY <4>1, <4>4, Zenon
            <4> QED
                BY <3>4, <4>3, <4>4, Zenon
        <3> QED
            BY <3>1, <3>2, <3>3, <3>5
    <2> QED
        BY <2>1, <2>2
<1> QED
    BY <1>2, <1>3 DEF ResolveHelper

\* Every variable keeps its type, in every attempt.
THEOREM TypeCorrect == Spec => []TypeOK
<1>1. Init => TypeOK
    <2> SUFFICES ASSUME Init PROVE TypeOK
        OBVIOUS
    <2>1. job \in Job /\ frozen \in Frozen /\ attempt \in 1 .. MaxAttempts
        BY TreatmentAssumption DEF Init, Job
    <2> QED
        BY <2>1, NothingTypes DEF Init, TypeOK, Stages, Sandboxes
<1>2. TypeOK /\ [Next]_vars => TypeOK'
    <2> SUFFICES ASSUME TypeOK, [Next]_vars PROVE TypeOK'
        OBVIOUS
    <2> USE DEF TypeOK, Stages, Stage, running, memory
    <2>1. CASE ResolveHelper
        BY <2>1, ResolvedDisk DEF ResolveHelper
    <2>2. CASE StartWorkspace
        BY <2>2 DEF StartWorkspace
    <2>3. CASE BuildBundle
        BY <2>3, ArtifactTypes DEF BuildBundle, Bundles
    <2>4. CASE WriteFiles
        <3>1. disk' \in RunDirectories
            BY <2>4, WrittenTypes DEF WriteFiles, RunDirectories
        <3> QED
            BY <2>4, <3>1 DEF WriteFiles
    <2>5. CASE WriteManifest
        <3>1. disk' \in RunDirectories
            BY <2>5 DEF WriteManifest, RunDirectories, FileState
        <3> QED
            BY <2>5, <3>1 DEF WriteManifest
    <2>6. CASE TakeBaseline
        BY <2>6 DEF TakeBaseline
    <2>7. CASE ApplyIsolation
        <3>1. disk' \in RunDirectories
            BY <2>7, WrittenTypes DEF ApplyIsolation, RunDirectories, FileState
        <3>2. policy' \in Sandboxes
            BY <2>7 DEF ApplyIsolation, Job
        <3> QED
            BY <2>7, <3>1, <3>2 DEF ApplyIsolation
    <2>8. CASE WriteManipulationCheck
        <3>1. disk' \in RunDirectories
            BY <2>8, WrittenTypes DEF WriteManipulationCheck, RunDirectories, FileState
        <3> QED
            BY <2>8, <3>1 DEF WriteManipulationCheck
    <2>9. CASE WriteProvenance
        <3>1. ProvenanceOf([l \in Layers |-> bundle[l].text])
                  \in [file : FileState, helper : Texts, bundle : [Layers -> Texts]]
            BY DEF ProvenanceOf, Bundles, FileState, Texts
        <3>2. disk' \in RunDirectories
            BY <2>9, <3>1 DEF WriteProvenance, RunDirectories
        <3> QED
            BY <2>9, <3>2 DEF WriteProvenance
    <2>10. CASE StartAgent
        <3>1. \A l \in Layers : bundle[l].text \in Texts
            BY DEF Bundles
        <3>2. given' \in [Layers -> Texts]
            BY <2>10, <3>1, LayersAre DEF StartAgent, GivenOf, Texts
        <3> QED
            BY <2>10, <3>2 DEF StartAgent
    <2>11. CASE StageFails
        BY <2>11 DEF StageFails
    <2>12. CASE Kill
        BY <2>12, CutOffTypes DEF Kill
    <2>13. CASE Retry
        <3>1. attempt' \in 1 .. MaxAttempts
            BY <2>13, TreatmentAssumption DEF Retry
        <3> QED
            BY <2>13, <3>1, NothingTypes DEF Retry, Forgotten, Sandboxes
    <2>14. CASE FreezeOpen \/ FreezeWrite \/ FreezeKilled
        BY <2>14 DEF FreezeOpen, FreezeWrite, FreezeKilled, Frozen
    <2>15. CASE UNCHANGED vars
        BY <2>15 DEF vars
    <2> QED
        BY <2>1, <2>2, <2>3, <2>4, <2>5, <2>6, <2>7, <2>8, <2>9, <2>10, <2>11, <2>12,
           <2>13, <2>14, <2>15 DEF Next
<1> QED
    BY <1>1, <1>2, PTL DEF Spec

-----------------------------------------------------------------------------
(* What is known once a stage is past.                                     *)

PastProvenance == {"prompt", "agent"}
PastCheck      == {"provenance"} \cup PastProvenance
PastIsolation  == {"check"} \cup PastCheck
PastBaseline   == {"isolation"} \cup PastIsolation
PastManifest   == {"baseline"} \cup PastBaseline
PastFiles      == {"manifest"} \cup PastManifest
PastBundle     == {"files"} \cup PastFiles
PastHelper     == {"workspace", "bundle"} \cup PastBundle

HelperIsKnown ==
    pc \in PastHelper =>
        /\ helper = NoHelper \/ helper.text \notin {"none", "empty"}
        /\ helper # NoHelper => disk.artifact = helper.text
        /\ UseContainer /\ helper # NoHelper => disk.mount = helper.text

BundleIsKnown ==
    pc \in PastBundle => \A l \in Layers :
        /\ l \notin On => bundle[l] = Off
        /\ l \in On /\ l = "tests" => bundle[l] = TestsArtifact
        /\ l \in On /\ l # "tests" => Present(l) /\ bundle[l].text # "none"
        /\ l \in On /\ l = "harness" => bundle[l].text = "rules"

FilesAreKnown ==
    pc \in PastFiles => \A l \in Layers :
        Present(l) /\ bundle[l].text # "empty" => disk.support[l] = bundle[l].text

ManifestIsKnown == pc \in PastManifest => disk.manifest = [file |-> "whole", bundle |-> bundle]

BaselineIsKnown == pc \in PastBaseline => baselined = ("gates" \in On)

IsolationIsKnown ==
    /\ ~Isolated => disk.visible.file = "none"
    /\ pc \in Stages \ PastIsolation => policy = "none"
    /\ pc \in PastIsolation =>
           /\ policy = IF Isolated /\ ~UseContainer THEN job.sandbox ELSE "none"
           /\ Isolated => disk.visible =
                  [file |-> "whole", backend |-> BackendRecorded,
                   network |-> ~UseContainer /\ job.sandbox = "open"]

CheckIsKnown ==
    pc \in PastCheck =>
        /\ disk.check.file = "whole"
        /\ disk.check.layers = {l \in Layers : Present(l)}
        /\ disk.check.bundle = bundle
        /\ disk.check.network = NetworkClaimed

ProvenanceIsKnown ==
    pc \in PastProvenance =>
        /\ disk.provenance.file = "whole"
        /\ disk.provenance.helper = IF UseContainer THEN helper.text ELSE "none"

GivenIsKnown == pc = "agent" => \A l \in Layers : given[l] = GivenOf(l)

Known ==
    /\ HelperIsKnown /\ BundleIsKnown /\ FilesAreKnown /\ ManifestIsKnown /\ BaselineIsKnown
    /\ IsolationIsKnown /\ CheckIsKnown /\ ProvenanceIsKnown /\ GivenIsKnown

\* What depends on the run alone stays.
LEMMA TheJobStays ==
    ASSUME job' = job
    PROVE  /\ On' = On /\ UseContainer' = UseContainer /\ Isolated' = Isolated
           /\ BackendRecorded' = BackendRecorded /\ NetworkClaimed' = NetworkClaimed
    BY DEF On, UseContainer, ResolveMode, Isolated, BackendRecorded, NetworkClaimed

\* What the bundle holds of each layer.
LEMMA ArtifactsAre ==
    ASSUME NEW l \in Layers
    PROVE  /\ l \notin On => ArtifactOf(l) = Off
           /\ l \in On /\ l = "tests" => ArtifactOf(l) = TestsArtifact
           /\ l \in On /\ l # "tests" => /\ ArtifactOf(l).status = "present"
                                         /\ ArtifactOf(l).text # "none"
           /\ l \in On /\ l = "harness" => ArtifactOf(l).text = "rules"
<1>1. CASE l \notin On
    BY <1>1 DEF ArtifactOf
<1>2. CASE l \in On /\ l = "tests"
    BY <1>2 DEF ArtifactOf
<1>3. CASE l \in On /\ l = "memory"
    <2>1. BuildMemory # "none"
        BY DEF BuildMemory
    <2> QED
        BY <1>3, <2>1 DEF ArtifactOf, Artifact
<1>4. CASE l \in On /\ l \in {"context", "gates", "harness"}
    BY <1>4 DEF ArtifactOf, Artifact
<1> QED
    BY <1>1, <1>2, <1>3, <1>4, LayersAre

LEMMA GivenStays ==
    ASSUME job' = job, bundle' = bundle
    PROVE  \A l \in Layers : GivenOf(l)' = GivenOf(l)
<1>1. On' = On
    BY TheJobStays
<1> QED
    BY <1>1 DEF GivenOf, Present

LEMMA KnownInit == Init => Known
<1> SUFFICES ASSUME Init PROVE Known
    OBVIOUS
<1>1. pc = "helper" /\ policy = "none" /\ disk.visible.file = "none"
    BY DEF Init, EmptyDisk
<1> QED
    BY <1>1 DEF Known, HelperIsKnown, BundleIsKnown, FilesAreKnown, ManifestIsKnown,
       BaselineIsKnown, IsolationIsKnown, CheckIsKnown, ProvenanceIsKnown, GivenIsKnown,
       PastHelper, PastBundle, PastFiles, PastManifest, PastBaseline, PastIsolation,
       PastCheck, PastProvenance

\* A kill makes no manifest of inputs where there is no isolation.
LEMMA CutOffIsolation ==
    ASSUME TypeOK, Known, NEW d \in CutOff, ~Isolated
    PROVE  d.visible.file = "none"
<1>1. disk.visible.file = "none"
    BY DEF Known, IsolationIsKnown
<1>2. CASE pc = "files"
    <2>1. \E s : d = [disk EXCEPT !.support = s]
        BY <1>2 DEF CutOff
    <2> QED
        BY <1>1, <2>1 DEF TypeOK, RunDirectories
<1>3. CASE pc = "manifest"
    BY <1>1, <1>3 DEF CutOff, TypeOK, RunDirectories
<1>4. CASE pc = "check"
    BY <1>1, <1>4 DEF CutOff, TypeOK, RunDirectories
<1>5. CASE pc = "provenance"
    BY <1>1, <1>5 DEF CutOff, TypeOK, RunDirectories
<1>6. CASE pc = "helper"
    BY <1>1, <1>6 DEF CutOff, TypeOK, RunDirectories
<1>7. CASE pc \notin {"helper", "files", "manifest", "check", "provenance"}
    BY <1>1, <1>7 DEF CutOff
<1> QED
    BY <1>2, <1>3, <1>4, <1>5, <1>6, <1>7

LEMMA KnownStep ==
    ASSUME TypeOK, TypeOK', Known, [Next]_vars
    PROVE  Known'
<1> USE DEF running, memory, Stage, PastHelper, PastBundle, PastFiles, PastManifest,
            PastBaseline, PastIsolation, PastCheck, PastProvenance, Stages, Known, HelperIsKnown,
            BundleIsKnown, FilesAreKnown, ManifestIsKnown, BaselineIsKnown, IsolationIsKnown,
            CheckIsKnown, ProvenanceIsKnown, GivenIsKnown, TestsArtifact, Present
<1>1. CASE ResolveHelper
    <2>1. job' = job /\ pc = "helper" /\ pc' = "workspace" /\ policy' = policy
        BY <1>1 DEF ResolveHelper
    <2> QED
        BY <1>1, <2>1, ResolvedDisk, TheJobStays
<1>2. CASE StartWorkspace
    BY <1>2, TheJobStays DEF StartWorkspace
<1>3. CASE BuildBundle
    <2>1. /\ job' = job /\ pc = "bundle" /\ pc' = "files"
          /\ UNCHANGED <<frozen, helper, policy, disk>>
        BY <1>3 DEF BuildBundle
    <2>2. \A l \in Layers : bundle'[l] = ArtifactOf(l)
        BY <1>3 DEF BuildBundle
    <2>3. BundleIsKnown'
        BY <2>1, <2>2, ArtifactsAre, TheJobStays
    <2> QED
        BY <2>1, <2>3, TheJobStays
<1>4. CASE WriteFiles
    <2>1. /\ job' = job /\ pc = "files" /\ pc' = "manifest"
          /\ UNCHANGED <<helper, bundle, policy, baselined, given>>
          /\ disk' = [disk EXCEPT !.support = FilesWritten(Layers)]
        BY <1>4 DEF WriteFiles
    <2>2. /\ disk'.support = FilesWritten(Layers)
          /\ disk'.mount = disk.mount /\ disk'.artifact = disk.artifact /\ disk'.visible = disk.visible
        BY <2>1 DEF TypeOK, RunDirectories
    <2>3. FilesAreKnown'
        BY <2>1, <2>2 DEF FilesWritten
    <2> QED
        BY <2>1, <2>2, <2>3, TheJobStays
<1>5. CASE WriteManifest
    <2>1. /\ job' = job /\ pc = "manifest" /\ pc' = "baseline"
          /\ UNCHANGED <<helper, bundle, policy, baselined, given>>
          /\ disk' = [disk EXCEPT !.manifest = [file |-> "whole", bundle |-> bundle]]
        BY <1>5 DEF WriteManifest
    <2>2. /\ disk'.manifest = [file |-> "whole", bundle |-> bundle]
          /\ disk'.mount = disk.mount /\ disk'.artifact = disk.artifact /\ disk'.visible = disk.visible
          /\ disk'.support = disk.support
        BY <2>1 DEF TypeOK, RunDirectories
    <2> QED
        BY <2>1, <2>2, TheJobStays
<1>6. CASE TakeBaseline
    <2>1. /\ job' = job /\ pc = "baseline" /\ pc' = "isolation"
          /\ UNCHANGED <<helper, bundle, policy, given, disk>>
          /\ baselined' = ("gates" \in On)
        BY <1>6 DEF TakeBaseline
    <2> QED
        BY <2>1, TheJobStays
<1>7. CASE ApplyIsolation
    <2>1. /\ job' = job /\ pc = "isolation" /\ pc' = "check"
          /\ UNCHANGED <<helper, bundle, baselined, given>>
          /\ policy' = IF Isolated /\ ~UseContainer THEN job.sandbox ELSE policy
        BY <1>7 DEF ApplyIsolation
    <2>2. disk' = IF Isolated
                  THEN [disk EXCEPT !.visible =
                           [file |-> "whole", backend |-> BackendRecorded,
                            network |-> ~UseContainer /\ job.sandbox = "open"]]
                  ELSE disk
        BY <1>7 DEF ApplyIsolation
    <2>3. /\ Isolated => disk'.visible = [file |-> "whole", backend |-> BackendRecorded,
                                          network |-> ~UseContainer /\ job.sandbox = "open"]
          /\ ~Isolated => disk'.visible = disk.visible
          /\ disk'.mount = disk.mount /\ disk'.artifact = disk.artifact /\ disk'.manifest = disk.manifest
          /\ disk'.support = disk.support
        BY <2>2 DEF TypeOK, RunDirectories
    <2> QED
        BY <2>1, <2>3, TheJobStays
<1>8. CASE WriteManipulationCheck
    <2>1. /\ job' = job /\ pc = "check" /\ pc' = "provenance"
          /\ UNCHANGED <<helper, bundle, policy, baselined, given>>
        BY <1>8 DEF WriteManipulationCheck
    <2>2. /\ disk'.check.file = "whole" /\ disk'.check.layers = {l \in Layers : Present(l)}
          /\ disk'.check.bundle = bundle /\ disk'.check.network = NetworkClaimed
          /\ disk'.mount = disk.mount /\ disk'.artifact = disk.artifact /\ disk'.manifest = disk.manifest
          /\ disk'.support = disk.support /\ disk'.visible = disk.visible
        BY <1>8 DEF WriteManipulationCheck, TypeOK, RunDirectories
    <2> QED
        BY <2>1, <2>2, TheJobStays
<1>9. CASE WriteProvenance
    <2>1. /\ job' = job /\ pc = "provenance" /\ pc' = "prompt"
          /\ UNCHANGED <<helper, bundle, policy, baselined, given>>
        BY <1>9 DEF WriteProvenance
    <2>2. /\ disk'.provenance.file = "whole"
          /\ disk'.provenance.helper = IF UseContainer THEN helper.text ELSE "none"
          /\ disk'.mount = disk.mount /\ disk'.artifact = disk.artifact /\ disk'.manifest = disk.manifest
          /\ disk'.support = disk.support /\ disk'.visible = disk.visible
          /\ disk'.check = disk.check
        BY <1>9 DEF WriteProvenance, ProvenanceOf, TypeOK, RunDirectories
    <2> QED
        BY <2>1, <2>2, TheJobStays
<1>10. CASE StartAgent
    <2>1. /\ job' = job /\ pc = "prompt" /\ pc' = "agent"
          /\ UNCHANGED <<helper, bundle, policy, baselined, disk>>
          /\ \A l \in Layers : given'[l] = GivenOf(l)
        BY <1>10 DEF StartAgent
    <2>2. \A l \in Layers : GivenOf(l)' = GivenOf(l)
        BY <2>1, GivenStays
    <2> QED
        BY <2>1, <2>2, TheJobStays
<1>11. CASE StageFails \/ Kill
    <2>1. job' = job /\ pc' = "failed"
        BY <1>11 DEF StageFails, Kill
    <2>2. ~Isolated => disk'.visible.file = "none"
        BY <1>11, CutOffIsolation DEF StageFails, Kill
    <2> QED
        BY <2>1, <2>2, TheJobStays
<1>12. CASE Retry
    <2>1. job' = job /\ pc' = "helper" /\ policy' = "none" /\ disk' = disk
        BY <1>12 DEF Retry, Forgotten
    <2> QED
        BY <2>1, TheJobStays
<1>13. CASE FreezeOpen \/ FreezeWrite \/ FreezeKilled \/ UNCHANGED vars
    <2>1. /\ job' = job /\ pc' = pc /\ bundle' = bundle
          /\ UNCHANGED <<helper, policy, baselined, given, disk>>
        BY <1>13 DEF FreezeOpen, FreezeWrite, FreezeKilled, vars
    <2>2. \A l \in Layers : GivenOf(l)' = GivenOf(l)
        BY <2>1, GivenStays
    <2> QED
        BY <2>1, <2>2, TheJobStays
<1> QED
    BY <1>1, <1>2, <1>3, <1>4, <1>5, <1>6, <1>7, <1>8, <1>9, <1>10, <1>11, <1>12, <1>13
    DEF Next

LEMMA EverythingIsKnown == Spec => [](TypeOK /\ Known)
    BY TypeCorrect, KnownInit, KnownStep, PTL DEF Spec

-----------------------------------------------------------------------------
(* The properties.                                                         *)

LEMMA AllIsPast ==
    ASSUME pc = "agent"
    PROVE  /\ pc \in PastHelper /\ pc \in PastBundle /\ pc \in PastFiles /\ pc \in PastManifest
           /\ pc \in PastBaseline /\ pc \in PastIsolation /\ pc \in PastCheck
           /\ pc \in PastProvenance
    BY DEF PastHelper, PastBundle, PastFiles, PastManifest, PastBaseline, PastIsolation,
       PastCheck, PastProvenance

\* What the agent gets of each layer.
LEMMA WhatIsGiven ==
    ASSUME TypeOK, Known, pc = "agent", NEW l \in Layers
    PROVE  /\ l \notin On => given[l] = "none" /\ ~Present(l)
           /\ l \in On /\ l # "tests" => given[l] # "none" /\ Present(l)
           /\ l \in On /\ l = "tests" /\ helper.class = "confirmatory" =>
                  given[l] = helper.text /\ Present(l) /\ helper # NoHelper
                  /\ given[l] # "none" /\ bundle[l].text = given[l]
           /\ l \in On /\ l = "tests" /\ helper.class # "confirmatory" =>
                  given[l] = "none" /\ ~Present(l)
           /\ l \in On /\ l \in {"context", "memory", "harness"} => given[l] = bundle[l].text
<1>1. given[l] = GivenOf(l)
    BY DEF Known, GivenIsKnown
<1>2. CASE l \notin On
    BY <1>1, <1>2, AllIsPast DEF GivenOf, Known, BundleIsKnown, Off, Artifact, Present
<1>3. CASE l \in On /\ l = "tests"
    <2>1. bundle[l] = TestsArtifact
        BY <1>3, AllIsPast DEF Known, BundleIsKnown
    <2>2. helper = NoHelper \/ helper.text # "none"
        BY AllIsPast DEF Known, HelperIsKnown
    <2>3. CASE helper.class = "confirmatory"
        <3>1. helper # NoHelper
            BY <2>3 DEF NoHelper
        <3>2. Present(l) /\ bundle[l].text = helper.text
            BY <1>3, <2>1, <2>3 DEF TestsArtifact, Artifact, Present
        <3> QED
            BY <1>1, <1>3, <2>2, <2>3, <3>1, <3>2 DEF GivenOf
    <2>4. CASE helper.class # "confirmatory"
        <3>1. ~Present(l)
            BY <1>3, <2>1, <2>4 DEF TestsArtifact, Artifact, Present
        <3> QED
            BY <1>1, <1>3, <2>4, <3>1 DEF GivenOf
    <2> QED
        BY <1>3, <2>3, <2>4
<1>4. CASE l \in On /\ l # "tests"
    <2>1. Present(l) /\ bundle[l].text # "none" /\ (l = "harness" => bundle[l].text = "rules")
        BY <1>4, AllIsPast DEF Known, BundleIsKnown
    <2>2. CASE l \in {"context", "memory"}
        BY <1>1, <1>4, <2>1, <2>2 DEF GivenOf
    <2>3. CASE l = "gates"
        BY <1>1, <1>4, <2>1, <2>3 DEF GivenOf
    <2>4. CASE l = "harness"
        BY <1>1, <1>4, <2>1, <2>4 DEF GivenOf
    <2> QED
        BY <1>4, <2>1, <2>2, <2>3, <2>4, LayersAre
<1> QED
    BY <1>2, <1>3, <1>4

\* The helper of this attempt is the one in the mounted directory.
LEMMA HelperIsMounted ==
    ASSUME TypeOK, Known, pc = "agent"
    PROVE  Mounted = IF UseContainer THEN helper.text ELSE "none"
    BY AllIsPast DEF Known, HelperIsKnown, Mounted, NoHelper

\* The agent gets its condition and nothing else.
THEOREM TreatmentIsRight == Spec => []TreatmentIsTheConditions
<1>1. TypeOK /\ Known => TreatmentIsTheConditions
    <2> SUFFICES ASSUME TypeOK, Known, pc = "agent", NEW l \in Layers
                 PROVE  /\ l \notin On => given[l] = "none"
                        /\ l \in On => \/ given[l] # "none"
                                       \/ l = "tests" /\ helper.class # "confirmatory"
                        /\ given.tests # "none" =>
                              /\ helper.class = "confirmatory" /\ given.tests = helper.text
                              /\ UseContainer => Mounted = given.tests
                        /\ given.gates # "none" => baselined
        BY DEF TreatmentIsTheConditions, AgentRuns
    <2>1. given["tests"] # "none" => /\ helper.class = "confirmatory"
                                     /\ given["tests"] = helper.text
        BY WhatIsGiven, LayersAre
    <2>2. given["gates"] # "none" => baselined
        BY WhatIsGiven, LayersAre, AllIsPast DEF Known, BaselineIsKnown
    <2> QED
        BY <2>1, <2>2, WhatIsGiven, HelperIsMounted
<1> QED
    BY <1>1, EverythingIsKnown, PTL

\* The records of the run directory say what the agent was given.
THEOREM RecordsAreTrue == Spec => []RecordsTellTheTreatment
<1>1. TypeOK /\ Known => RecordsTellTheTreatment
    <2> SUFFICES ASSUME TypeOK, Known, pc = "agent" PROVE RecordsTellTheTreatment
        BY DEF RecordsTellTheTreatment, AgentRuns
    <2>1. disk.manifest = [file |-> "whole", bundle |-> bundle]
        BY AllIsPast DEF Known, ManifestIsKnown
    <2>2. disk.check.file = "whole" /\ disk.check.bundle = disk.manifest.bundle
        BY <2>1, AllIsPast DEF Known, CheckIsKnown
    <2>3. disk.check.layers = {l \in Layers : given[l] # "none"}
        <3>1. disk.check.layers = {l \in Layers : Present(l)}
            BY AllIsPast DEF Known, CheckIsKnown
        <3>2. \A l \in Layers : Present(l) <=> given[l] # "none"
            BY WhatIsGiven
        <3> QED
            BY <3>1, <3>2
    <2>4. ASSUME NEW l \in Layers \ {"gates"}, given[l] \notin {"none", "empty"}
          PROVE  disk.support[l] = given[l]
        <3>1. Present(l) /\ bundle[l].text = given[l]
            BY <2>4, WhatIsGiven, LayersAre
        <3> QED
            BY <2>4, <3>1, AllIsPast DEF Known, FilesAreKnown
    <2>5. disk.provenance.file = "whole" /\ disk.provenance.helper = Mounted
        BY HelperIsMounted, AllIsPast DEF Known, ProvenanceIsKnown
    <2>6. given["tests"] # "none" => disk.artifact = given["tests"]
        <3> SUFFICES ASSUME given["tests"] # "none" PROVE disk.artifact = given["tests"]
            OBVIOUS
        <3>1. "tests" \in Layers
            BY LayersAre
        <3>2. given["tests"] = helper.text /\ helper # NoHelper
            BY <3>1, WhatIsGiven
        <3> QED
            BY <3>2, AllIsPast DEF Known, HelperIsKnown
    <2> QED
        BY <2>1, <2>2, <2>3, <2>4, <2>5, <2>6 DEF RecordsTellTheTreatment
<1> QED
    BY <1>1, EverythingIsKnown, PTL

\* An agent that can reach the network is recorded as one, and one that cannot too.
THEOREM NetworkIsRecorded == Spec => []OpenNetworkIsRecorded
<1>1. TypeOK /\ Known => OpenNetworkIsRecorded
    <2> SUFFICES ASSUME TypeOK, Known, pc = "agent" PROVE OpenNetworkIsRecorded
        BY DEF OpenNetworkIsRecorded, AgentRuns
    <2>1. /\ disk.check.network = NetworkClaimed
          /\ policy = IF Isolated /\ ~UseContainer THEN job.sandbox ELSE "none"
          /\ ~Isolated => disk.visible.file = "none"
          /\ Isolated => disk.visible = [file |-> "whole", backend |-> BackendRecorded,
                                         network |-> ~UseContainer /\ job.sandbox = "open"]
        BY AllIsPast DEF Known, CheckIsKnown, IsolationIsKnown
    <2>2. job.sandbox \in {"none", "confirmatory", "open"}
          /\ job.backend \in {"bwrap", "unshare", "absent"}
        BY DEF TypeOK, Job, Sandboxes, Backend
    <2>3. CASE ~Isolated
        <3>1. ~UseContainer /\ job.sandbox = "none" /\ policy = "none"
            BY <2>1, <2>3 DEF Isolated
        <3>2. NetworkOpen
            BY <3>1 DEF NetworkOpen
        <3>3. disk.check.network = "unknown"
            BY <2>1, <3>1 DEF NetworkClaimed
        <3> QED
            BY <2>1, <2>3, <3>2, <3>3 DEF OpenNetworkIsRecorded
    <2>4. CASE Isolated
        <3>1. /\ disk.visible.file = "whole" /\ disk.visible.backend = BackendRecorded
              /\ disk.visible.network = (~UseContainer /\ job.sandbox = "open")
            BY <2>1, <2>4
        <3>2. CASE UseContainer
            <4>1. BackendRecorded = "container" /\ NetworkClaimed = "disabled" /\ ~NetworkOpen
                BY <3>2 DEF BackendRecorded, NetworkClaimed, NetworkOpen
            <4> QED
                BY <2>1, <3>1, <3>2, <4>1 DEF OpenNetworkIsRecorded
        <3>3. CASE ~UseContainer /\ (job.sandbox = "open" \/ job.backend = "absent")
            <4>1. policy = job.sandbox /\ job.sandbox # "none"
                BY <2>1, <2>4, <3>3 DEF Isolated
            <4>2. BackendRecorded = "none" /\ NetworkOpen
                BY <3>3, <4>1 DEF BackendRecorded, NetworkOpen
            <4> QED
                BY <3>1, <4>2 DEF OpenNetworkIsRecorded
        <3>4. CASE ~UseContainer /\ job.sandbox # "open" /\ job.backend # "absent"
            <4>1. policy = "confirmatory" /\ job.sandbox = "confirmatory"
                BY <2>1, <2>2, <2>4, <3>4 DEF Isolated
            <4>2. /\ BackendRecorded = job.backend /\ ~NetworkOpen
                  /\ NetworkClaimed = "disabled"
                BY <3>4, <4>1 DEF BackendRecorded, NetworkOpen, NetworkClaimed
            <4> QED
                BY <2>1, <2>2, <3>1, <3>4, <4>2 DEF OpenNetworkIsRecorded
        <3> QED
            BY <3>2, <3>3, <3>4
    <2> QED
        BY <2>3, <2>4
<1> QED
    BY <1>1, EverythingIsKnown, PTL

-----------------------------------------------------------------------------
(* The context pack.                                                       *)

\* There is no pack, or it was built for the job.
PackIsOfJob == pack = NoPack \/ pack \in ContextPacks

LEMMA PackStays ==
    ASSUME PackIsOfJob, [Next]_vars
    PROVE  PackIsOfJob'
<1>1. job' = job
    BY DEF Next, ResolveHelper, StartWorkspace, BuildBundle, WriteFiles, WriteManifest,
       TakeBaseline, ApplyIsolation, WriteManipulationCheck, WriteProvenance, StartAgent,
       StageFails, Kill, Retry, FreezeOpen, FreezeWrite, FreezeKilled, Stage, vars
<1>2. pack' = pack \/ pack' = NoPack \/ pack' \in ContextPacks
    BY DEF Next, ResolveHelper, StartWorkspace, BuildBundle, WriteFiles, WriteManifest,
       TakeBaseline, ApplyIsolation, WriteManipulationCheck, WriteProvenance, StartAgent,
       StageFails, Kill, Retry, FreezeOpen, FreezeWrite, FreezeKilled, Forgotten, running,
       vars
<1>3. ContextPacks' = ContextPacks /\ NoPack' = NoPack
    BY <1>1 DEF ContextPacks, NoPack
<1> QED
    BY <1>2, <1>3 DEF PackIsOfJob

\* Every pack an agent is given is bounded and ranked, whatever the repository
\* and whatever the bounds: the blocks are distinct, no more than the section
\* allows, and no file that could have been a block scores better than one that is.
THEOREM ContextsAreRanked == Spec => []ContextIsRankedAndBounded
<1>1. Init => PackIsOfJob
    BY DEF Init, PackIsOfJob
<1>2. TypeOK /\ PackIsOfJob => ContextIsRankedAndBounded
    <2> SUFFICES ASSUME TypeOK, PackIsOfJob, pack.kind \in {"v2", "random"}
                 PROVE  ContextIsRankedAndBounded
        BY DEF ContextIsRankedAndBounded
    <2> DEFINE files == job.files
               open  == IF Budget + 1 > Header THEN Budget + 1 ELSE Header
    <2>1. files \in Seq(File) /\ job.terms \in BOOLEAN
        BY DEF TypeOK, Job
    <2>2. open = Open
        BY DEF Open
    <2>3. pack \in ContextPacks
        BY DEF PackIsOfJob, NoPack, Pack
    <2>4. CASE job.condition = "C1_random"
        <3>1. PICK o \in SetToSeqs(DOMAIN files) : pack = BuildRandomContextPack(files, o)
            BY <2>3, <2>4 DEF ContextPacks
        <3>2. /\ pack.kind = "random" /\ IsInjective(pack.blocks)
              /\ pack.length <= Open + 1 + Len(pack.blocks) + 0
            BY <2>1, <3>1, RandomPackIs
        <3> HIDE DEF open
        <3>3. pack.length <= open + 1 + Len(pack.blocks) +
                  (IF pack.kind = "v2" THEN 2 * (Heading + 1) ELSE 0)
            BY <2>2, <3>2
        <3> QED
            BY <3>2, <3>3 DEF ContextIsRankedAndBounded, open
    <2>5. CASE job.condition # "C1_random"
        <3>1. pack = BuildContextPackV2(files, job.terms)
            BY <2>3, <2>5 DEF ContextPacks
        <3>2. job.terms = TRUE
            <4>1. SUFFICES ASSUME ~job.terms PROVE FALSE
                BY <2>1
            <4>2. pack.kind = "v1"
                BY <3>1, <4>1 DEF BuildContextPackV2, BuildContextPack, Pack
            <4> QED
                BY <4>2
        <3>3. pack = BuildContextPackV2(files, TRUE)
            BY <3>1, <3>2
        <3>4. /\ pack.kind = "v2" /\ IsInjective(pack.blocks)
              /\ pack.length <= Open + 1 + Len(pack.blocks) + 2 * (Heading + 1)
              /\ Cardinality({f \in Blocks : ~files[f].test}) <= TopK
              /\ Cardinality({f \in Blocks : files[f].test}) <= TopTests
              /\ \A f \in Blocks :
                 \A g \in {x \in CandidateFiles(files) : files[x].size > 0} \ Blocks :
                     files[f].test = files[g].test => Score(files[f]) >= Score(files[g])
            BY <2>1, <3>3, V2PackIs DEF Blocks
        <3> HIDE DEF open
        <3>5. pack.length <= open + 1 + Len(pack.blocks) +
                  (IF pack.kind = "v2" THEN 2 * (Heading + 1) ELSE 0)
            BY <2>2, <3>4
        <3> QED
            BY <3>4, <3>5 DEF ContextIsRankedAndBounded, open
    <2> QED
        BY <2>4, <2>5
<1> QED
    BY <1>1, <1>2, PackStays, TypeCorrect, PTL DEF Spec
=============================================================================
