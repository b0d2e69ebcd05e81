----------------------------- MODULE RunDirectory ------------------------------
(*****************************************************************************)
(* The artifacts of one run on disk, as runner/run_dir.py writes them and as *)
(* the scheduler, the quality card and the analysis read them back.          *)
(*                                                                           *)
(* A verdict or a harness report is identified by the patch it judges.  fate *)
(* is history: how the attempt that wrote the quality card ended.            *)
(*****************************************************************************)
EXTENDS Naturals

CONSTANT Patches  \* the patches an agent can produce

Empty == "empty patch"
NoFile == "no file"

ASSUME PatchesAssumption == {Empty, NoFile} \cap Patches = {}

Artifact == Patches \cup {Empty, NoFile}

Disk == [spec   : BOOLEAN,   \* run_spec.json is there
         torn   : BOOLEAN,   \* a line of transcript.jsonl/commands.jsonl was cut off
         logged : 0..2,      \* attempts with lines in the streams (2: several)
         status : BOOLEAN,   \* integrity/status.json says infrastructure_failure
         patch  : Artifact,  \* final.patch
         report : Artifact,  \* the harness report under docker_eval/
         eval   : Artifact,  \* eval_result.json
         card   : {"none", "torn", "whole"},  \* quality_card.json
         fate   : {"none", "valid", "infra"}]

EmptyDisk == [spec |-> FALSE, torn |-> FALSE, logged |-> 0, status |-> FALSE,
              patch |-> NoFile, report |-> NoFile, eval |-> NoFile,
              card |-> "none", fate |-> "none"]

\* RunDirectory.create, write task.json and run_spec.json: an existing directory
\* is taken over as it is, nothing in it is cleared.
Created(d) == [d EXCEPT !.spec = TRUE]

\* append_transcript, append_command: an attempt adds its lines to the streams.
Appended(d) == [d EXCEPT !.logged = IF @ = 2 THEN 2 ELSE @ + 1]

\* A process that dies between two lines, or within one.
AppendCut(d, torn) == [Appended(d) EXCEPT !.torn = @ \/ torn]

\* Mutant: status.json is not written for a run that failed before its agent.
StatusNotWritten(d) == d

StatusWritten(d) == [d EXCEPT !.status = TRUE]

\* Mutant: final.patch is only created, never replaced.
PatchKeptIfThere(d, p) == [d EXCEPT !.patch = IF @ = NoFile THEN p ELSE @]

PatchWritten(d, p) == [d EXCEPT !.patch = p]

EvalWritten(d, p) == [d EXCEPT !.eval = p]

\* write_text opens the file (it exists, empty) and then writes it.
CardOpened(d) == [d EXCEPT !.card = "torn"]

CardWritten(d, fate) == [d EXCEPT !.card = "whole", !.fate = fate]

\* _read_jsonl parses every line of the streams: build_card succeeds only if
\* none is cut off.
StreamsParse(d) == ~d.torn

\* Mutant: a run marked as infrastructure failure is run again on resume.
IsCompleteUnlessInfra(d) == d.card # "none" /\ ~d.status

\* _is_complete: quality_card.json exists, whatever is in it.
IsComplete(d) == d.card # "none"

\* load_runs takes a run: card, verdict and spec exist and parse, and no status
\* file marks it as an infrastructure failure.
Loaded(d) ==
    /\ d.card = "whole"
    /\ d.eval # NoFile
    /\ d.spec
    /\ ~d.status

=============================================================================
