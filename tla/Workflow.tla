------------------------------- MODULE Workflow --------------------------------
(*****************************************************************************)
(* What the C4 construct promises, without how the runner enforces it: an    *)
(* agent under an enforced workflow only moves forward, is never in a phase  *)
(* whose evidence is missing, delivers only from the last phase, and changes *)
(* nothing once it has delivered (the rules that support/harness.py lists in *)
(* its header).  AgentLoop is shown to implement this specification.         *)
(*****************************************************************************)
EXTENDS Harness

VARIABLES
    enforced,   \* the condition has the harness layer
    phase,      \* where the agent is in the workflow
    evidence,   \* the records it has produced
    delivered   \* it has submitted

wvars == <<enforced, phase, evidence, delivered>>

\* The evidence without which a phase may not be occupied.
Need(p) ==
    CASE p = "DISCOVER" -> {}
      [] p = "DIAGNOSE" -> {"localization"}
      [] p = "PATCH"    -> {"localization", "diagnosis"}
      [] p = "VALIDATE" -> {"localization", "diagnosis"}
      [] p = "SUBMIT"   -> RecordKind

WInit ==
    /\ enforced \in BOOLEAN
    /\ phase = "DISCOVER"
    /\ evidence = {}
    /\ delivered = FALSE

\* The agent produces evidence and possibly moves on.
Progress ==
    /\ ~delivered
    /\ evidence \subseteq evidence'
    /\ evidence' \subseteq RecordKind
    /\ phase' \in HarnessState
    /\ Index(phase) <= Index(phase')
    /\ Need(phase') \subseteq evidence'
    /\ UNCHANGED <<enforced, delivered>>

Deliver ==
    /\ ~delivered
    /\ enforced => phase = "SUBMIT"
    /\ delivered' = TRUE
    /\ UNCHANGED <<enforced, phase, evidence>>

WNext == Progress \/ Deliver

WSpec == WInit /\ [][WNext]_wvars

=============================================================================
