-------------------------------- MODULE Harness --------------------------------
(*****************************************************************************)
(* The C4 workflow of support/harness.py: the states an agent walks through, *)
(* the record each state must leave behind, and the answer of                *)
(* HarnessStateMachine.request_transition.  Pure operators; the variables    *)
(* they are applied to belong to AgentLoop.                                  *)
(*****************************************************************************)
EXTENDS Integers

HarnessState == {"DISCOVER", "DIAGNOSE", "PATCH", "VALIDATE", "SUBMIT"}

RecordKind == {"localization", "diagnosis", "validation"}

\* ORDER.index(s): the place of a state in the workflow.
Index(s) ==
    CASE s = "DISCOVER" -> 0
      [] s = "DIAGNOSE" -> 1
      [] s = "PATCH"    -> 2
      [] s = "VALIDATE" -> 3
      [] s = "SUBMIT"   -> 4

EDIT_STATES == {"PATCH", "VALIDATE"}

CanEdit(s) == s \in EDIT_STATES

\* Mutant: any state from which the workflow is nearly done may submit.
CanSubmitFromValidate(s) == s \in {"VALIDATE", "SUBMIT"}

CanSubmit(s) == s = "SUBMIT"

\* The records _REQUIRED_RECORD_TO_LEAVE asks for on leaving s.
RequiredToLeave(s) ==
    CASE s = "DISCOVER" -> {"localization"}
      [] s = "DIAGNOSE" -> {"diagnosis"}
      [] s = "VALIDATE" -> {"validation"}
      [] OTHER          -> {}

\* Records needed on the way from s (included) to t (excluded).
RequiredBetween(s, t) ==
    UNION {RequiredToLeave(u) : u \in {v \in HarnessState : Index(s) <= Index(v) /\ Index(v) < Index(t)}}

\* Mutant: a jump is checked against the state it leaves only, not against the
\* states it skips.
RequestTransitionFirstOnly(s, target, recs) ==
    /\ target \in HarnessState
    /\ Index(s) < Index(target)
    /\ RequiredToLeave(s) \subseteq recs

\* Whether request_transition grants the move: the target must be a state, it
\* must lie ahead, and every state left behind must have its record.
RequestTransition(s, target, recs) ==
    /\ target \in HarnessState
    /\ Index(s) < Index(target)
    /\ RequiredBetween(s, target) \subseteq recs

=============================================================================
