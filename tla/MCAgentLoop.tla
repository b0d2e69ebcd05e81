------------------------------ MODULE MCAgentLoop ------------------------------
(*****************************************************************************)
(* Instances of AgentLoop for TLC.                                           *)
(*****************************************************************************)
EXTENDS AgentLoop

C0 == [harness |-> FALSE, gates |-> FALSE]
C3 == [harness |-> FALSE, gates |-> TRUE]
C4 == [harness |-> TRUE, gates |-> FALSE]
C6 == [harness |-> TRUE, gates |-> TRUE]

AllConditions == {C0, C3, C4, C6}
OnlyC4 == {C4}
OnlyC6 == {C6}

AllCommands == {"read", "edit", "python", "add", "commit"}
HostCommands == {"read", "edit", "add"}
PlainCommands == {"read", "edit"}
CommitCommands == {"edit", "add", "commit"}
StagingCommands == {"edit", "add"}
ReadCommands == {"read"}

\* The rules of the base commit hide "new.log"; without their file nothing is
\* hidden.
LogsHidden == [c \in Content |-> IF c = "base" THEN {"new.log"} \cap File ELSE {}]

\* On the host the agent may also add a rule that covers a tracked file.
HostRules ==
    [c \in Content |-> CASE c = "base" -> {"new.log"}
                         [] c = "good" -> {"new.log", "src.py"}
                         [] OTHER -> {}]

ContainerEdits == {<<"src.py", "good">>, <<"src.py", "bad">>, <<"new.log", "good">>,
                   <<".gitignore", "absent">>}
HostEdits == {<<"src.py", "bad">>, <<"src.py", "absent">>, <<"new.log", "good">>,
              <<".gitignore", "good">>}
SourceEdits == {<<"src.py", "good">>, <<"src.py", "bad">>, <<"src.py", "absent">>}

=============================================================================
