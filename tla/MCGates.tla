------------------------------ MODULE MCGates ------------------------------
(***************************************************************************)
(* A repository with four modules and one test file.  Module 2 is used by  *)
(* 1; test 4 maps to 1 and covers it; module 3 has "test" in its name.     *)
(* Module 5 has a name that cannot be imported (my-tool.py); where it is   *)
(* there from the start, the image ships it untracked.  The cap of the     *)
(* import gate is 1, so that a second changed module is beyond it.         *)
(***************************************************************************)
EXTENDS Gates

MCModules == {1, 2, 3, 5}
MCTests == {4}
MCTestNamed == {3}
MCNamed == [m \in MCModules |-> IF m = 5 THEN -1 ELSE m]
MCUses == [m \in MCModules |-> IF m = 1 THEN {1, 2} ELSE {m}]
MCTestsFor == [m \in MCModules |-> IF m = 1 THEN {4} ELSE {}]
MCCovers == [t \in MCTests |-> {1}]

\* Base trees: one of the files 2, 4 and 5 is bad or missing, or none; 5 is
\* missing unless it is the one; ruff configured or flake8.
MCBase(f, c, r) ==
    [src  |-> [g \in 1 .. 5 |-> IF g = f THEN c ELSE IF g = 5 THEN "absent" ELSE "good"],
     conf |-> [x \in {"ruff", "flake8", "mypy", "bandit"} |->
                  IF x \in {"mypy", r} THEN "valid" ELSE "none"],
     origin |-> [g \in 1 .. 5 |-> g]]
MCBases ==
    {MCBase(f, c, r) : f \in {2, 4}, r \in {"ruff", "flake8"},
        c \in {"good", "untidy", "untyped", "wrong", "unparsable", "absent"}}
    \cup {MCBase(5, c, "ruff") : c \in {"good", "unparsable"}}

\* The agent breaks and mends modules 1 and 2 and the test, writes module 5,
\* and moves modules over each other's places.
MCEdits ==
    ({1, 2} \X {"good", "untidy", "wrong", "unimportable", "unparsable", "absent"})
    \cup ({4} \X {"good", "wrong", "absent"})
    \cup {<<3, "unimportable">>, <<5, "good">>, <<5, "absent">>}
MCMoves == {<<3, 2>>, <<1, 2>>, <<2, 1>>, <<2, 5>>}
=============================================================================
