------------------------------ MODULE MCScheduler -------------------------------
(* Instances of Scheduler for TLC. *)
EXTENDS Scheduler, TLC

CONSTANTS c1, c2, p1, p2

\* Every cell has a directory of its own, as distinct keys have.
OwnDir == [c \in Cells |-> c]

\* A schedule in which a seed is named twice: equal keys, equal run ids.
SharedDir == [c \in Cells |-> c1]

AnyHelper == BOOLEAN
NoHelper == {FALSE}

\* Cells are treated alike, and so are patches.
CellsAndPatches == Permutations({c1, c2}) \cup Permutations({p1, p2})

=============================================================================
