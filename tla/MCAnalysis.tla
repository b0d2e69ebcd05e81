----------------------------- MODULE MCAnalysis -----------------------------
(* Instances of Analysis for TLC. *)
EXTENDS Analysis, TLC, Combinatorics

CONSTANTS m1, m2
\* Models are treated alike.
Models == Permutations({m1, m2})

\* The outcomes with at most k heads are counted by the binomials of _binom_cdf.
ASSUME TailIsBinomial ==
    \A n \in 0 .. 6 : \A k \in 0 .. n :
        Cardinality(AtMost(k, n)) =
            FoldLeft(LAMBDA s, i : s + choose(n, i - 1), 0, [i \in 1 .. k + 1 |-> i])

N(p, f, s) == [pass |-> p, fail |-> f, skip |-> s]
CellOf(t, c, s) == [task |-> t, condition |-> c, seed |-> s]

First == CellOf("t1", "C1", 0)

\* Two tasks under two conditions, and one of the runs again with another seed.
TwoByTwo == {CellOf(t, c, 0) : t \in {"t1", "t2"}, c \in {"C0", "C1"}}
Seeded == {CellOf("t1", c, 0) : c \in {"C0", "C1"}} \cup {CellOf("t1", "C0", 1)}

\* Tests that pass, fail, are skipped, do not exist, or have several cases.
Nodes == {N(1, 0, 0), N(0, 1, 0), N(0, 0, 1), N(0, 0, 0), N(1, 1, 0)}
Green == <<N(1, 0, 0)>>

LocalOf(a, b, f, p) == [by |-> "local", applies |-> a, builds |-> b, f2p |-> f, p2p |-> p]
ReportOf(d, s, a, r) == [by |-> "docker", detailed |-> d, summary |-> s, applied |-> a,
                         resolved |-> r, f2p |-> N(1, 0, 0), p2p |-> N(1, 0, 0)]

Rich == {LocalOf(TRUE, TRUE, f, p) :
            f \in {<<x>> : x \in Nodes} \cup {<<N(1, 1, 0), N(1, 0, 0)>>, <<>>},
            p \in {<<>>, <<N(0, 1, 0)>>}}
        \cup {LocalOf(a, ~a, Green, <<>>) : a \in BOOLEAN}
        \cup {ReportOf(TRUE, TRUE, a, a) : a \in BOOLEAN}
        \cup {ReportOf(FALSE, s, FALSE, TRUE) : s \in BOOLEAN}
Poor == {LocalOf(TRUE, TRUE, Green, <<>>), ReportOf(TRUE, FALSE, TRUE, FALSE)}

\* One cell meets everything an evaluation may meet, two others two verdicts,
\* and the fourth is resolved.
Second == CellOf("t2", "C0", 0)
RichFirst == [c \in Cells |-> IF c = First THEN Rich
                              ELSE IF c = Second THEN {LocalOf(TRUE, TRUE, Green, <<>>)}
                              ELSE Poor]

Two == {"a.py", "b.py"}
PatchOf(a, b) == [p \in Two |-> IF p = "a.py" THEN a ELSE b]
FirstPatches == [c \in Cells |->
    IF c = First THEN {PatchOf("edited", "deleted"), PatchOf("edited", "edited")}
    ELSE {PatchOf("edited", "same")}]
Gold == [c \in Cells |-> PatchOf("edited", "same")]
=============================================================================
