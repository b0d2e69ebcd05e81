--------------------------- MODULE MCHelperPipeline ----------------------------
(* An instance of HelperPipeline for TLC: one candidate of every kind that the *)
(* selection and the classification tell apart.                               *)
EXTENDS HelperPipeline

\* "oracle" asserts what gold does not do, "renamed" imports what gold renames,
\* "copied" has the text of the official test, "invented" a message of its own,
\* "passing" does not reproduce, "early" imports what only gold adds and "broken"
\* cannot be collected.
Kinds == {"repro", "oracle", "renamed", "copied", "invented", "passing", "early", "broken"}

KindsOnBase ==
    [c \in Kinds |-> CASE c = "passing" -> "pass"
                      [] c \in {"early", "broken"} -> "error"
                      [] OTHER -> "fail"]

KindsOnGold ==
    [c \in Kinds |-> CASE c = "oracle" -> "fail"
                      [] c \in {"renamed", "broken"} -> "error"
                      [] OTHER -> "pass"]

KindsTraceable == Kinds \ {"invented"}
KindsForbidden == {"copied"}

AnyGold == {"none", "applies", "rejected"}

=============================================================================
