---------------------------- MODULE MCTreatment ----------------------------
(* Instances of Treatment for TLC. *)
EXTENDS Treatment

\* Source files that fit, do not fit, have no lines, or are not found.
Source == [hits : {1, 3}, found : {TRUE}, size : {4, 8}, test : {FALSE}]
             \cup [hits : {3}, found : {TRUE}, size : {0}, test : {FALSE}]
             \cup [hits : {0}, found : {FALSE}, size : {4}, test : {FALSE}]

\* A test the terms of which lie beyond what is read, and one that has many.
PoorTest == [hits |-> 0, found |-> TRUE, size |-> 4, test |-> TRUE]
RichTest == [hits |-> 5, found |-> TRUE, size |-> 4, test |-> TRUE]
OneRepo == <<[hits |-> 3, found |-> TRUE, size |-> 4, test |-> FALSE], RichTest>>

JobOf(c, e, t, i, s, g, b, m, f, q) ==
    [condition |-> c, evaluator |-> e, template |-> t, in_container |-> i,
     sandbox |-> s, client |-> g, backend |-> b, cache |-> m, files |-> f, terms |-> q]

\* Every condition in the container, and on the host with each sandbox and
\* backend; with a local repository and without one, with and without a
\* generator; and what retrieval makes of many repositories.
AllJobs ==
    {JobOf(c, "docker", FALSE, TRUE, s, TRUE, "bwrap", m, OneRepo, TRUE) :
        c \in DOMAIN Enabled, s \in {"none", "confirmatory"}, m \in Frozen}
    \cup {JobOf(c, "docker", FALSE, FALSE, s, TRUE, b, "none", OneRepo, TRUE) :
        c \in DOMAIN Enabled, s \in Sandboxes, b \in Backend}
    \cup {JobOf(c, "auto", t, TRUE, "confirmatory", g, "unshare", "none", OneRepo, FALSE) :
        c \in DOMAIN Enabled, t \in BOOLEAN, g \in BOOLEAN}
    \cup {JobOf("C1_context", "local", TRUE, FALSE, "none", FALSE, "absent", "whole",
                <<f, PoorTest, g, RichTest, h>>, TRUE) :
        f \in Source, g \in Source, h \in Source}
    \cup {JobOf("C1_random", "local", TRUE, FALSE, "none", FALSE, "absent", "whole",
                <<f, g, h>>, TRUE) :
        f \in Source, g \in Source, h \in Source}

HostJobs == {j \in AllJobs : ~j.in_container}
=============================================================================
