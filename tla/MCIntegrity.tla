------------------------------ MODULE MCIntegrity -------------------------------
(* Instances of Integrity for TLC: a path of every kind the code tells apart.  *)
EXTENDS Integrity

PlainPaths == {"src.py", ".gitignore", "pkg/kept.pyc", "build/lib.py", "pkg/x.pyc",
               "local.cfg", ".se_support/helper_test.py"}
TrackedPaths == {"src.py", ".gitignore", "pkg/kept.pyc"}
IgnoredPaths == {"local.cfg"}
RulePaths == {".gitignore"}
MountPaths == {".se_support/helper_test.py"}
Caches == {"pkg/kept.pyc", "pkg/x.pyc"}

\* A tracked file that merely looks like a cache, a cache no pattern of the
\* extraction matches, and a file with a blank in its name.
OddPaths == {"src.py", ".coveragerc", ".coverage", "build/a b.py"}
OddTracked == {"src.py", ".coveragerc"}
LookLikeCaches == {".coveragerc", ".coverage"}
WithBlank == {"build/a b.py"}
None == {}

=============================================================================
