---------------------------- MODULE MCAfsServer ----------------------------
\* Instances of AfsServer for TLC: the values are in the .cfg files.
EXTENDS AfsServer, TLC

\* Uploads are interchangeable, and so are paths.
Symmetry == Permutations(Put) \cup Permutations(Path)
============================================================================
