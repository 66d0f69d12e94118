------------------------------- MODULE MCBnfs -------------------------------
(* Small instances of Bnfs: who works where, and how many contents.        *)
EXTENDS Bnfs, TLC

CONSTANTS c1, c2, t2

\* One process on each of two clients, or two processes on one.
Apart == [t \in Thread |-> t]
Together == [t \in Thread |-> c1]

Contents == 0..MaxWrites

Symmetry == Permutations(Client)
PathSymmetry == Symmetry \cup Permutations(Path)
=============================================================================
