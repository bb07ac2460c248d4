---------------------------- MODULE MCFileLocks ----------------------------
(* Small instances of FileLocks for TLC.                                  *)
EXTENDS FileLocks, TLC

\* The sets of identities are interchangeable: no action or property singles
\* out one of their members.
Symmetry == Permutations(Threads) \cup Permutations(Paths)
              \cup Permutations(Objs) \cup Permutations(Tokens)
=============================================================================
