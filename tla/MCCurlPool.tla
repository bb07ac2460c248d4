---------------------------- MODULE MCCurlPool ----------------------------
(* Small instances of CurlPool for TLC.                                   *)
EXTENDS CurlPool, TLC

\* Addresses are interchangeable. Threads are too, but the fairness condition
\* and RequestsEnd name threads: with a temporal property only those identities
\* may be permuted that neither of them mentions.
Addresses == Permutations(Handles) \cup Permutations(Nodes)
=============================================================================
