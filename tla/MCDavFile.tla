---------------------------- MODULE MCDavFile ----------------------------
(* Small instances of DavFile for TLC.                                    *)
EXTENDS DavFile, TLC

Symmetry == Permutations(Paths)
=============================================================================
