---------------------------- MODULE MCHeaderCache ---------------------------
(* Small instances of HeaderCache: the paths are interchangeable, and so are *)
(* the readers.                                                              *)
EXTENDS HeaderCache, TLC
Symmetry == Permutations(Paths) \cup Permutations(Readers)
=============================================================================
