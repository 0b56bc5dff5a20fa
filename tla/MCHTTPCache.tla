---------------------------- MODULE MCHTTPCache ----------------------------
(* HTTPCache on small instances.  Threads, URLs and file names are         *)
(* interchangeable.                                                        *)
EXTENDS HTTPCache, TLC

Symmetry == Permutations(Threads) \cup Permutations(Urls) \cup Permutations(Names)
=============================================================================
