---------------------------- MODULE MCThreadPool ----------------------------
(* The pool with its bounds: a few threads and append() calls. *)
EXTENDS ThreadPool, TLC

ThreadSymmetry == Permutations(Producers) \union Permutations(Workers)
=============================================================================
