--------------------------- MODULE MCProcessPool ---------------------------
(* The process pool alone, under fairness.                                 *)
EXTENDS ProcessPool
=============================================================================
