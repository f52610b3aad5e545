---------------------------- MODULE MCHttpServer ----------------------------
(* The server with a few clients, descriptors and workers. *)
EXTENDS HttpServer, TLC

Symmetry == Permutations(Conns) \union Permutations(Fds) \union Permutations(Workers)
=============================================================================
