---------------------------- MODULE MCHttpServer ----------------------------
(* Small instances of HttpServer: symmetric calls of POST.                 *)
EXTENDS HttpServer, TLC

Symmetry == Permutations(Posts)

=============================================================================
