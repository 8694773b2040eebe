---------------------------- MODULE MCHttpServer ----------------------------
(* An instance of HttpServer for TLC. *)
EXTENDS HttpServer

\* A client that pipelines two requests, and two that connect and close.
MCRequests == [c1 |-> 2, c2 |-> 0, c3 |-> 0]
=============================================================================
