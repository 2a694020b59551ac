---------------------------- MODULE MCHttpServer ----------------------------
EXTENDS HttpServer, TLC

CONSTANTS t1, t2, c1, c2, c3

(* Descriptors 0 and 1 listen, 2 and 3 can be served, 4 is behind the table. *)
MCListenFd == (t1 :> 0) @@ (t2 :> 1)
MCListener == (c1 :> t1) @@ (c2 :> t2) @@ (c3 :> t2)
MCBudget == (c1 :> 3) @@ (c2 :> 1) @@ (c3 :> 0)
=============================================================================
