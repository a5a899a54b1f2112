---------------------------- MODULE MCThreadPool ----------------------------
(* ThreadPool for TLC: the pool of the server, three workers and three     *)
(* loops.                                                                  *)
EXTENDS ThreadPool
=============================================================================
