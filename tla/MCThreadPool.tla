---------------------------- MODULE MCThreadPool ----------------------------
(* Instances of ThreadPool for TLC: see MCThreadPool.cfg. *)
EXTENDS ThreadPool, TLC
=============================================================================
