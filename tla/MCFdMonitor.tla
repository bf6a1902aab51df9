---------------------------- MODULE MCFdMonitor ----------------------------
(* Instance of FdMonitor for TLC: see MCFdMonitor.cfg. *)
EXTENDS FdMonitor, TLC
=============================================================================
