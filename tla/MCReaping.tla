----------------------------- MODULE MCReaping -----------------------------
(* An instance of Reaping for TLC: a pipeline of two children with an       *)
(* internal process between them, which is deferred.  It is run in the      *)
(* foreground; once it is stopped it is one in the background, which is     *)
(* resumed or disowned.                                                     *)
EXTENDS Reaping, TLC
CONSTANTS first, ls, printf, cat
LongPipeline == first :> <<ls, printf, cat>>
=============================================================================
