----------------------------- MODULE MCDebounce -----------------------------
(* Instances of Debounce for TLC: see MCDebounce.cfg. *)
EXTENDS Debounce, TLC
=============================================================================
