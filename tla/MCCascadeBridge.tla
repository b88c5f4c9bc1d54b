---------------------------- MODULE MCCascadeBridge ----------------------------
(* Model checking of a cascade call: a caller who speaks a few phrases. *)
EXTENDS CascadeBridge
================================================================================
