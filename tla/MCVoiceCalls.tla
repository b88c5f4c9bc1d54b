------------------------------ MODULE MCVoiceCalls -----------------------------
(* Model checking of voice calls: plain calls beside an avatar call. *)
EXTENDS VoiceCalls
CONSTANTS c1, c2
================================================================================
