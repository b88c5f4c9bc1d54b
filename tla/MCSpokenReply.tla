----------------------------- MODULE MCSpokenReply -----------------------------
(* Model checking of a spoken call: two or three short agent turns. *)
EXTENDS SpokenReply
================================================================================
