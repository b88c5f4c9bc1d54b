--------------------------- MODULE MCStreamBuffer ---------------------------
(* Instances of StreamBuffer for TLC. *)
EXTENDS StreamBuffer

CONSTANTS c1, c2

=============================================================================
