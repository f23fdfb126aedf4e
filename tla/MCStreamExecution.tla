------------------------- MODULE MCStreamExecution -------------------------
(* Two credentials with up to two models each, one retry of the request    *)
(* and one of the handler, and two attempts to use them on.                *)
EXTENDS StreamExecution
=============================================================================
