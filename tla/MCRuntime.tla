------------------------------ MODULE MCRuntime ------------------------------
(* Model-checking instance of Runtime: two foreign threads.                *)
EXTENDS Runtime

CONSTANTS f1, f2

MCForeign == {f1, f2}
=============================================================================
