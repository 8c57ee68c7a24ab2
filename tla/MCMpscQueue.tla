----------------------------- MODULE MCMpscQueue -----------------------------
(* Model-checking instance of MpscQueue: two elements, two producers.      *)
EXTENDS MpscQueue

CONSTANTS e1, e2, p1, p2

MCElems == {e1, e2}
MCProducers == {p1, p2}
=============================================================================
