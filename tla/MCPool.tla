------------------------------- MODULE MCPool -------------------------------
(* Model-checking instance of Pool: two tasks, two foreign threads.        *)
EXTENDS Pool

CONSTANTS t1, t2, f1, f2

MCTasks == {t1, t2}
MCForeign == {f1, f2}
=============================================================================
