---------------------------- MODULE MCReactorTasks ----------------------------
EXTENDS ReactorTasks

CONSTANTS k1, k2, k3, c1, c2

MCTasks == {k1, k2, k3}
MCClients == {c1, c2}
\* One client's mio calls may fail; the other races it with calls that
\* succeed.
MCMioFails == {c1}
=============================================================================
