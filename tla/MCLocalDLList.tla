---------------------------- MODULE MCLocalDLList ----------------------------
EXTENDS LocalDLList

CONSTANTS h1, h2, e1, e2, e3, e4

MCHeads == {h1, h2}
MCElems == {e1, e2, e3, e4}
=============================================================================
