---------------------------- MODULE MCRegistration ----------------------------
EXTENDS Registration, TLC

CONSTANTS r1, r2, r3, s1, s2, s3, s4, s5, s6

MCThreads == {r1, r2, r3}
MCSlots == {s1, s2, s3, s4, s5, s6}

Symmetry == Permutations(MCThreads) \cup Permutations(MCSlots)
=============================================================================
