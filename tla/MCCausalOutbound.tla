-------------------------- MODULE MCCausalOutbound --------------------------
EXTENDS CausalOutbound, TLC

CONSTANTS A, B, C, a, b, c, r, s

Perms == Permutations(Op \ Bare)
=============================================================================
