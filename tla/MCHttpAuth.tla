----------------------------- MODULE MCHttpAuth -----------------------------
EXTENDS HttpAuth, TLC

CONSTANTS n1, n2, n3, n4

MCNonces == {n1, n2, n3, n4}
NonceSymmetry == Permutations(MCNonces)
=============================================================================
