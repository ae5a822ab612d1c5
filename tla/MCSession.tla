----------------------------- MODULE MCSession -----------------------------
EXTENDS Session, TLC

Symmetry == Permutations(Sockets) \cup Permutations(Characters)
=============================================================================
