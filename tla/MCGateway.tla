------------------------------ MODULE MCGateway ------------------------------
EXTENDS Gateway, TLC

Symmetry == Permutations(Servers) \cup Permutations(Identities) \cup Permutations(Slugs)
=============================================================================
