---------------------------- MODULE MCLiveService ----------------------------
EXTENDS LiveService, TLC

UnitPrice == [i \in Intents |-> 1]
Symmetry == Permutations(Intents) \cup Permutations(BrokerIds)
=============================================================================
