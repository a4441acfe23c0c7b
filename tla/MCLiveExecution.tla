--------------------------- MODULE MCLiveExecution ---------------------------
(* Two workers over one ledger; two intents, each submitted once.          *)
EXTENDS LiveExecution, TLC

Symmetry == Permutations(Workers) \cup Permutations(Intents) \cup Permutations(BrokerIds)
=============================================================================
