--------------------------- MODULE MCKeyExtraction ----------------------------
(* Two foreign hubs; hubs, and the node IDs that are free, are interchangeable. *)
EXTENDS KeyExtraction, TLC

CONSTANTS FreeIds, OwnId
MCIds == FreeIds \cup {OwnId}
MCTaken == {OwnId}
Symmetry == Permutations(Hubs) \cup Permutations(FreeIds)
=============================================================================
