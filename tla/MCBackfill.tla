----------------------------- MODULE MCBackfill -----------------------------
(* A node with two branches above its first block, one of them so long     *)
(* that a gap fits between what it stores live and what it fetches later.  *)
EXTENDS Backfill

MCBlocks == {"b1", "b2", "b3", "b4", "c2"}
MCParentOf == [b1 |-> "none", b2 |-> "b1", b3 |-> "b2", b4 |-> "b3", c2 |-> "b1"]
MCHeightOf == [b1 |-> 1, b2 |-> 2, b3 |-> 3, b4 |-> 4, c2 |-> 2]
MCMatched == [b \in MCBlocks |-> <<>>]
=============================================================================
