----------------------------- MODULE MCDatabase -----------------------------
(* The store on its own with the callers' operations in every order.       *)
EXTENDS Database

CONSTANTS MaxRows  \* no table hands out more _ids than this

ASSUME MaxRowsAssumption == MaxRows \in Nat

MCBlocks == {"b1", "b2a", "b2b"}
MCParentOf == [b \in MCBlocks |-> IF b = "b1" THEN "none" ELSE "b1"]
MCHeightOf == [b \in MCBlocks |-> IF b = "b1" THEN 1 ELSE 2]
MCMatched ==
    [b \in MCBlocks |->
        CASE b = "b1"  -> <<"mints">>
          [] b = "b2a" -> <<"swaps", "mints", "swaps">>
          [] b = "b2b" -> <<"swaps">>]

Bounded == \A t \in Tables : lastRowId'[t] <= MaxRows

MCNext ==
    \/ \E b \in Blocks : ApplyBlock(b) /\ Bounded
    \/ \E h \in Heights : RollbackFromHeight(h)
    \/ \E c \in Cutoffs : DeleteJournalBelow(c)

MCSpec == DatabaseInit /\ [][MCNext]_dbVars
=============================================================================
