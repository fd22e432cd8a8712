-------------------------- MODULE MCSubscriptions --------------------------
(* Two streams: the one of the blocks and the one of a table.              *)
EXTENDS Subscriptions

MCSubscribers == {"blocks", "swaps"}
MCTopicOf == [s \in MCSubscribers |-> IF s = "blocks" THEN "new_block" ELSE "swaps"]
=============================================================================
