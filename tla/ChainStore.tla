----------------------------- MODULE ChainStore -----------------------------
(***************************************************************************)
(* What the indexer promises its readers (storage/src/lib.rs): at every    *)
(* moment the store shows a chain of blocks, each linked to the one below, *)
(* together with the matched events of exactly these blocks.  The chain    *)
(* grows by a block on its tip, all of its events at once, and a reorg     *)
(* takes its upper blocks away with theirs.                                *)
(***************************************************************************)
EXTENDS BlockTree, Sequences

CONSTANTS Matched  \* the matched events of each block

VARIABLES chain,   \* the blocks shown
          shown    \* how often each event is shown

Events == UNION {{b} \X (1 .. Len(Matched[b])) : b \in Blocks}

EventsOf(S) == [e \in Events |-> IF e[1] \in S THEN 1 ELSE 0]

IsTip(b) == b \in chain /\ \A c \in chain : HeightOf[c] <= HeightOf[b]

Init ==
    /\ chain = {}
    /\ shown = EventsOf({})

Extend(b) ==
    /\ chain # {} => IsTip(ParentOf[b])
    /\ chain' = chain \cup {b}
    /\ shown' = EventsOf(chain')

Rewind(h) ==
    /\ chain' = {b \in chain : HeightOf[b] < h}
    /\ shown' = EventsOf(chain')

Next ==
    \/ \E b \in Blocks : Extend(b)
    \/ \E b \in Blocks : Rewind(HeightOf[b])

Spec == Init /\ [][Next]_<<chain, shown>>

(* Every block shown is an ancestor of every block shown at its height or  *)
(* above: the chain has no second block at a height, no block of another   *)
(* branch, and its tip leads down to all the rest.                         *)
Linked ==
    \A b, c \in chain : HeightOf[b] <= HeightOf[c] => b \in Lineage[c]

(* Each event of the chain is shown once, and no other.                    *)
Exact == shown = EventsOf(chain)
=============================================================================
