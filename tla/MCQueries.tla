----------------------------- MODULE MCQueries -----------------------------
(* Two blocks above the first, with one or two rows a block.  The amounts  *)
(* 9, 10 and 90 are in another order as texts than as numbers, and one     *)
(* payload has none.                                                       *)
EXTENDS Queries

MCBlocks == {"b1", "b2", "c2"}
MCParentOf == [b1 |-> "none", b2 |-> "b1", c2 |-> "b1"]
MCHeightOf == [b1 |-> 1, b2 |-> 2, c2 |-> 2]
MCMatched == [b1 |-> <<"t">>, b2 |-> <<"t">>, c2 |-> <<"t", "t">>]

MCAmounts == [b1 |-> <<<<9>>>>, b2 |-> <<<<1, 0>>>>, c2 |-> <<NoText, <<9, 0>>>>]

Number(t) == [quoted |-> FALSE, text |-> t]
Quoted(t) == [quoted |-> TRUE, text |-> t]

(* None; two filters on system columns; three, of which one has an unknown *)
(* operator and a number that is none in JSON, and one is not of three     *)
(* pieces; a number next to the amounts, which are texts.                  *)
MCWheres ==
    {<<>>,
     <<<<"_block_height", "gte", Number(<<2>>)>>, <<"_id", "neq", Quoted(<<2>>)>>>>,
     <<<<"amount", "gt", Quoted(<<1, 0>>)>>, <<"_block_height", "equals", Number(<<0, 2>>)>>,
       <<"_block_height", "gte">>>>,
     <<<<"amount", "lte", Number(<<1, 0>>)>>>>}
=============================================================================
