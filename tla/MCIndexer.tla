------------------------------ MODULE MCIndexer ------------------------------
(* Block trees and constants for the runs of Indexer.                      *)
EXTENDS Indexer

(* A chain of two blocks above the first, and two branches that fork at    *)
(* its second block: the deepest fork replaces two blocks.                 *)
ForkBlocks == {"b1", "b2", "b3", "b4", "c3", "c4"}
ForkParentOf ==
    [b1 |-> "none", b2 |-> "b1", b3 |-> "b2", b4 |-> "b3", c3 |-> "b2", c4 |-> "c3"]
ForkHeightOf == [b1 |-> 1, b2 |-> 2, b3 |-> 3, b4 |-> 4, c3 |-> 3, c4 |-> 4]
ForkMatched ==
    [b1 |-> <<"t">>, b2 |-> <<>>, b3 |-> <<"t", "u">>, b4 |-> <<"u">>,
     c3 |-> <<"u">>, c4 |-> <<"t", "t">>]

(* Two branches of two blocks above a common block.                        *)
TwigBlocks == {"b1", "b2", "b3", "c2", "c3"}
TwigParentOf == [b1 |-> "none", b2 |-> "b1", b3 |-> "b2", c2 |-> "b1", c3 |-> "c2"]
TwigHeightOf == [b1 |-> 1, b2 |-> 2, b3 |-> 3, c2 |-> 2, c3 |-> 3]
TwigMatched ==
    [b1 |-> <<>>, b2 |-> <<"t">>, b3 |-> <<"u">>, c2 |-> <<"u", "t">>, c3 |-> <<"t">>]

(* Two blocks compete above the first.                                     *)
RivalBlocks == {"b1", "b2", "c2"}
RivalParentOf == [b1 |-> "none", b2 |-> "b1", c2 |-> "b1"]
RivalHeightOf == [b1 |-> 1, b2 |-> 2, c2 |-> 2]
RivalMatched == [b1 |-> <<"t">>, b2 |-> <<>>, c2 |-> <<"t", "u">>]

(* A chain without forks.                                                  *)
LineBlocks == {"b1", "b2", "b3"}
LineParentOf == [b1 |-> "none", b2 |-> "b1", b3 |-> "b2"]
LineHeightOf == [b1 |-> 1, b2 |-> 2, b3 |-> 3]
LineMatched == [b1 |-> <<"t">>, b2 |-> <<"t", "u">>, b3 |-> <<>>]
=============================================================================
