----------------------------- MODULE BlockTree -----------------------------
(***************************************************************************)
(* The blocks a stacks-core node may announce, as the indexer sees them in *)
(* a BlockPayload (core/src/types/mod.rs): index_block_hash names a block, *)
(* parent_index_block_hash its parent, and block_height is one more than   *)
(* the parent's.  The node is outside this repository.                     *)
(***************************************************************************)
EXTENDS Naturals

CONSTANTS Blocks,    \* index_block_hash values
          NoBlock,   \* the hash of no block in Blocks
          ParentOf,  \* parent_index_block_hash of each block
          HeightOf   \* block_height of each block

ASSUME NoBlockAssumption == NoBlock \notin Blocks

ASSUME ParentAssumption == ParentOf \in [Blocks -> Blocks \cup {NoBlock}]

ASSUME HeightAssumption ==
    /\ HeightOf \in [Blocks -> Nat]
    /\ \A b \in Blocks :
          ParentOf[b] # NoBlock => HeightOf[b] = HeightOf[ParentOf[b]] + 1

ParentClosed(S) == \A x \in S : ParentOf[x] \in S \cup {NoBlock}

(* The branch that ends in b: b and all its ancestors, the smallest set    *)
(* that holds b and is closed under parents.                               *)
Lineage ==
    [b \in Blocks |->
        {a \in Blocks :
            \A S \in SUBSET Blocks : b \in S /\ ParentClosed(S) => a \in S}]

(* The branch of b, or no block at all when b is NoBlock.                  *)
BranchOf(b) == IF b = NoBlock THEN {} ELSE Lineage[b]
=============================================================================
