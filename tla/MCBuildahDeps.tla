--------------------------- MODULE MCBuildahDeps ---------------------------
(***************************************************************************)
(* TLC instance of BuildahDeps: every ordered tree with MaxImages images.  *)
(* The images are 1..MaxImages and 0 is the root; image i hangs below a    *)
(* node smaller than i, which yields every ordered tree up to renaming.    *)
(***************************************************************************)
EXTENDS BuildahDeps, SequencesExt

CONSTANT MaxImages

MCImages == 1..MaxImages
MCRoot == 0

ParentMaps == {p \in [1..MaxImages -> 0..(MaxImages - 1)] : \A i \in 1..MaxImages : p[i] < i}

ChildrenOf(p, g) == {m \in 1..MaxImages : p[m] = g}

Ascending(S) == SetToSortSeq(S, <)

TreeOf(p) ==
    [parent |-> p,
     leaves |-> [g \in 0..MaxImages |->
                   Ascending({m \in ChildrenOf(p, g) : ChildrenOf(p, m) = {}})],
     groups |-> [g \in 0..MaxImages |->
                   Ascending({m \in ChildrenOf(p, g) : ChildrenOf(p, m) # {}})]]

MCTrees == {TreeOf(p) : p \in ParentMaps}
=============================================================================
