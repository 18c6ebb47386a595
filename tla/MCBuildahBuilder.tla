-------------------------- MODULE MCBuildahBuilder --------------------------
(***************************************************************************)
(* TLC instance of BuildahBuilder: ordered trees as in MCBuildahDeps, no   *)
(* exclusion or one excluded image, all Containerfiles or one missing.     *)
(***************************************************************************)
EXTENDS BuildahBuilder, SequencesExt

CONSTANTS MaxImages, MaxExcluded, MaxMissing

MCImages == 1..MaxImages
MCRoot == 0

ParentMaps == {p \in [1..MaxImages -> 0..(MaxImages - 1)] : \A i \in 1..MaxImages : p[i] < i}

ChildrenOf(p, g) == {m \in 1..MaxImages : p[m] = g}

TreeOf(p) ==
    [parent |-> p,
     leaves |-> [g \in 0..MaxImages |->
                   SetToSortSeq({m \in ChildrenOf(p, g) : ChildrenOf(p, m) = {}}, <)],
     groups |-> [g \in 0..MaxImages |->
                   SetToSortSeq({m \in ChildrenOf(p, g) : ChildrenOf(p, m) # {}}, <)]]

MCTrees == {TreeOf(p) : p \in ParentMaps}

MCExcludeSets == {S \in SUBSET MCImages : Cardinality(S) <= MaxExcluded}

MCContMaps == {MCImages \ S : S \in {S \in SUBSET MCImages : Cardinality(S) <= MaxMissing}}
=============================================================================
