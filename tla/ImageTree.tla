----------------------------- MODULE ImageTree -----------------------------
(***************************************************************************)
(* The tree of container images: what Build.build_tree                     *)
(* (tcib/client/container_image.py) makes of the configuration directory   *)
(* and BuildahBuilder (tcib/builder/buildah.py) is given, nested lists of  *)
(* strings and one-key dictionaries.                                       *)
(***************************************************************************)
EXTENDS Integers, Sequences

CONSTANTS
    Images,   \* the names of the container images
    Root      \* stands for the unnamed outermost list of the tree

Nodes == Images \cup {Root}

\* The elements of a sequence
Elements(s) == {s[i] : i \in 1..Len(s)}

Distinct(s) == \A i, j \in 1..Len(s) : s[i] = s[j] => i = j

(***************************************************************************)
(* An input tree.  The list below node g holds strings, in list order in   *)
(* leaves[g], and one-key dictionaries, whose keys are groups[g]; the list *)
(* under key n is the list of node n.  parent is the inverse of both.      *)
(***************************************************************************)
Below(t, g) == Elements(t.leaves[g]) \cup Elements(t.groups[g])

IsTree(t) ==
    /\ t.leaves \in [Nodes -> Seq(Images)]
    /\ t.groups \in [Nodes -> Seq(Images)]
    /\ t.parent \in [Images -> Nodes]
    /\ \A m \in Images, g \in Nodes : m \in Below(t, g) <=> t.parent[m] = g
    /\ \A g \in Nodes : /\ Distinct(t.leaves[g])
                        /\ Distinct(t.groups[g])
                        /\ Elements(t.leaves[g]) \cap Elements(t.groups[g]) = {}
                        /\ \A m \in Elements(t.leaves[g]) : Below(t, m) = {}
    \* every image hangs off the root: a set of nodes that holds the root
    \* and is closed under Below is everything
    /\ \A S \in SUBSET Nodes :
          (Root \in S /\ \A g \in S : Below(t, g) \subseteq S) => Images \subseteq S
=============================================================================
