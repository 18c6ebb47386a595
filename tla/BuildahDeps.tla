---------------------------- MODULE BuildahDeps ----------------------------
(***************************************************************************)
(* BuildahBuilder._generate_deps (tcib/builder/buildah.py): flattening the *)
(* tree of container images into a list of batches.  The images of one     *)
(* batch are built concurrently and the batches one after the other, so    *)
(* every image has to land in a later batch than the image it is FROM.     *)
(*                                                                         *)
(* The code is a depth-first recursion over nested lists and one-key       *)
(* dictionaries, the shape Build.build_tree produces.  Here the Python     *)
(* call stack is the variable `stack': one frame for every list call that  *)
(* has not returned.  The code hands the list `dep_list' to the recursive  *)
(* calls as `prio_list' AFTER having appended that same list object to     *)
(* `containers', so extending it later grows a batch that is already in    *)
(* the result; a frame therefore keeps the index of the batch its          *)
(* dep_list is, or 0 when dep_list is empty and hence falsy.               *)
(***************************************************************************)
EXTENDS ImageTree

CONSTANTS
    Trees     \* the input trees considered, see IsTree

ASSUME RootAssumption == Root \notin Images
ASSUME TreesAssumption == \A t \in Trees : IsTree(t)

VARIABLES
    deps,        \* the tree, never changed
    containers,  \* the result so far: a sequence of batches
    stack        \* frames of the list calls in progress, innermost last

depsVars == <<deps, containers, stack>>

(***************************************************************************)
(* Entering the list call of node g when the result is cs: the strings of  *)
(* the list become a batch, if there are any.                              *)
(***************************************************************************)
\* mutated form of WithLeaves: `if dep_list' dropped
M_WithLeaves(t, g, cs) == Append(cs, t.leaves[g])

WithLeaves(t, g, cs) ==
    IF t.leaves[g] = <<>> THEN cs ELSE Append(cs, t.leaves[g])

\* mutated forms of Frame: an empty dep_list falls back to the last batch;
\* the strings of the list are recursed into as well
M_FrameInherits(t, g, cs) ==
    [node |-> g,
     todo |-> t.groups[g],
     prio |-> IF t.leaves[g] = <<>> THEN Len(cs) ELSE Len(cs) + 1]
M_FrameAll(t, g, cs) ==
    [node |-> g,
     todo |-> t.leaves[g] \o t.groups[g],
     prio |-> IF t.leaves[g] = <<>> THEN 0 ELSE Len(cs) + 1]

Frame(t, g, cs) ==
    [node |-> g,
     todo |-> t.groups[g],
     prio |-> IF t.leaves[g] = <<>> THEN 0 ELSE Len(cs) + 1]

(***************************************************************************)
(* The dictionary call for key n: its key joins the batch of the caller's  *)
(* strings, or opens a batch of its own when the caller has none.          *)
(***************************************************************************)
\* (mutated form of WithKey: the key always opens a batch, too)
M_WithKeyTwice(n, prio, cs) ==
    Append(IF prio = 0 THEN cs ELSE [cs EXCEPT ![prio] = Append(@, n)], <<n>>)
WithKey(n, prio, cs) ==
    IF prio = 0 THEN Append(cs, <<n>>)
                ELSE [cs EXCEPT ![prio] = Append(@, n)]

DepsInit ==
    /\ deps \in Trees
    /\ containers = WithLeaves(deps, Root, <<>>)
    /\ stack = <<Frame(deps, Root, <<>>)>>

Top == stack[Len(stack)]

Callers == SubSeq(stack, 1, Len(stack) - 1)

\* The next dictionary of the innermost list: handle its key, then enter
\* the list that is its value (which gets no prio_list).
DictItem ==
    /\ stack # <<>>
    /\ Top.todo # <<>>
    /\ LET n     == Head(Top.todo)
           keyed == WithKey(n, Top.prio, containers)
       IN  /\ containers' = WithLeaves(deps, n, keyed)
           /\ stack' = Callers \o <<[Top EXCEPT !.todo = Tail(@)],
                                    Frame(deps, n, keyed)>>
    /\ UNCHANGED deps

\* The innermost list is exhausted: its call returns.
\* (mutated forms: the loop is left early; the outermost call never returns)
M_ReturnEarly ==
    /\ stack # <<>>
    /\ stack' = Callers
    /\ UNCHANGED <<deps, containers>>
M_ReturnNever ==
    /\ Len(stack) > 1
    /\ Top.todo = <<>>
    /\ stack' = Callers
    /\ UNCHANGED <<deps, containers>>
Return ==
    /\ stack # <<>>
    /\ Top.todo = <<>>
    /\ stack' = Callers
    /\ UNCHANGED <<deps, containers>>

DepsNext == DictItem \/ Return

DepsSpec == DepsInit /\ [][DepsNext]_depsVars /\ WF_depsVars(DepsNext)

----------------------------------------------------------------------------
Frames == [node : Nodes, todo : Seq(Images), prio : Nat]

Placed == UNION {Elements(containers[b]) : b \in 1..Len(containers)}

InBatch(m, b) == b \in 1..Len(containers) /\ m \in Elements(containers[b])

DepsTypeOK ==
    /\ deps \in Trees
    /\ containers \in Seq(Seq(Images))
    /\ stack \in Seq(Frames)

(***************************************************************************)
(* An image is placed strictly after its parent.  This is what lets        *)
(* build_all (buildah.py:248) build a batch concurrently: the late growth  *)
(* of a batch through the aliased prio_list never adds an image whose      *)
(* parent is in the same batch or a later one.                             *)
(***************************************************************************)
ParentPlacedEarlier ==
    \A b \in 1..Len(containers) : \A m \in Elements(containers[b]) :
        deps.parent[m] # Root =>
            \E a \in 1..(b - 1) : InBatch(deps.parent[m], a)

(***************************************************************************)
(* No image is placed twice, in one batch or in two (buildah.py:270-307):  *)
(* two concurrent `buildah bud -t' of the same tag would race.             *)
(***************************************************************************)
PlacedOnce ==
    /\ \A b \in 1..Len(containers) : Distinct(containers[b])
    /\ \A a, b \in 1..Len(containers) :
          Elements(containers[a]) \cap Elements(containers[b]) # {} => a = b

(***************************************************************************)
(* No batch is empty (buildah.py:298): _multi_build would create a         *)
(* ThreadPoolExecutor with max_workers=0, which raises ValueError.         *)
(***************************************************************************)
NoEmptyBatch == \A b \in 1..Len(containers) : containers[b] # <<>>

(***************************************************************************)
(* When the outermost call returns, every image of the tree is in some     *)
(* batch (buildah.py:246): none is silently left unbuilt.                  *)
(***************************************************************************)
AllPlacedAtReturn == stack = <<>> => Placed = Images

\* The recursion ends (buildah.py:310).
DepsReturns == <>(stack = <<>>)

\* what the recursion has still to do about a node: to place it, and to
\* return from the call of its list
DepsLeft(n) ==
    IF n \in Images \ Placed THEN 2
    ELSE IF \E k \in 1..Len(stack) : stack[k].node = n THEN 1 ELSE 0

(***************************************************************************)
(* The inductive strengthening: what every frame on the stack knows.       *)
(***************************************************************************)
\* the call of a node runs after the node's key was placed, in a batch
\* before the one its dictionaries' keys will join
FrameNode(f) ==
    /\ f.node # Root => f.node \in Placed
    /\ f.prio # 0 => /\ f.prio \in 1..Len(containers)
                     /\ f.node # Root => \E a \in 1..(f.prio - 1) : InBatch(f.node, a)

\* the dictionaries a frame still has to visit are distinct children of
\* its node that nobody placed
FrameTodo(f) ==
    /\ Distinct(f.todo)
    /\ Elements(f.todo) \subseteq Elements(deps.groups[f.node]) \ Placed

FramesOK ==
    /\ \A k \in 1..Len(stack) : FrameNode(stack[k]) /\ FrameTodo(stack[k])
    /\ \A j, k \in 1..Len(stack) : stack[j].node = stack[k].node => j = k

\* a child of a placed image (or of the root) is placed or still on a frame
NothingLost ==
    \A m \in Images :
        deps.parent[m] \in Placed \cup {Root} =>
            \/ m \in Placed
            \/ \E k \in 1..Len(stack) : m \in Elements(stack[k].todo)

DepsInv ==
    /\ DepsTypeOK
    /\ ParentPlacedEarlier
    /\ PlacedOnce
    /\ NoEmptyBatch
    /\ FramesOK
    /\ NothingLost
=============================================================================
