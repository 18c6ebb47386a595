------------------------- MODULE BuildahDepsProofs -------------------------
(***************************************************************************)
(* Proofs about BuildahDeps for every set of images and every tree.        *)
(*                                                                         *)
(* The operators WithKey and WithLeaves, which extend the result, are      *)
(* described first by which image they put in which batch; that the result *)
(* stays well formed (GoodBatches) is proved for each of them apart, and   *)
(* a DictItem step is one after the other.                                 *)
(***************************************************************************)
EXTENDS BuildahDeps, SequenceTheorems, TLAPS

\* image m is in batch b of the result cs
In(cs, m, b) == b \in 1..Len(cs) /\ m \in Elements(cs[b])

\* image m is in some batch of cs
Has(cs, m) == \E b \in 1..Len(cs) : m \in Elements(cs[b])

\* the three properties of the result, as a predicate of a tree and a result
GoodBatches(t, cs) ==
    /\ \A b \in 1..Len(cs) : \A m \in Elements(cs[b]) :
          t.parent[m] # Root => \E a \in 1..(b - 1) : In(cs, t.parent[m], a)
    /\ \A b \in 1..Len(cs) : Distinct(cs[b])
    /\ \A a, b \in 1..Len(cs) : Elements(cs[a]) \cap Elements(cs[b]) # {} => a = b
    /\ \A b \in 1..Len(cs) : cs[b] # <<>>

KeyBatch(prio, cs) == IF prio = 0 THEN Len(cs) + 1 ELSE prio

(***************************************************************************)
(* Sequences and their elements                                            *)
(***************************************************************************)
LEMMA ElementsAppend ==
    ASSUME NEW S, NEW s \in Seq(S), NEW x \in S
    PROVE  Elements(Append(s, x)) = Elements(s) \cup {x}
<1>1. Len(Append(s, x)) = Len(s) + 1 /\ Append(s, x)[Len(s) + 1] = x
  OBVIOUS
<1>2. \A i \in 1..Len(s) : Append(s, x)[i] = s[i]
  OBVIOUS
<1>3. 1..(Len(s) + 1) = (1..Len(s)) \cup {Len(s) + 1}
  OBVIOUS
<1> QED BY <1>1, <1>2, <1>3 DEF Elements

LEMMA DistinctAppend ==
    ASSUME NEW S, NEW s \in Seq(S), NEW x \in S, Distinct(s), x \notin Elements(s)
    PROVE  Distinct(Append(s, x))
  BY DEF Distinct, Elements

LEMMA ElementsInType ==
    ASSUME NEW S, NEW s \in Seq(S)
    PROVE  /\ Elements(s) \subseteq S
           /\ s = <<>> <=> Elements(s) = {}
  BY DEF Elements

\* Taking the head off a sequence without repetition
LEMMA HeadTail ==
    ASSUME NEW S, NEW s \in Seq(S), s # <<>>, Distinct(s)
    PROVE  /\ Head(s) \in Elements(s)
           /\ Head(s) \in S
           /\ Tail(s) \in Seq(S)
           /\ Distinct(Tail(s))
           /\ Elements(Tail(s)) = Elements(s) \ {Head(s)}
<1>1. Len(s) >= 1 /\ Head(s) = s[1] /\ Tail(s) \in Seq(S) /\ Len(Tail(s)) = Len(s) - 1
  OBVIOUS
<1>2. \A i \in 1..Len(Tail(s)) : Tail(s)[i] = s[i + 1]
  OBVIOUS
<1>3. Distinct(Tail(s))
  BY <1>1, <1>2 DEF Distinct
<1>4. Head(s) \in Elements(s)
  BY <1>1 DEF Elements
<1>5. \A i \in 2..Len(s) : s[i] # s[1] /\ s[i] = Tail(s)[i - 1]
  BY <1>1, <1>2 DEF Distinct
<1>6. Elements(Tail(s)) \subseteq Elements(s) \ {Head(s)}
  BY <1>1, <1>2 DEF Elements, Distinct
<1>7. Elements(s) \ {Head(s)} \subseteq Elements(Tail(s))
  BY <1>1, <1>5 DEF Elements
<1> QED BY <1>1, <1>3, <1>4, <1>6, <1>7

\* A prefix of a sequence
LEMMA Prefix ==
    ASSUME NEW S, NEW s \in Seq(S), NEW n \in 0..Len(s)
    PROVE  /\ SubSeq(s, 1, n) \in Seq(S)
           /\ Len(SubSeq(s, 1, n)) = n
           /\ \A i \in 1..n : SubSeq(s, 1, n)[i] = s[i]
<1>1. 1 \in Int /\ n \in Int /\ \A i \in 1..n : s[i] \in S
  OBVIOUS
<1>2. /\ SubSeq(s, 1, n) \in Seq(S)
      /\ Len(SubSeq(s, 1, n)) = IF 1 <= n THEN n - 1 + 1 ELSE 0
      /\ \A i \in 1..(n - 1 + 1) : SubSeq(s, 1, n)[i] = s[1 + i - 1]
  BY <1>1, SubSeqProperties
<1> QED BY <1>2

(***************************************************************************)
(* What WithKey and WithLeaves put where                                   *)
(***************************************************************************)
LEMMA WithKeyFacts ==
    ASSUME NEW cs \in Seq(Seq(Images)), NEW n \in Images, NEW prio \in 0..Len(cs)
    PROVE  /\ WithKey(n, prio, cs) \in Seq(Seq(Images))
           /\ Len(WithKey(n, prio, cs)) >= Len(cs)
           /\ KeyBatch(prio, cs) \in 1..Len(WithKey(n, prio, cs))
           /\ \A m, b : In(WithKey(n, prio, cs), m, b) <=>
                           In(cs, m, b) \/ (m = n /\ b = KeyBatch(prio, cs))
<1> DEFINE r == WithKey(n, prio, cs)
<1>1. CASE prio = 0
  <2>1. r = Append(cs, <<n>>) /\ <<n>> \in Seq(Images) /\ Elements(<<n>>) = {n}
    BY <1>1 DEF WithKey, Elements
  <2>2. r \in Seq(Seq(Images)) /\ Len(r) = Len(cs) + 1 /\ r[Len(cs) + 1] = <<n>>
    BY <2>1
  <2>3. \A i \in 1..Len(cs) : r[i] = cs[i]
    BY <2>1
  <2>4. KeyBatch(prio, cs) = Len(cs) + 1 /\ 1..Len(r) = (1..Len(cs)) \cup {Len(cs) + 1}
    BY <1>1, <2>2 DEF KeyBatch
  <2>5. \A m, b : In(r, m, b) <=> In(cs, m, b) \/ (m = n /\ b = Len(cs) + 1)
    BY <2>1, <2>2, <2>3, <2>4 DEF In
  <2> HIDE DEF r
  <2> QED BY <2>2, <2>4, <2>5 DEF r
<1>2. CASE prio # 0
  <2>1. prio \in 1..Len(cs) /\ cs[prio] \in Seq(Images)
    BY <1>2
  <2>2. r = [cs EXCEPT ![prio] = Append(@, n)] /\ Append(cs[prio], n) \in Seq(Images)
    BY <1>2, <2>1 DEF WithKey
  <2>3. r \in Seq(Seq(Images)) /\ Len(r) = Len(cs)
    BY <2>1, <2>2
  <2>4. r[prio] = Append(cs[prio], n) /\ \A i \in 1..Len(cs) : i # prio => r[i] = cs[i]
    BY <2>1, <2>2
  <2>5. Elements(r[prio]) = Elements(cs[prio]) \cup {n}
    BY <2>1, <2>4, ElementsAppend
  <2>6. KeyBatch(prio, cs) = prio
    BY <1>2 DEF KeyBatch
  <2>7. \A m, b : In(r, m, b) <=> In(cs, m, b) \/ (m = n /\ b = prio)
    BY <2>1, <2>3, <2>4, <2>5 DEF In
  <2> HIDE DEF r
  <2> QED BY <2>1, <2>3, <2>6, <2>7 DEF r
<1> QED BY <1>1, <1>2

LEMMA WithLeavesFacts ==
    ASSUME NEW t, IsTree(t), NEW g \in Nodes, NEW cs \in Seq(Seq(Images))
    PROVE  /\ WithLeaves(t, g, cs) \in Seq(Seq(Images))
           /\ Len(WithLeaves(t, g, cs)) >= Len(cs)
           /\ \A m, b : In(WithLeaves(t, g, cs), m, b) <=>
                           \/ In(cs, m, b)
                           \/ m \in Elements(t.leaves[g]) /\ b = Len(cs) + 1
<1> DEFINE r == WithLeaves(t, g, cs)
<1>0. t.leaves[g] \in Seq(Images)
  BY DEF IsTree
<1>1. CASE t.leaves[g] = <<>>
  BY <1>1 DEF WithLeaves, In, Elements
<1>2. CASE t.leaves[g] # <<>>
  <2>1. r = Append(cs, t.leaves[g])
    BY <1>2 DEF WithLeaves
  <2>2. /\ r \in Seq(Seq(Images)) /\ Len(r) = Len(cs) + 1
        /\ r[Len(cs) + 1] = t.leaves[g]
        /\ \A i \in 1..Len(cs) : r[i] = cs[i]
    BY <1>0, <2>1
  <2> QED BY <2>2 DEF In
<1> QED BY <1>1, <1>2

(***************************************************************************)
(* Both keep the result well formed                                        *)
(***************************************************************************)
LEMMA AddKey ==
    ASSUME NEW t, IsTree(t), NEW cs \in Seq(Seq(Images)), GoodBatches(t, cs),
           NEW n \in Images, ~Has(cs, n), NEW prio \in 0..Len(cs),
           \/ t.parent[n] = Root
           \/ \E a \in 1..(KeyBatch(prio, cs) - 1) : In(cs, t.parent[n], a)
    PROVE  GoodBatches(t, WithKey(n, prio, cs))
<1> DEFINE r == WithKey(n, prio, cs)
           k == KeyBatch(prio, cs)
<1>1. /\ r \in Seq(Seq(Images)) /\ Len(r) >= Len(cs) /\ k \in 1..Len(r)
      /\ \A m, b : In(r, m, b) <=> In(cs, m, b) \/ (m = n /\ b = k)
  BY WithKeyFacts
<1>2. \A b \in 1..Len(r) : Distinct(r[b]) /\ r[b] # <<>>
  <2>1. CASE prio = 0
    <3>1. r = Append(cs, <<n>>)
      BY <2>1 DEF WithKey
    <3>2. Distinct(<<n>>) /\ <<n>> # <<>> /\ <<n>> \in Seq(Images)
      BY DEF Distinct
    <3>3. /\ Len(r) = Len(cs) + 1 /\ r[Len(cs) + 1] = <<n>>
          /\ \A b \in 1..Len(cs) : r[b] = cs[b]
      BY <3>1, <3>2
    <3>4. \A b \in 1..Len(cs) : Distinct(cs[b]) /\ cs[b] # <<>>
      BY DEF GoodBatches
    <3>5. Distinct(r[Len(cs) + 1]) /\ r[Len(cs) + 1] # <<>>
      BY <3>2, <3>3
    <3> HIDE DEF r
    <3>6. ASSUME NEW b \in 1..Len(r) PROVE b = Len(cs) + 1 \/ b \in 1..Len(cs)
      BY <3>3
    <3>7. \A b \in 1..Len(cs) : Distinct(r[b]) /\ r[b] # <<>>
      BY <3>3, <3>4
    <3> QED BY <3>5, <3>6, <3>7
  <2>2. CASE prio # 0
    <3>1. prio \in 1..Len(cs) /\ cs[prio] \in Seq(Images)
      BY <2>2
    <3>2. r = [cs EXCEPT ![prio] = Append(@, n)]
      BY <2>2 DEF WithKey
    <3>3. /\ Len(r) = Len(cs) /\ r[prio] = Append(cs[prio], n)
          /\ \A b \in 1..Len(cs) : b # prio => r[b] = cs[b]
      BY <3>1, <3>2
    <3>4. n \notin Elements(cs[prio]) /\ Distinct(cs[prio])
      BY <3>1 DEF Has, GoodBatches
    <3>5. Distinct(r[prio])
      BY <3>1, <3>3, <3>4, DistinctAppend
    <3>6. r[prio] # <<>>
      BY <3>1, <3>3
    <3> HIDE DEF r
    <3> QED BY <3>1, <3>3, <3>5, <3>6 DEF GoodBatches
  <2> QED BY <2>1, <2>2
<1>3. ASSUME NEW b \in 1..Len(r), NEW m \in Elements(r[b]), t.parent[m] # Root
      PROVE  \E a \in 1..(b - 1) : In(r, t.parent[m], a)
  <2>1. In(r, m, b)
    BY <1>3 DEF In
  <2>2. CASE In(cs, m, b)
    BY <1>1, <1>3, <2>2 DEF GoodBatches, In
  <2>3. CASE m = n /\ b = k
    BY <1>1, <1>3, <2>3
  <2> QED BY <1>1, <2>1, <2>2, <2>3
<1>4. ASSUME NEW a \in 1..Len(r), NEW b \in 1..Len(r), NEW m \in Elements(r[a]), m \in Elements(r[b])
      PROVE  a = b
  <2>1. In(r, m, a) /\ In(r, m, b)
    BY <1>4 DEF In
  <2>2. CASE In(cs, m, a) /\ In(cs, m, b)
    BY <2>2 DEF GoodBatches, In
  <2>3. CASE m = n
    <3>1. ~In(cs, n, a) /\ ~In(cs, n, b)
      BY DEF In, Has
    <3> QED BY <1>1, <2>1, <2>3, <3>1
  <2> QED BY <1>1, <2>1, <2>2, <2>3
<1> QED BY <1>2, <1>3, <1>4 DEF GoodBatches

LEMMA AddLeaves ==
    ASSUME NEW t, IsTree(t), NEW cs \in Seq(Seq(Images)), GoodBatches(t, cs),
           NEW g \in Nodes, g = Root \/ Has(cs, g),
           \A m \in Elements(t.leaves[g]) : ~Has(cs, m)
    PROVE  GoodBatches(t, WithLeaves(t, g, cs))
<1> DEFINE r == WithLeaves(t, g, cs)
<1>1. /\ r \in Seq(Seq(Images)) /\ Len(r) >= Len(cs)
      /\ \A m, b : In(r, m, b) <=> \/ In(cs, m, b)
                                   \/ m \in Elements(t.leaves[g]) /\ b = Len(cs) + 1
  BY WithLeavesFacts
<1>2. t.leaves[g] \in Seq(Images) /\ Distinct(t.leaves[g])
  BY DEF IsTree
<1>3. \A m \in Elements(t.leaves[g]) : m \in Images /\ t.parent[m] = g
  BY <1>2, ElementsInType DEF IsTree, Below
<1>4. \A b \in 1..Len(r) : Distinct(r[b]) /\ r[b] # <<>>
  <2>1. CASE t.leaves[g] = <<>>
    BY <2>1 DEF WithLeaves, GoodBatches
  <2>2. CASE t.leaves[g] # <<>>
    <3>1. r = Append(cs, t.leaves[g])
      BY <2>2 DEF WithLeaves
    <3>2. /\ Len(r) = Len(cs) + 1 /\ r[Len(cs) + 1] = t.leaves[g]
          /\ \A b \in 1..Len(cs) : r[b] = cs[b]
      BY <1>2, <3>1
    <3> HIDE DEF r
    <3> QED BY <1>2, <2>2, <3>2 DEF GoodBatches
  <2> QED BY <2>1, <2>2
<1>5. ASSUME NEW b \in 1..Len(r), NEW m \in Elements(r[b]), t.parent[m] # Root
      PROVE  \E a \in 1..(b - 1) : In(r, t.parent[m], a)
  <2>1. In(r, m, b)
    BY <1>5 DEF In
  <2>2. CASE In(cs, m, b)
    BY <1>1, <1>5, <2>2 DEF GoodBatches, In
  <2>3. CASE m \in Elements(t.leaves[g]) /\ b = Len(cs) + 1
    <3>1. t.parent[m] = g /\ Has(cs, g)
      BY <1>3, <1>5, <2>3
    <3>2. PICK a \in 1..Len(cs) : g \in Elements(cs[a])
      BY <3>1 DEF Has
    <3>3. a \in 1..(b - 1) /\ In(cs, g, a)
      BY <2>3, <3>2 DEF In
    <3> QED BY <1>1, <3>1, <3>3
  <2> QED BY <1>1, <2>1, <2>2, <2>3
<1>6. ASSUME NEW a \in 1..Len(r), NEW b \in 1..Len(r), NEW m \in Elements(r[a]), m \in Elements(r[b])
      PROVE  a = b
  <2>1. In(r, m, a) /\ In(r, m, b)
    BY <1>6 DEF In
  <2>2. CASE In(cs, m, a) /\ In(cs, m, b)
    BY <2>2 DEF GoodBatches, In
  <2>3. CASE m \in Elements(t.leaves[g])
    <3>1. ~In(cs, m, a) /\ ~In(cs, m, b)
      BY <2>3 DEF In, Has
    <3> QED BY <1>1, <2>1, <3>1
  <2> QED BY <1>1, <2>1, <2>2, <2>3
<1> QED BY <1>4, <1>5, <1>6 DEF GoodBatches

(***************************************************************************)
(* The initial state and the two steps                                     *)
(***************************************************************************)
LEMMA PlacedIsHas ==
    ASSUME NEW m
    PROVE  m \in Placed <=> Has(containers, m)
  BY DEF Placed, Has

LEMMA ResultIsGood ==
    GoodBatches(deps, containers) <=> ParentPlacedEarlier /\ PlacedOnce /\ NoEmptyBatch
  BY DEF GoodBatches, ParentPlacedEarlier, PlacedOnce, NoEmptyBatch, In, InBatch

LEMMA TreeFacts ==
    ASSUME NEW t, IsTree(t), NEW g \in Nodes
    PROVE  /\ t.leaves[g] \in Seq(Images) /\ Distinct(t.leaves[g])
           /\ t.groups[g] \in Seq(Images) /\ Distinct(t.groups[g])
           /\ Elements(t.leaves[g]) \subseteq Images
           /\ Elements(t.groups[g]) \subseteq Images
           /\ \A m \in Images : t.parent[m] = g <=>
                 m \in Elements(t.leaves[g]) \/ m \in Elements(t.groups[g])
           /\ \A m \in Elements(t.leaves[g]) : m \notin Elements(t.groups[g])
           /\ \A m \in Elements(t.leaves[g]), c \in Images : t.parent[c] # m
<1>1. t.leaves[g] \in Seq(Images) /\ t.groups[g] \in Seq(Images)
  BY DEF IsTree
<1>2. Elements(t.leaves[g]) \subseteq Images /\ Elements(t.groups[g]) \subseteq Images
  BY <1>1, ElementsInType
<1>3. \A m \in Elements(t.leaves[g]), c \in Images : t.parent[c] # m
  BY <1>2 DEF IsTree, Nodes
<1>4. \A m \in Elements(t.leaves[g]) : m \notin Elements(t.groups[g])
  BY DEF IsTree
<1> QED BY <1>1, <1>2, <1>3, <1>4 DEF IsTree, Below

LEMMA FrameType ==
    ASSUME NEW t, IsTree(t), NEW g \in Nodes, NEW cs \in Seq(Seq(Images))
    PROVE  /\ Frame(t, g, cs) \in Frames
           /\ Frame(t, g, cs).node = g
           /\ Frame(t, g, cs).todo = t.groups[g]
           /\ Frame(t, g, cs).prio # 0 => /\ Frame(t, g, cs).prio = Len(cs) + 1
                                         /\ Len(WithLeaves(t, g, cs)) = Len(cs) + 1
  BY TreeFacts DEF Frame, Frames, WithLeaves

LEMMA DepsInitInv == DepsInit => DepsInv
<1> SUFFICES ASSUME DepsInit PROVE DepsInv
  OBVIOUS
<1> DEFINE empty == <<>>
<1>0. /\ IsTree(deps) /\ Root \in Nodes /\ empty \in Seq(Seq(Images)) /\ Len(empty) = 0
      /\ containers = WithLeaves(deps, Root, empty)
      /\ stack = <<Frame(deps, Root, empty)>>
  BY TreesAssumption DEF DepsInit, Nodes
<1> HIDE DEF empty
<1>1. GoodBatches(deps, empty) /\ \A m, b : ~In(empty, m, b) /\ ~Has(empty, m)
  BY <1>0 DEF GoodBatches, In, Has
<1>2. /\ containers \in Seq(Seq(Images))
      /\ \A m : m \in Placed <=> m \in Elements(deps.leaves[Root])
  <2>1. /\ containers \in Seq(Seq(Images))
        /\ \A m, b : In(containers, m, b) <=>
              In(empty, m, b) \/ (m \in Elements(deps.leaves[Root]) /\ b = Len(empty) + 1)
    BY <1>0, WithLeavesFacts
  <2>2. \A m : (\E b : In(containers, m, b)) <=> m \in Elements(deps.leaves[Root])
    BY <1>1, <2>1
  <2> QED BY <2>1, <2>2, PlacedIsHas DEF Has, In
<1>3. GoodBatches(deps, containers)
  BY <1>0, <1>1, AddLeaves
<1> DEFINE f == Frame(deps, Root, empty)
<1>4. /\ f \in Frames
      /\ f.node = Root /\ f.todo = deps.groups[Root]
      /\ f.prio # 0 => f.prio \in 1..Len(containers)
  <2>1. /\ f \in Frames /\ f.node = Root /\ f.todo = deps.groups[Root]
        /\ f.prio # 0 => /\ f.prio = Len(empty) + 1
                         /\ Len(WithLeaves(deps, Root, empty)) = Len(empty) + 1
    BY <1>0, FrameType
  <2> HIDE DEF f
  <2>2. f.prio # 0 => f.prio = 1 /\ Len(containers) = 1
    BY <1>0, <2>1
  <2>3. 1 \in 1..1
    OBVIOUS
  <2> QED BY <2>1, <2>2, <2>3, Zenon
<1>5. stack = <<f>> /\ Len(stack) = 1 /\ stack[1] = f
  BY <1>0
<1> HIDE DEF f
<1>7. DepsTypeOK
  BY <1>2, <1>4, <1>5 DEF DepsTypeOK, DepsInit
<1>8. FramesOK
  <2>1. FrameNode(f)
    BY <1>4 DEF FrameNode
  <2>2. FrameTodo(f)
    BY <1>0, <1>2, <1>4, TreeFacts DEF FrameTodo
  <2> QED BY <1>5, <2>1, <2>2 DEF FramesOK
<1>9. NothingLost
  <2>1. \A m \in Images : deps.parent[m] = Root => m \in Placed \/ m \in Elements(f.todo)
    BY <1>0, <1>2, <1>4, TreeFacts
  <2>2. \A l \in Elements(deps.leaves[Root]), c \in Images : deps.parent[c] # l
    BY <1>0, TreeFacts
  <2> QED BY <1>5, <1>2, <2>1, <2>2 DEF NothingLost
<1> QED BY <1>3, <1>7, <1>8, <1>9, ResultIsGood DEF DepsInv

LEMMA ReturnInv == DepsInv /\ Return => DepsInv'
<1> SUFFICES ASSUME DepsInv, Return PROVE DepsInv'
  OBVIOUS
<1>1. deps' = deps /\ containers' = containers /\ stack' = SubSeq(stack, 1, Len(stack) - 1)
  BY DEF Return, Callers
<1>2. /\ stack \in Seq(Frames)
      /\ stack # <<>> /\ Len(stack) \in Nat \ {0}
  BY DEF DepsInv, DepsTypeOK, Return
<1>3. /\ stack' \in Seq(Frames)
      /\ Len(stack') = Len(stack) - 1
      /\ \A k \in 1..Len(stack') : k \in 1..Len(stack) /\ stack'[k] = stack[k]
  <2> DEFINE n == Len(stack) - 1
  <2>1. n \in 0..Len(stack) /\ \A k \in 1..n : k \in 1..Len(stack)
    BY <1>2
  <2>2. stack' = SubSeq(stack, 1, n)
    BY <1>1
  <2> HIDE DEF n
  <2>3. stack' \in Seq(Frames) /\ Len(stack') = n /\ \A i \in 1..n : stack'[i] = stack[i]
    BY <1>2, <2>1, <2>2, Prefix
  <2> QED BY <2>1, <2>3 DEF n
<1>4. DepsTypeOK'
  BY <1>1, <1>3 DEF DepsInv, DepsTypeOK
<1>5. (ParentPlacedEarlier /\ PlacedOnce /\ NoEmptyBatch)'
  BY <1>1 DEF DepsInv, ParentPlacedEarlier, PlacedOnce, NoEmptyBatch, InBatch
<1>6. FramesOK'
  <2>1. Placed' = Placed /\ \A m, b : InBatch(m, b)' <=> InBatch(m, b)
    BY <1>1 DEF Placed, InBatch
  <2>2. ASSUME NEW k \in 1..Len(stack') PROVE (FrameNode(stack[k]) /\ FrameTodo(stack[k]))'
    BY <1>1, <1>3, <2>1 DEF DepsInv, FramesOK, FrameNode, FrameTodo
  <2> QED BY <1>3, <2>2 DEF DepsInv, FramesOK
<1>7. NothingLost'
  <2>1. Elements(stack[Len(stack)].todo) = {}
    BY DEF Return, Top, Elements
  <2>2. \A k \in 1..Len(stack) : k \in 1..Len(stack') \/ k = Len(stack)
    BY <1>2, <1>3
  <2> QED BY <1>1, <1>3, <2>1, <2>2 DEF DepsInv, NothingLost, Placed
<1> QED BY <1>4, <1>5, <1>6, <1>7 DEF DepsInv

(***************************************************************************)
(* A DictItem step: the key it places, and the result and stack after it   *)
(***************************************************************************)
Key == Head(Top.todo)

Keyed == WithKey(Key, Top.prio, containers)

LEMMA TopFacts ==
    ASSUME DepsInv, stack # <<>>
    PROVE  /\ IsTree(deps)
           /\ containers \in Seq(Seq(Images)) /\ stack \in Seq(Frames)
           /\ Len(stack) \in Nat \ {0} /\ Len(stack) \in 1..Len(stack)
           /\ Top.node \in Nodes /\ Top.todo \in Seq(Images) /\ Top.prio \in 0..Len(containers)
           /\ FrameNode(Top) /\ FrameTodo(Top)
<1>1. stack \in Seq(Frames) /\ Len(stack) \in Nat \ {0} /\ Len(stack) \in 1..Len(stack)
  BY DEF DepsInv, DepsTypeOK
<1>2. Top \in Frames
  BY <1>1 DEF Top
<1>3. Top.node \in Nodes /\ Top.todo \in Seq(Images) /\ Top.prio \in Nat
  BY <1>2 DEF Frames
<1>4. FrameNode(Top) /\ FrameTodo(Top)
  BY <1>1 DEF DepsInv, FramesOK, Top
<1>5. containers \in Seq(Seq(Images)) /\ IsTree(deps)
  BY TreesAssumption DEF DepsInv, DepsTypeOK
<1>6. Top.prio \in 0..Len(containers)
  BY <1>3, <1>4, <1>5 DEF FrameNode
<1> QED BY <1>1, <1>3, <1>4, <1>5, <1>6

LEMMA KeyFacts ==
    ASSUME DepsInv, DictItem
    PROVE  /\ Key \in Images /\ Key \in Elements(Top.todo)
           /\ Tail(Top.todo) \in Seq(Images) /\ Distinct(Tail(Top.todo))
           /\ Elements(Tail(Top.todo)) = Elements(Top.todo) \ {Key}
           /\ Key \notin Placed /\ Key # Root
           /\ deps.parent[Key] = Top.node
           /\ Top.node = Root \/ Top.node \in Placed
           /\ \A m \in Images : deps.parent[m] = Key => m \notin Placed /\ m # Key
<1>1. stack # <<>> /\ Top.todo # <<>>
  BY DEF DictItem
<1>2. /\ IsTree(deps) /\ Top.node \in Nodes /\ Top.todo \in Seq(Images)
      /\ FrameNode(Top) /\ FrameTodo(Top)
      /\ containers \in Seq(Seq(Images))
  BY <1>1, TopFacts
<1>3. Distinct(Top.todo) /\ Elements(Top.todo) \subseteq Elements(deps.groups[Top.node]) \ Placed
  BY <1>2 DEF FrameTodo
<1>4. /\ Key \in Elements(Top.todo) /\ Key \in Images
      /\ Tail(Top.todo) \in Seq(Images) /\ Distinct(Tail(Top.todo))
      /\ Elements(Tail(Top.todo)) = Elements(Top.todo) \ {Key}
  BY <1>1, <1>2, <1>3, HeadTail DEF Key
<1>5. Key \notin Placed /\ deps.parent[Key] = Top.node /\ Key # Root
  BY <1>2, <1>3, <1>4, TreeFacts, RootAssumption
<1>6. Top.node = Root \/ Top.node \in Placed
  BY <1>2 DEF FrameNode
<1>7. ASSUME NEW m \in Images, deps.parent[m] = Key PROVE m \notin Placed /\ m # Key
  <2>1. m # Key
    BY <1>5, <1>6, <1>7
  <2>2. ASSUME m \in Placed PROVE FALSE
    <3>1. PICK b \in 1..Len(containers) : m \in Elements(containers[b])
      BY <2>2 DEF Placed
    <3>2. Key \in Placed
      BY <1>5, <1>7, <3>1 DEF DepsInv, ParentPlacedEarlier, InBatch, Placed
    <3> QED BY <1>5, <3>2
  <2> QED BY <2>1, <2>2
<1> QED BY <1>4, <1>5, <1>6, <1>7

LEMMA ResultAfter ==
    ASSUME DepsInv, DictItem
    PROVE  /\ Keyed \in Seq(Seq(Images)) /\ containers' \in Seq(Seq(Images))
           /\ Len(containers') >= Len(containers)
           /\ GoodBatches(deps, containers')
           /\ \A m, b : In(containers, m, b) => In(containers', m, b)
           /\ \A m : m \in Placed' <=> m \in Placed \/ m = Key \/ m \in Elements(deps.leaves[Key])
           /\ KeyBatch(Top.prio, containers) \in 1..Len(Keyed)
           /\ In(containers', Key, KeyBatch(Top.prio, containers))
<1> DEFINE k == KeyBatch(Top.prio, containers)
<1>1. /\ IsTree(deps) /\ Top.node \in Nodes /\ Top.prio \in 0..Len(containers)
      /\ FrameNode(Top) /\ containers \in Seq(Seq(Images))
  BY TopFacts DEF DictItem
<1>2. /\ Key \in Images /\ Key \in Nodes /\ Key \notin Placed
      /\ deps.parent[Key] = Top.node /\ (Top.node = Root \/ Top.node \in Placed)
  BY KeyFacts DEF Nodes
<1>3. /\ Keyed \in Seq(Seq(Images)) /\ Len(Keyed) >= Len(containers) /\ k \in 1..Len(Keyed)
      /\ \A m, b : In(Keyed, m, b) <=> In(containers, m, b) \/ (m = Key /\ b = k)
  BY <1>1, <1>2, WithKeyFacts DEF Keyed
<1>4. deps.parent[Key] = Root \/ \E a \in 1..(k - 1) : In(containers, deps.parent[Key], a)
  <2>1. CASE Top.node = Root
    BY <1>2, <2>1
  <2>2. CASE Top.node # Root /\ Top.prio = 0
    <3>1. PICK a \in 1..Len(containers) : Top.node \in Elements(containers[a])
      BY <1>2, <2>2 DEF Placed
    <3>2. k = Len(containers) + 1 /\ Len(containers) \in Nat
      BY <1>1, <2>2 DEF KeyBatch
    <3>3. a \in 1..(k - 1) /\ In(containers, Top.node, a)
      BY <3>1, <3>2 DEF In
    <3> QED BY <1>2, <3>3
  <2>3. CASE Top.node # Root /\ Top.prio # 0
    BY <1>1, <1>2, <2>3 DEF FrameNode, KeyBatch, InBatch, In
  <2> QED BY <2>1, <2>2, <2>3
<1>5. GoodBatches(deps, Keyed)
  <2>1. GoodBatches(deps, containers) /\ ~Has(containers, Key)
    BY <1>2, ResultIsGood, PlacedIsHas DEF DepsInv
  <2> QED BY <1>1, <1>2, <1>4, <2>1, AddKey DEF Keyed
<1>6. containers' = WithLeaves(deps, Key, Keyed)
  BY DEF DictItem, Key, Keyed
<1>7. /\ containers' \in Seq(Seq(Images)) /\ Len(containers') >= Len(Keyed)
      /\ \A m, b : In(containers', m, b) <=>
            In(Keyed, m, b) \/ (m \in Elements(deps.leaves[Key]) /\ b = Len(Keyed) + 1)
  BY <1>1, <1>2, <1>3, <1>6, WithLeavesFacts
<1>8. \A m : Has(Keyed, m) <=> Has(containers, m) \/ m = Key
  <2>1. \A m : (\E b : In(Keyed, m, b)) <=> (\E b : In(containers, m, b)) \/ m = Key
    BY <1>3
  <2> QED BY <2>1 DEF Has, In
<1>9. GoodBatches(deps, containers')
  <2>1. \A m \in Elements(deps.leaves[Key]) : ~Has(Keyed, m)
    <3>1. ASSUME NEW m \in Elements(deps.leaves[Key]) PROVE m \in Images /\ deps.parent[m] = Key
      BY <1>1, <1>2, TreeFacts
    <3>2. \A m \in Elements(deps.leaves[Key]) : m \notin Placed /\ m # Key
      BY <3>1, KeyFacts
    <3> QED BY <1>8, <3>2, PlacedIsHas
  <2>2. Has(Keyed, Key)
    BY <1>8
  <2> QED BY <1>1, <1>2, <1>3, <1>5, <1>6, <2>1, <2>2, AddLeaves
<1>10. \A m : Has(containers', m) <=> Has(Keyed, m) \/ m \in Elements(deps.leaves[Key])
  <2>1. \A m : (\E b : In(containers', m, b)) <=>
               (\E b : In(Keyed, m, b)) \/ m \in Elements(deps.leaves[Key])
    BY <1>7
  <2> QED BY <2>1 DEF Has, In
<1>11. \A m : m \in Placed' <=> Has(containers', m)
  BY DEF Placed, Has
<1>12. \A m : m \in Placed' <=> m \in Placed \/ m = Key \/ m \in Elements(deps.leaves[Key])
  BY <1>8, <1>10, <1>11, PlacedIsHas
<1> QED BY <1>1, <1>3, <1>7, <1>9, <1>12

LEMMA StackAfter ==
    ASSUME DepsInv, DictItem
    PROVE  /\ stack' \in Seq(Frames) /\ Len(stack') = Len(stack) + 1
           /\ \A k \in 1..(Len(stack) - 1) : stack'[k] = stack[k]
           /\ LET f == stack'[Len(stack)]
              IN  /\ f.node = Top.node /\ f.prio = Top.prio /\ f.todo = Tail(Top.todo)
           /\ LET f == stack'[Len(stack) + 1]
              IN  /\ f.node = Key /\ f.todo = deps.groups[Key]
                  /\ f.prio # 0 => f.prio = Len(Keyed) + 1 /\ Len(containers') = Len(Keyed) + 1
<1>1. /\ IsTree(deps) /\ stack \in Seq(Frames) /\ Len(stack) \in Nat \ {0}
      /\ Top \in Frames
  BY TopFacts DEF DictItem, Top
<1>2. /\ Key \in Nodes /\ Tail(Top.todo) \in Seq(Images) /\ Keyed \in Seq(Seq(Images))
  BY KeyFacts, ResultAfter DEF Nodes
<1> DEFINE n  == Len(stack) - 1
           f1 == [Top EXCEPT !.todo = Tail(@)]
           f2 == Frame(deps, Key, Keyed)
           front == SubSeq(stack, 1, n)
<1>3. f1 \in Frames /\ f1.node = Top.node /\ f1.prio = Top.prio /\ f1.todo = Tail(Top.todo)
  BY <1>1, <1>2 DEF Frames
<1>4. /\ f2 \in Frames /\ f2.node = Key /\ f2.todo = deps.groups[Key]
      /\ f2.prio # 0 => /\ f2.prio = Len(Keyed) + 1
                        /\ Len(WithLeaves(deps, Key, Keyed)) = Len(Keyed) + 1
  BY <1>1, <1>2, FrameType
<1>5. stack' = front \o <<f1, f2>> /\ containers' = WithLeaves(deps, Key, Keyed)
  BY DEF DictItem, Callers, Key, Keyed
<1> HIDE DEF f1, f2
<1>6. n \in 0..Len(stack) /\ Len(stack) = n + 1
  BY <1>1
<1> HIDE DEF n
<1>7. front \in Seq(Frames) /\ Len(front) = n /\ \A i \in 1..n : front[i] = stack[i]
  BY <1>1, <1>6, Prefix
<1> HIDE DEF front
<1>8. <<f1, f2>> \in Seq(Frames) /\ Len(<<f1, f2>>) = 2
  BY <1>3, <1>4
<1>9. /\ stack' \in Seq(Frames) /\ Len(stack') = n + 2
      /\ \A i \in 1..(n + 2) : stack'[i] = IF i <= n THEN front[i] ELSE <<f1, f2>>[i - n]
  BY <1>5, <1>7, <1>8, ConcatProperties
<1>10. stack'[n + 1] = f1 /\ stack'[n + 2] = f2 /\ \A i \in 1..n : stack'[i] = front[i]
  BY <1>6, <1>9
<1>11. Len(stack) + 1 = n + 2 /\ Len(stack) - 1 = n
  BY <1>6
<1> QED BY <1>3, <1>4, <1>5, <1>6, <1>7, <1>9, <1>10, <1>11

LEMMA DictItemInv == DepsInv /\ DictItem => DepsInv'
<1> SUFFICES ASSUME DepsInv, DictItem PROVE DepsInv'
  OBVIOUS
<1> DEFINE K == Len(stack)
<1>1. /\ IsTree(deps) /\ deps' = deps /\ K \in Nat \ {0} /\ K \in 1..K
      /\ stack[K] = Top /\ Top.node \in Nodes
      /\ FrameNode(Top) /\ FrameTodo(Top)
  BY TopFacts DEF DictItem, Top
<1>2. /\ Key \in Images /\ Key \in Nodes /\ Key \notin Placed /\ Key # Root
      /\ Key \in Elements(Top.todo)
      /\ deps.parent[Key] = Top.node
      /\ \A m \in Images : deps.parent[m] = Key => m \notin Placed /\ m # Key
      /\ Distinct(Tail(Top.todo))
      /\ Elements(Tail(Top.todo)) = Elements(Top.todo) \ {Key}
  BY KeyFacts DEF Nodes
<1>3. \A m : m \in Placed' <=> m \in Placed \/ m = Key \/ m \in Elements(deps.leaves[Key])
  BY ResultAfter
<1>4. \A m \in Elements(deps.leaves[Key]) : m \in Images /\ deps.parent[m] = Key
  BY <1>1, <1>2, TreeFacts
<1>5. DepsTypeOK'
  BY <1>1, ResultAfter, StackAfter DEF DepsInv, DepsTypeOK
<1>6. (ParentPlacedEarlier /\ PlacedOnce /\ NoEmptyBatch)'
  <2>1. GoodBatches(deps, containers)'
    BY <1>1, ResultAfter
  <2> QED BY <2>1 DEF GoodBatches, ParentPlacedEarlier, PlacedOnce, NoEmptyBatch, In, InBatch
<1>7. /\ Len(stack') = K + 1
      /\ \A k \in 1..(K - 1) : stack'[k] = stack[k]
      /\ stack'[K].node = Top.node /\ stack'[K].prio = Top.prio
      /\ stack'[K].todo = Tail(Top.todo)
      /\ stack'[K + 1].node = Key /\ stack'[K + 1].todo = deps.groups[Key]
  BY StackAfter
<1>8. \A k \in 1..Len(stack') : k \in 1..(K - 1) \/ k = K \/ k = K + 1
  BY <1>1, <1>7
<1>9. \A k \in 1..(K - 1) : /\ k \in 1..K /\ k # K
                            /\ stack[k] \in Frames /\ stack[k].node \in Nodes
                            /\ FrameNode(stack[k]) /\ FrameTodo(stack[k])
                            /\ stack[k].node # Top.node
  <2>1. stack \in Seq(Frames)
    BY DEF DepsInv, DepsTypeOK
  <2>2. \A k \in 1..(K - 1) : k \in 1..K /\ k # K
    BY <1>1
  <2>3. \A k \in 1..K : stack[k] \in Frames
    BY <2>1
  <2>4. \A k \in 1..K : stack[k].node \in Nodes
    BY <2>3 DEF Frames
  <2>5. \A k \in 1..K : FrameNode(stack[k]) /\ FrameTodo(stack[k])
    BY DEF DepsInv, FramesOK
  <2>6. \A k \in 1..K : stack[k].node = stack[K].node => k = K
    BY <1>1 DEF DepsInv, FramesOK
  <2> QED BY <1>1, <2>2, <2>3, <2>4, <2>5, <2>6
<1>10. \A k \in 1..(K - 1) : stack[k].node # Key
  BY <1>2, <1>9 DEF FrameNode
<1>11. Top.node # Key
  BY <1>1, <1>2 DEF FrameNode
<1> HIDE DEF K
\* the frames know no less of the larger result
<1>12. ASSUME NEW f, FrameNode(f) PROVE FrameNode(f)'
  <2>1. Len(containers) \in Nat /\ Len(containers') \in Nat /\ Len(containers') >= Len(containers)
    BY ResultAfter DEF DepsInv, DepsTypeOK
  <2>2. f.prio # 0 => f.prio \in 1..Len(containers')
    BY <1>12, <2>1 DEF FrameNode
  <2>3. f.node # Root => f.node \in Placed'
    BY <1>3, <1>12 DEF FrameNode
  <2>4. \A m, b : InBatch(m, b) => InBatch(m, b)'
    BY ResultAfter DEF InBatch, In
  <2> QED BY <1>12, <2>2, <2>3, <2>4 DEF FrameNode
<1>13. ASSUME NEW k \in 1..Len(stack') PROVE FrameNode(stack[k])'
  <2>1. CASE k \in 1..(K - 1)
    BY <1>7, <1>9, <1>12, <2>1 DEF FrameNode
  <2>2. CASE k = K
    BY <1>1, <1>7, <1>12, <2>2 DEF FrameNode
  <2>3. CASE k = K + 1
    <3> DEFINE f == stack'[K + 1]
    <3>1. f.node = Key /\ (f.prio # 0 => f.prio = Len(Keyed) + 1 /\ Len(containers') = Len(Keyed) + 1)
      BY StackAfter DEF K
    <3>2. Key \in Placed'
      BY <1>3
    <3>3. PICK a \in 1..Len(Keyed) : In(containers', Key, a)
      BY ResultAfter
    <3>4. Len(Keyed) \in Nat
      BY ResultAfter
    <3> HIDE DEF f
    <3>5. f.prio # 0 => f.prio \in 1..Len(containers') /\ a \in 1..(f.prio - 1)
      BY <3>1, <3>4
    <3> QED BY <2>3, <3>1, <3>2, <3>3, <3>5 DEF FrameNode, InBatch, In, f
  <2> QED BY <1>8, <2>1, <2>2, <2>3
<1>14. ASSUME NEW k \in 1..Len(stack') PROVE FrameTodo(stack[k])'
  <2>1. CASE k \in 1..(K - 1)
    <3>1. \A m \in Elements(stack[k].todo) :
             m \in Images /\ deps.parent[m] = stack[k].node /\ m \notin Placed
      <4> DEFINE g == stack[k].node
      <4>1. g \in Nodes /\ Elements(stack[k].todo) \subseteq Elements(deps.groups[g]) \ Placed
        BY <1>9, <2>1 DEF FrameTodo
      <4> HIDE DEF g
      <4>2. \A m \in Elements(deps.groups[g]) : m \in Images /\ deps.parent[m] = g
        BY <1>1, <4>1, TreeFacts
      <4> QED BY <4>1, <4>2 DEF g
    <3>2. \A m \in Elements(stack[k].todo) : m # Key /\ m \notin Elements(deps.leaves[Key])
      BY <1>2, <1>4, <1>9, <1>10, <2>1, <3>1
    <3> QED BY <1>1, <1>3, <1>7, <1>9, <2>1, <3>1, <3>2 DEF FrameTodo
  <2>2. CASE k = K
    <3>1. \A m \in Elements(Top.todo) :
             m \in Images /\ deps.parent[m] = Top.node /\ m \notin Placed
      BY <1>1, TreeFacts DEF FrameTodo
    <3>2. \A m \in Elements(Tail(Top.todo)) : m # Key /\ m \notin Elements(deps.leaves[Key])
      BY <1>2, <1>4, <1>11, <3>1
    <3> QED BY <1>1, <1>2, <1>3, <1>7, <2>2, <3>1, <3>2 DEF FrameTodo
  <2>3. CASE k = K + 1
    <3>1. /\ Distinct(deps.groups[Key])
          /\ \A m \in Elements(deps.groups[Key]) :
                /\ m \in Images /\ deps.parent[m] = Key
                /\ m \notin Elements(deps.leaves[Key])
      BY <1>1, <1>2, TreeFacts
    <3> QED BY <1>1, <1>2, <1>3, <1>7, <2>3, <3>1 DEF FrameTodo
  <2> QED BY <1>8, <2>1, <2>2, <2>3
<1>15. ASSUME NEW i \in 1..Len(stack'), NEW j \in 1..Len(stack'), stack'[i].node = stack'[j].node
       PROVE  i = j
  <2>1. \A a, b \in 1..(K - 1) : stack[a].node = stack[b].node => a = b
    BY <1>9 DEF DepsInv, FramesOK, K
  <2> QED BY <1>7, <1>8, <1>9, <1>10, <1>11, <1>15, <2>1
<1>16. FramesOK'
  BY <1>13, <1>14, <1>15 DEF FramesOK
<1>17. NothingLost'
  <2> SUFFICES ASSUME NEW m \in Images, deps.parent[m] \in Placed' \cup {Root}, m \notin Placed'
               PROVE  \E k \in 1..Len(stack') : m \in Elements(stack'[k].todo)
    BY <1>1 DEF NothingLost
  <2>1. K \in 1..Len(stack') /\ K + 1 \in 1..Len(stack') /\ \A k \in 1..(K - 1) : k \in 1..Len(stack')
    BY <1>1, <1>7
  <2>2. CASE deps.parent[m] = Key
    BY <1>1, <1>2, <1>3, <1>7, <2>1, <2>2, TreeFacts
  <2>3. CASE deps.parent[m] \in Elements(deps.leaves[Key])
    <3>1. \A l \in Elements(deps.leaves[Key]), c \in Images : deps.parent[c] # l
      BY <1>1, <1>2, TreeFacts
    <3> QED BY <2>3, <3>1
  <2>4. CASE deps.parent[m] \in Placed \cup {Root}
    <3>1. PICK k \in 1..K : m \in Elements(stack[k].todo)
      BY <1>3, <2>4 DEF DepsInv, NothingLost, K
    <3>2. k \in 1..(K - 1) \/ k = K
      BY <1>1
    <3>3. m # Key
      BY <1>3
    <3> QED BY <1>1, <1>2, <1>7, <2>1, <3>1, <3>2, <3>3
  <2> QED BY <1>3, <2>2, <2>3, <2>4
<1> QED BY <1>5, <1>6, <1>16, <1>17 DEF DepsInv

(***************************************************************************)
(* A step of the recursion keeps the inductive invariant; stated apart     *)
(* because BuildahBuilder takes the same steps (buildah.py:289-307).       *)
(***************************************************************************)
LEMMA DepsStepInv == DepsInv /\ [DepsNext]_depsVars => DepsInv'
<1>1. ASSUME DepsInv, DictItem PROVE DepsInv'
  BY <1>1, DictItemInv
<1>2. ASSUME DepsInv, Return PROVE DepsInv'
  BY <1>2, ReturnInv
<1>3. ASSUME DepsInv, UNCHANGED depsVars PROVE DepsInv'
  <2>1. deps' = deps /\ containers' = containers /\ stack' = stack
    BY <1>3 DEF depsVars
  <2>2. (DepsTypeOK /\ ParentPlacedEarlier /\ PlacedOnce /\ NoEmptyBatch)'
    BY <1>3, <2>1 DEF DepsInv, DepsTypeOK, ParentPlacedEarlier, PlacedOnce, NoEmptyBatch, InBatch
  <2>3. (FramesOK /\ NothingLost)'
    <3>1. FramesOK'
      <4>1. Placed' = Placed /\ \A m, b : InBatch(m, b)' <=> InBatch(m, b)
        BY <2>1 DEF Placed, InBatch
      <4>2. ASSUME NEW k \in 1..Len(stack) PROVE (FrameNode(stack[k]) /\ FrameTodo(stack[k]))'
        BY <1>3, <2>1, <4>1 DEF DepsInv, FramesOK, FrameNode, FrameTodo
      <4> QED BY <1>3, <2>1, <4>2 DEF DepsInv, FramesOK
    <3>2. NothingLost' <=> NothingLost
      BY <2>1, Zenon DEF NothingLost, Placed
    <3> QED BY <1>3, <3>1, <3>2 DEF DepsInv
  <2> QED BY <2>2, <2>3 DEF DepsInv
<1> QED BY <1>1, <1>2, <1>3 DEF DepsNext

(***************************************************************************)
(* Every tree is flattened into batches in which each image comes after    *)
(* its parent, appears once, and no batch is empty (buildah.py:255-310).   *)
(***************************************************************************)
THEOREM DepsInvariance == DepsSpec => []DepsInv
<1>1. DepsInit => DepsInv
  BY DepsInitInv
<1>2. DepsInv /\ [DepsNext]_depsVars => DepsInv'
  BY DepsStepInv
<1> QED BY <1>1, <1>2, PTL DEF DepsSpec

LEMMA DepsInvComplete == DepsInv => AllPlacedAtReturn
<1> SUFFICES ASSUME DepsInv, stack = <<>> PROVE Placed = Images
  BY DEF AllPlacedAtReturn
<1>1. IsTree(deps) /\ containers \in Seq(Seq(Images))
  BY TreesAssumption DEF DepsInv, DepsTypeOK
<1>2. Placed \subseteq Images
  BY <1>1, ElementsInType DEF Placed
<1> DEFINE S == Placed \cup {Root}
<1>3. S \in SUBSET Nodes /\ Root \in S
  BY <1>2 DEF Nodes
<1>4. \A m \in Images : deps.parent[m] \in S => m \in Placed
  BY DEF DepsInv, NothingLost
<1>5. \A g \in S : Below(deps, g) \subseteq S
  <2>1. ASSUME NEW g \in S, NEW m \in Below(deps, g) PROVE m \in Images /\ deps.parent[m] = g
    BY <1>1, <1>3, TreeFacts DEF Below
  <2> QED BY <1>4, <2>1
<1> HIDE DEF S
<1>6. Images \subseteq S
  BY <1>1, <1>3, <1>5 DEF IsTree
<1> QED BY <1>2, <1>6, RootAssumption DEF S

(***************************************************************************)
(* When _generate_deps returns no image of the tree has been forgotten     *)
(* (buildah.py:246, 310).                                                  *)
(***************************************************************************)
THEOREM DepsCompleteness == DepsSpec => []AllPlacedAtReturn
  BY DepsInvariance, DepsInvComplete, PTL

(***************************************************************************)
(* No image shares a batch with its parent or comes before it, whatever    *)
(* late growth the aliased lists see (buildah.py:289-307).                 *)
(***************************************************************************)
THEOREM ParentsPlacedEarlier == DepsSpec => []ParentPlacedEarlier
  BY DepsInvariance, PTL DEF DepsInv

(***************************************************************************)
(* build_all never gets an image twice (buildah.py:276-299).               *)
(***************************************************************************)
THEOREM ImagesPlacedOnce == DepsSpec => []PlacedOnce
  BY DepsInvariance, PTL DEF DepsInv

(***************************************************************************)
(* ThreadPoolExecutor is never given zero workers (buildah.py:293, 335).   *)
(***************************************************************************)
THEOREM BatchesNotEmpty == DepsSpec => []NoEmptyBatch
  BY DepsInvariance, PTL DEF DepsInv

----------------------------------------------------------------------------
(* What is left to do only gets less *)

OnStack(n) == \E k \in 1..Len(stack) : stack[k].node = n

LEMMA DepsLeftCases ==
    ASSUME NEW n
    PROVE  /\ n \in Images \ Placed => DepsLeft(n) = 2
           /\ n \notin Images \ Placed /\ OnStack(n) => DepsLeft(n) = 1
           /\ n \notin Images \ Placed /\ ~OnStack(n) => DepsLeft(n) = 0
           /\ (n \in Images \ Placed => DepsLeft(n) = 2)'
           /\ (n \notin Images \ Placed /\ OnStack(n) => DepsLeft(n) = 1)'
           /\ (n \notin Images \ Placed /\ ~OnStack(n) => DepsLeft(n) = 0)'
  BY Zenon DEF DepsLeft, OnStack

\* a dictionary's key is placed and its list entered
LEMMA DictItemCounts ==
    ASSUME DepsInv, DictItem
    PROVE  /\ \A n \in Nodes : DepsLeft(n)' <= DepsLeft(n)
           /\ \E n \in Nodes : DepsLeft(n)' < DepsLeft(n)
<1> DEFINE K == Len(stack)
<1>1. /\ Key \in Images /\ Key \in Nodes /\ Key \notin Placed
      /\ \A m : m \in Placed => m \in Placed'
      /\ Key \in Placed'
  BY KeyFacts, ResultAfter DEF Nodes
<1>2. /\ K \in Nat \ {0} /\ stack[K] = Top
      /\ Len(stack') = K + 1
      /\ \A k \in 1..(K - 1) : stack'[k] = stack[k]
      /\ stack'[K].node = Top.node /\ stack'[K + 1].node = Key
  BY TopFacts, StackAfter DEF DictItem, Top
<1> HIDE DEF K
<1>3. ASSUME NEW n PROVE OnStack(n)' <=> OnStack(n) \/ n = Key
  <2>1. \A k : k \in 1..K <=> k \in 1..(K - 1) \/ k = K
    BY <1>2
  <2>2. \A k : k \in 1..Len(stack') <=> k \in 1..(K - 1) \/ k = K \/ k = K + 1
    BY <1>2
  <2>3. OnStack(n) <=> (\E k \in 1..(K - 1) : stack[k].node = n) \/ Top.node = n
    BY <1>2, <2>1 DEF OnStack, K
  <2>4. OnStack(n)' <=> (\E k \in 1..(K - 1) : stack'[k].node = n) \/ Top.node = n \/ Key = n
    BY <1>2, <2>2 DEF OnStack
  <2> QED BY <1>2, <2>3, <2>4
<1>4. \E n \in Nodes : DepsLeft(n)' < DepsLeft(n)
  <2>1. PICK n \in Nodes : n = Key
    BY <1>1
  <2>2. DepsLeft(n) = 2
    BY <1>1, <2>1, DepsLeftCases
  <2>3. DepsLeft(n)' = 1
    BY <1>1, <1>3, <2>1, DepsLeftCases
  <2> QED BY <2>2, <2>3
<1>5. ASSUME NEW n \in Nodes PROVE DepsLeft(n)' <= DepsLeft(n)
  <2>1. DepsLeft(n) \in 0..2 /\ DepsLeft(n)' \in 0..2
    BY DepsLeftCases
  <2>2. CASE n \in Images \ Placed
    BY <2>1, <2>2, DepsLeftCases
  <2>3. CASE n \notin Images \ Placed
    BY <1>1, <1>3, <2>3, DepsLeftCases
  <2> QED BY <2>2, <2>3
<1> QED BY <1>1, <1>4, <1>5

\* the list call of the innermost frame's node is over
LEMMA ReturnCounts ==
    ASSUME DepsInv, Return
    PROVE  /\ \A n \in Nodes : DepsLeft(n)' <= DepsLeft(n)
           /\ \E n \in Nodes : DepsLeft(n)' < DepsLeft(n)
<1> DEFINE K == Len(stack)
<1>1. /\ stack \in Seq(Frames) /\ K \in Nat \ {0} /\ K \in 1..K /\ stack[K] = Top
      /\ Top.node \in Nodes /\ FrameNode(Top)
  BY TopFacts DEF Return, Top
<1>2. Placed' = Placed /\ stack' = SubSeq(stack, 1, K - 1)
  BY DEF Return, Callers, Placed
<1>3. Len(stack') = K - 1 /\ \A k \in 1..(K - 1) : stack'[k] = stack[k]
  <2> DEFINE n == K - 1
  <2>1. n \in 0..Len(stack) /\ stack' = SubSeq(stack, 1, n)
    BY <1>1, <1>2
  <2> HIDE DEF n
  <2>2. Len(stack') = n /\ \A k \in 1..n : stack'[k] = stack[k]
    BY <1>1, <2>1, Prefix
  <2> QED BY <2>2 DEF n
<1>4. \A n : OnStack(n)' => OnStack(n)
  <2>1. \A k \in 1..(K - 1) : k \in 1..K
    BY <1>1
  <2> QED BY <1>3, <2>1 DEF OnStack
<1>5. PICK t \in Nodes : t = Top.node
  BY <1>1
<1>6. OnStack(t) /\ ~OnStack(t)'
  <2>1. \A k \in 1..(K - 1) : k \in 1..K /\ k # K
    BY <1>1
  <2>2. \A k \in 1..K : stack[k].node = stack[K].node => k = K
    BY <1>1 DEF DepsInv, FramesOK
  <2>3. \A k \in 1..(K - 1) : stack'[k].node # t
    BY <1>1, <1>3, <1>5, <2>1, <2>2
  <2> QED BY <1>1, <1>3, <1>5, <2>3 DEF OnStack
<1>7. t \notin Images \ Placed
  BY <1>1, <1>5, RootAssumption DEF FrameNode
<1>8. DepsLeft(t) = 1 /\ DepsLeft(t)' = 0
  BY <1>2, <1>6, <1>7, DepsLeftCases
<1>9. ASSUME NEW n \in Nodes PROVE DepsLeft(n)' <= DepsLeft(n)
  BY <1>2, <1>4, DepsLeftCases
<1> QED BY <1>8, <1>9

(***************************************************************************)
(* Every call and every return of the recursion brings it nearer to its    *)
(* end, for every tree (buildah.py:289-310): no image is visited twice and *)
(* no call returns twice, so there are at most two steps per image and one *)
(* for the root.                                                           *)
(***************************************************************************)
THEOREM RecursionCounts ==
    DepsSpec => [][/\ \A n \in Nodes : DepsLeft(n)' <= DepsLeft(n)
                   /\ \E n \in Nodes : DepsLeft(n)' < DepsLeft(n)]_depsVars
<1>1. DepsInv /\ [DepsNext]_depsVars =>
        [/\ \A n \in Nodes : DepsLeft(n)' <= DepsLeft(n)
         /\ \E n \in Nodes : DepsLeft(n)' < DepsLeft(n)]_depsVars
  <2> SUFFICES ASSUME DepsInv, DepsNext
               PROVE  /\ \A n \in Nodes : DepsLeft(n)' <= DepsLeft(n)
                      /\ \E n \in Nodes : DepsLeft(n)' < DepsLeft(n)
    OBVIOUS
  <2>1. CASE DictItem
    BY <2>1, DictItemCounts
  <2>2. CASE Return
    BY <2>2, ReturnCounts
  <2> QED BY <2>1, <2>2 DEF DepsNext
<1> QED BY <1>1, DepsInvariance, PTL DEF DepsSpec
=============================================================================
