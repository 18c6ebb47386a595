------------------------ MODULE ContainerImageProofs ------------------------
(***************************************************************************)
(* The choice of the images, for any configuration directory and any       *)
(* command lines: the properties of ContainerImage are invariants.         *)
(***************************************************************************)
EXTENDS ContainerImage, FiniteSetTheorems, WellFoundedInduction, TLAPS

----------------------------------------------------------------------------
(* The smallest and the greatest of some numbers *)

LessThan == {ss \in Nat \X Nat : ss[1] < ss[2]}

LEMMA Least ==
    ASSUME NEW S \in SUBSET Nat, S # {}
    PROVE  \E x \in S : \A y \in S : x <= y
<1>1. IsWellFoundedOn(LessThan, Nat)
  BY NatLessThanWellFounded DEF LessThan, OpToRel
<1>2. PICK x \in S : \A y \in S : ~(<<y, x>> \in LessThan)
  BY <1>1, WFMin
<1>3. \A y \in S : x <= y
  <2> TAKE y \in S
  <2>1. /\ x \in Nat /\ y \in Nat /\ <<y, x>> \notin LessThan
        /\ <<y, x>> \in Nat \X Nat /\ <<y, x>>[1] = y /\ <<y, x>>[2] = x
    BY <1>2
  <2>2. ~(y < x)
    BY <2>1 DEF LessThan
  <2> QED BY <2>1, <2>2
<1> QED BY <1>3

LEMMA Greatest ==
    ASSUME NEW n \in Nat, NEW S \in SUBSET (1..n), S # {}
    PROVE  \E x \in S : \A y \in S : y <= x
<1> DEFINE T == {t \in Nat : n - t \in S}
<1>1. \A j \in S : n - j \in T
  <2> TAKE j \in S
  <2>1. n - j \in Nat /\ n - (n - j) = j
    OBVIOUS
  <2> QED BY <2>1
<1>2. PICK x \in T : \A y \in T : x <= y
  <2>1. T \in SUBSET Nat /\ T # {}
    BY <1>1
  <2> HIDE DEF T
  <2> QED BY <2>1, Least
<1>3. \A j \in S : j <= n - x
  <2> TAKE j \in S
  <2>1. n - j \in T
    BY <1>1
  <2> QED BY <1>2, <2>1
<1> QED BY <1>2, <1>3

----------------------------------------------------------------------------
(* Paths *)

\* the directory at depth i on an image's path has the first i as its path
LEMMA PathFacts ==
    ASSUME NEW l, IsLayout(l), NEW m \in Images
    PROVE  /\ Depth(l, m) \in Nat \ {0} /\ l.path[m][Depth(l, m)] = m
           /\ \A i \in 1..Depth(l, m) :
                 /\ l.path[m][i] \in Images
                 /\ Depth(l, l.path[m][i]) = i
                 /\ \A j \in 1..i : l.path[l.path[m][i]][j] = l.path[m][j]
<1>1. l.path[m] \in Seq(Images) /\ l.path[m] # <<>>
  BY DEF IsLayout
<1>2. Depth(l, m) \in Nat \ {0} /\ l.path[m][Depth(l, m)] = m
  BY <1>1 DEF IsLayout, Depth
<1>3. ASSUME NEW i \in 1..Depth(l, m)
      PROVE  /\ l.path[m][i] \in Images
             /\ Depth(l, l.path[m][i]) = i
             /\ \A j \in 1..i : l.path[l.path[m][i]][j] = l.path[m][j]
  <2>1. l.path[l.path[m][i]] = SubSeq(l.path[m], 1, i)
    BY DEF IsLayout, Depth
  <2>2. l.path[m][i] \in Images
    BY <1>1 DEF Depth
  <2>3. i \in Nat /\ 1..i \subseteq 1..Len(l.path[m])
    BY <1>2 DEF Depth
  <2>4. Len(SubSeq(l.path[m], 1, i)) = i
        /\ \A j \in 1..i : SubSeq(l.path[m], 1, i)[j] = l.path[m][j]
    BY <1>1, <2>3
  <2> QED BY <2>1, <2>2, <2>4 DEF Depth
<1> QED BY <1>2, <1>3

\* what is above an image, and how that is ordered
LEMMA AboveFacts ==
    ASSUME NEW l, IsLayout(l), NEW m \in Images, NEW a \in DirsAbove(l, m)
    PROVE  /\ a \in Images /\ Depth(l, a) \in 1..(Depth(l, m) - 1)
           /\ a = l.path[m][Depth(l, a)]
           /\ DirsAbove(l, a) \subseteq DirsAbove(l, m)
           /\ \A b \in DirsAbove(l, m) : Depth(l, b) < Depth(l, a) => b \in DirsAbove(l, a)
<1>1. PICK i \in 1..(Depth(l, m) - 1) : a = l.path[m][i]
  BY DEF DirsAbove
<1>2. /\ Depth(l, m) \in Nat \ {0}
      /\ \A k \in 1..Depth(l, m) :
            /\ l.path[m][k] \in Images
            /\ Depth(l, l.path[m][k]) = k
            /\ \A j \in 1..k : l.path[l.path[m][k]][j] = l.path[m][j]
  BY PathFacts
<1>3. i \in 1..Depth(l, m)
  BY <1>2
<1>4. a \in Images /\ Depth(l, a) = i /\ \A j \in 1..i : l.path[a][j] = l.path[m][j]
  BY <1>1, <1>2, <1>3
<1>5. DirsAbove(l, a) \subseteq DirsAbove(l, m)
  <2>1. \A j \in 1..(i - 1) : j \in 1..(Depth(l, m) - 1) /\ j \in 1..i
    BY <1>2
  <2> QED BY <1>4, <2>1 DEF DirsAbove
<1>6. ASSUME NEW b \in DirsAbove(l, m), Depth(l, b) < Depth(l, a)
      PROVE  b \in DirsAbove(l, a)
  <2>1. PICK j \in 1..(Depth(l, m) - 1) : b = l.path[m][j]
    BY DEF DirsAbove
  <2>2. j \in 1..Depth(l, m) /\ Depth(l, b) = j
    BY <1>2, <2>1
  <2>3. j \in 1..(i - 1) /\ j \in 1..i
    BY <1>4, <1>6, <2>2
  <2> QED BY <1>4, <2>1, <2>3 DEF DirsAbove
<1> QED BY <1>1, <1>4, <1>5, <1>6

\* find_image finds the nearest one
LEMMA NearestFacts ==
    ASSUME NEW l, IsLayout(l), NEW m \in Images
    PROVE  \/ ConfiguredAbove(l, m) = {} /\ Nearest(l, m) = BaseImage
           \/ /\ Nearest(l, m) \in ConfiguredAbove(l, m) /\ Nearest(l, m) \in Images
              /\ \A b \in ConfiguredAbove(l, m) : Depth(l, b) <= Depth(l, Nearest(l, m))
<1>1. CASE ConfiguredAbove(l, m) = {}
  BY <1>1 DEF Nearest
<1>2. CASE ConfiguredAbove(l, m) # {}
  <2> DEFINE S == {Depth(l, a) : a \in ConfiguredAbove(l, m)}
  <2>1. Depth(l, m) - 1 \in Nat /\ S \in SUBSET (1..(Depth(l, m) - 1)) /\ S # {}
    BY <1>2, PathFacts, AboveFacts DEF ConfiguredAbove
  <2>2. PICK d \in S : \A e \in S : e <= d
    <3> HIDE DEF S
    <3> QED BY <2>1, Greatest
  <2>3. \E a \in ConfiguredAbove(l, m) :
           \A b \in ConfiguredAbove(l, m) : Depth(l, b) <= Depth(l, a)
    BY <2>2
  <2>4. ConfiguredAbove(l, m) \subseteq Images
    BY AboveFacts DEF ConfiguredAbove
  <2> QED BY <1>2, <2>3, <2>4 DEF Nearest
<1> QED BY <1>1, <1>2

LEMMA ChainFacts ==
    ASSUME NEW l, IsLayout(l), NEW m \in Images
    PROVE  /\ Chain(l, m) \subseteq Images /\ m \in Chain(l, m)
           /\ \A c \in Chain(l, m) :
                 /\ Chain(l, c) \subseteq Chain(l, m)
                 /\ Nearest(l, c) \in Chain(l, m) \cup {BaseImage}
<1>1. Chain(l, m) \subseteq Images /\ m \in Chain(l, m)
  BY AboveFacts DEF Chain, ConfiguredAbove
<1>2. ASSUME NEW c \in Chain(l, m)
      PROVE  Chain(l, c) \subseteq Chain(l, m)
  BY AboveFacts DEF Chain, ConfiguredAbove
<1>3. ASSUME NEW c \in Chain(l, m)
      PROVE  Nearest(l, c) \in Chain(l, m) \cup {BaseImage}
  BY <1>1, <1>2, NearestFacts DEF Chain
<1> QED BY <1>1, <1>2, <1>3

\* every configured image above another is the nearest one of an image
\* between them, the lower one included
LEMMA NearestOfChain ==
    ASSUME NEW l, IsLayout(l), NEW m \in Images, NEW a \in ConfiguredAbove(l, m)
    PROVE  \E c \in Chain(l, m) : Nearest(l, c) = a
<1> DEFINE S == {i \in Nat : \E c \in Chain(l, m) : i = Depth(l, c) /\ a \in DirsAbove(l, c)}
<1>1. S \in SUBSET Nat /\ S # {}
  <2>1. Depth(l, m) \in Nat /\ m \in Chain(l, m) /\ a \in DirsAbove(l, m)
    BY PathFacts, ChainFacts DEF ConfiguredAbove
  <2> QED BY <2>1
<1>2. PICK i \in S : \A j \in S : i <= j
  <2> HIDE DEF S
  <2> QED BY <1>1, Least
<1>3. PICK c \in Chain(l, m) : i = Depth(l, c) /\ a \in DirsAbove(l, c)
  OBVIOUS
<1>4. c \in Images /\ Chain(l, c) \subseteq Chain(l, m) /\ a \in ConfiguredAbove(l, c)
  BY <1>3, ChainFacts DEF ConfiguredAbove
<1> DEFINE b == Nearest(l, c)
<1>5. /\ b \in ConfiguredAbove(l, c) /\ b \in Images /\ Depth(l, a) <= Depth(l, b)
  BY <1>4, NearestFacts
<1>6. /\ Depth(l, a) \in Nat /\ Depth(l, b) \in Nat /\ Depth(l, b) < Depth(l, c)
      /\ b = l.path[c][Depth(l, b)] /\ a = l.path[c][Depth(l, a)]
      /\ Depth(l, c) \in Nat
      /\ Depth(l, a) < Depth(l, b) => a \in DirsAbove(l, b)
  BY <1>4, <1>5, PathFacts, AboveFacts DEF ConfiguredAbove
<1>7. Depth(l, a) = Depth(l, b)
  <2>1. SUFFICES ASSUME Depth(l, a) < Depth(l, b) PROVE FALSE
    BY <1>5, <1>6
  <2>2. b \in Chain(l, m)
    BY <1>4, <1>5 DEF Chain
  <2>3. Depth(l, b) \in S
    BY <1>6, <2>1, <2>2
  <2> QED BY <1>2, <1>3, <1>6, <2>3
<1> QED BY <1>3, <1>6, <1>7

----------------------------------------------------------------------------
(* find_image *)

\* between an image and a configured one above it lies a finite number
LEMMA LevelFacts ==
    ASSUME NEW l, IsLayout(l), NEW m \in Images
    PROVE  /\ \A c \in Chain(l, m) : NewLevels(l, m)[c] \in Int
           /\ (\A i \in Images : l.files[i] = 1) =>
                 \A c \in Chain(l, m) : NewLevels(l, m)[c] = Depth(l, c)
<1> DEFINE start == Depth(l, m) - (l.files[m] - 1) * Cardinality(ConfiguredAbove(l, m))
           lower(c) == {a \in Chain(l, m) : Depth(l, a) > Depth(l, c)}
<1>1. NewLevels(l, m) = [c \in Chain(l, m) |-> start - Cardinality(lower(c))]
  BY DEF NewLevels
<1>2. IsFiniteSet(DirsAbove(l, m)) /\ Depth(l, m) \in Nat
  <2>1. Depth(l, m) \in Nat /\ Depth(l, m) - 1 \in Nat
    BY PathFacts
  <2> DEFINE f == [i \in 1..(Depth(l, m) - 1) |-> l.path[m][i]]
  <2>2. f \in Surjection(1..(Depth(l, m) - 1), DirsAbove(l, m))
    BY DEF Surjection, DirsAbove
  <2>3. IsFiniteSet(1..(Depth(l, m) - 1))
    BY <2>1, FS_Interval
  <2> QED BY <2>1, <2>2, <2>3, FS_Surjection
<1>3. IsFiniteSet(ConfiguredAbove(l, m)) /\ IsFiniteSet(Chain(l, m))
  <2>1. IsFiniteSet(ConfiguredAbove(l, m))
    BY <1>2, FS_Intersection DEF ConfiguredAbove
  <2>2. IsFiniteSet(ConfiguredAbove(l, m) \cup {m})
    BY <2>1, FS_AddElement
  <2>3. Chain(l, m) = ConfiguredAbove(l, m) \cup {m}
    BY DEF Chain
  <2> QED BY <2>1, <2>2, <2>3
<1>4. start \in Int
  <2>1. Cardinality(ConfiguredAbove(l, m)) \in Int /\ l.files[m] - 1 \in Int
    BY <1>3, FS_CardinalityType DEF IsLayout
  <2>2. \A x, y \in Int : x * y \in Int
    OBVIOUS
  <2> QED BY <1>2, <2>1, <2>2
<1>5. ASSUME NEW c \in Chain(l, m)
      PROVE  IsFiniteSet(lower(c)) /\ Cardinality(lower(c)) \in Nat
  <2>1. lower(c) \in SUBSET Chain(l, m)
    OBVIOUS
  <2> HIDE DEF lower
  <2>2. IsFiniteSet(lower(c))
    BY <1>3, <2>1, FS_Subset
  <2> QED BY <2>2, FS_CardinalityType
<1>6. ASSUME \A i \in Images : l.files[i] = 1, NEW c \in Chain(l, m)
      PROVE  start - Cardinality(lower(c)) = Depth(l, c)
  <2>1. start = Depth(l, m)
    <3>1. Cardinality(ConfiguredAbove(l, m)) \in Int
      BY <1>3, FS_CardinalityType
    <3>2. l.files[m] - 1 = 0
      BY <1>6
    <3>3. \A x \in Int : 0 * x = 0
      OBVIOUS
    <3> QED BY <1>2, <3>1, <3>2, <3>3
  <2>2. Chain(l, m) = {l.path[m][i] : i \in 1..Depth(l, m)}
    <3>1. ConfiguredAbove(l, m) = DirsAbove(l, m)
      <4>1. Identified(l) = Images
        BY <1>6 DEF Identified
      <4>2. DirsAbove(l, m) \subseteq Images
        BY AboveFacts
      <4> QED BY <4>1, <4>2 DEF ConfiguredAbove
    <3>2. Depth(l, m) \in Nat \ {0} /\ l.path[m][Depth(l, m)] = m
      BY PathFacts
    <3>3. \A i \in 1..Depth(l, m) : i \in 1..(Depth(l, m) - 1) \/ i = Depth(l, m)
      BY <3>2
    <3> QED BY <3>1, <3>2, <3>3 DEF Chain, DirsAbove
  <2>3. \A i \in 1..Depth(l, m) : Depth(l, l.path[m][i]) = i
    BY PathFacts
  <2>4. Depth(l, c) \in 1..Depth(l, m)
    BY <2>2, <2>3
  <2> DEFINE I == (Depth(l, c) + 1)..Depth(l, m)
             f == [i \in I |-> l.path[m][i]]
  <2>5. f \in Bijection(I, lower(c))
    <3>1. \A i \in I : i \in 1..Depth(l, m) /\ i > Depth(l, c)
      BY <1>2, <2>4
    <3>2. \A i \in I : f[i] \in lower(c)
      BY <2>2, <2>3, <3>1
    <3>3. \A i, j \in I : f[i] = f[j] => i = j
      BY <2>3, <3>1
    <3>4. \A a \in lower(c) : \E i \in I : f[i] = a
      <4> TAKE a \in lower(c)
      <4>1. PICK i \in 1..Depth(l, m) : a = l.path[m][i]
        BY <2>2
      <4>2. i > Depth(l, c)
        BY <2>3, <4>1
      <4>3. i \in I
        BY <1>2, <2>4, <4>2
      <4> QED BY <4>1, <4>3
    <3> QED BY <3>2, <3>3, <3>4 DEF Bijection, Injection, Surjection, IsInjective
  <2>6. IsFiniteSet(I) /\ Cardinality(I) = Depth(l, m) - Depth(l, c)
    <3>1. /\ Depth(l, c) \in Int /\ Depth(l, c) + 1 \in Int /\ Depth(l, m) \in Int
          /\ Depth(l, c) <= Depth(l, m)
      BY <1>2, <2>4
    <3>2. Cardinality(I) = IF Depth(l, c) + 1 > Depth(l, m) THEN 0
                           ELSE Depth(l, m) - (Depth(l, c) + 1) + 1
      BY <3>1, FS_Interval
    <3>3. IsFiniteSet(I)
      BY <3>1, FS_Interval
    <3> QED BY <3>1, <3>2, <3>3
  <2>7. Cardinality(lower(c)) = Depth(l, m) - Depth(l, c)
    <3> HIDE DEF I, f, lower
    <3>1. ExistsBijection(I, lower(c))
      BY <2>5 DEF ExistsBijection
    <3> QED BY <2>6, <3>1, FS_Bijection
  <2> HIDE DEF start, lower
  <2> QED BY <1>2, <2>1, <2>4, <2>7
<1> HIDE DEF start, lower
<1> QED BY <1>1, <1>4, <1>5, <1>6

\* what it records
LEMMA FindFacts ==
    ASSUME TypeOK, NEW m \in Images, FindImage(m)
    PROVE  /\ DOMAIN image_levels' = DOMAIN image_parents'
           /\ \A c \in DOMAIN image_parents' :
                 c \in Images /\ image_parents'[c] \in Images \cup {BaseImage}
           /\ \A c \in DOMAIN image_levels' : image_levels'[c] \in Int
           /\ DOMAIN image_parents' \subseteq DOMAIN image_parents \cup Chain(req.layout, m)
           /\ DOMAIN image_parents \subseteq DOMAIN image_parents'
           /\ \A c \in DOMAIN image_parents :
                 \/ image_parents'[c] = image_parents[c]
                 \/ image_parents'[c] = Nearest(req.layout, c)
           /\ \A c \in DOMAIN image_parents' \ DOMAIN image_parents :
                 image_parents'[c] = Nearest(req.layout, c)
           /\ PlainLayout =>
                 \A c \in DOMAIN image_parents :
                    \/ image_levels'[c] = image_levels[c]
                    \/ image_levels'[c] = Depth(req.layout, c)
           /\ HasConfig(req.layout, m) =>
                 /\ \A c \in Chain(req.layout, m) :
                       c \in DOMAIN image_parents' /\ image_parents'[c] = Nearest(req.layout, c)
                 /\ PlainLayout =>
                       \A c \in Chain(req.layout, m) : image_levels'[c] = Depth(req.layout, c)
<1> DEFINE l == req.layout
<1>1. IsLayout(l)
  BY RequestsAssumption DEF TypeOK, IsRequest
<1>2. CASE l.files[m] = 0
  <2>1. image_parents' = image_parents /\ image_levels' = image_levels
    BY <1>2 DEF FindImage
  <2>2. ~HasConfig(l, m)
    BY <1>2 DEF HasConfig
  <2> QED BY <2>1, <2>2 DEF TypeOK
<1>3. CASE l.files[m] # 0
  <2>1. /\ image_parents' = Updated(image_parents, NewParents(l, m))
        /\ image_levels' = Updated(image_levels, NewLevels(l, m))
    BY <1>3 DEF FindImage
  <2>2. DOMAIN NewParents(l, m) = Chain(l, m) /\ DOMAIN NewLevels(l, m) = Chain(l, m)
        /\ \A c \in Chain(l, m) : NewParents(l, m)[c] = Nearest(l, c)
    BY DEF NewParents, NewLevels
  <2>3. /\ DOMAIN image_parents' = Chain(l, m) \cup DOMAIN image_parents
        /\ \A c \in Chain(l, m) : image_parents'[c] = Nearest(l, c)
        /\ \A c \in DOMAIN image_parents \ Chain(l, m) : image_parents'[c] = image_parents[c]
    BY <2>1, <2>2 DEF Updated
  <2>4. /\ DOMAIN image_levels' = Chain(l, m) \cup DOMAIN image_levels
        /\ \A c \in Chain(l, m) : image_levels'[c] = NewLevels(l, m)[c]
        /\ \A c \in DOMAIN image_levels \ Chain(l, m) : image_levels'[c] = image_levels[c]
    BY <2>1, <2>2 DEF Updated
  <2>5. /\ Chain(l, m) \subseteq Images
        /\ \A c \in Chain(l, m) : Nearest(l, c) \in Images \cup {BaseImage}
    BY <1>1, ChainFacts
  <2>6. /\ \A c \in Chain(l, m) : NewLevels(l, m)[c] \in Int
        /\ PlainLayout => \A c \in Chain(l, m) : NewLevels(l, m)[c] = Depth(l, c)
    BY <1>1, LevelFacts DEF PlainLayout
  <2>7. /\ DOMAIN image_levels = DOMAIN image_parents /\ DOMAIN image_parents \subseteq Images
        /\ \A c \in DOMAIN image_parents : image_parents[c] \in Images \cup {BaseImage}
        /\ \A c \in DOMAIN image_levels : image_levels[c] \in Int
    BY DEF TypeOK
  <2> HIDE DEF l
  <2>8. /\ DOMAIN image_levels' = DOMAIN image_parents'
        /\ \A c \in DOMAIN image_parents' :
              c \in Images /\ image_parents'[c] \in Images \cup {BaseImage}
        /\ \A c \in DOMAIN image_levels' : image_levels'[c] \in Int
    BY <2>3, <2>4, <2>5, <2>6, <2>7
  <2>9. /\ DOMAIN image_parents' \subseteq DOMAIN image_parents \cup Chain(l, m)
        /\ DOMAIN image_parents \subseteq DOMAIN image_parents'
        /\ \A c \in DOMAIN image_parents :
              \/ image_parents'[c] = image_parents[c]
              \/ image_parents'[c] = Nearest(l, c)
        /\ \A c \in DOMAIN image_parents' \ DOMAIN image_parents :
              image_parents'[c] = Nearest(l, c)
        /\ \A c \in Chain(l, m) :
              c \in DOMAIN image_parents' /\ image_parents'[c] = Nearest(l, c)
    BY <2>3
  <2>10. PlainLayout =>
            /\ \A c \in DOMAIN image_parents :
                  \/ image_levels'[c] = image_levels[c]
                  \/ image_levels'[c] = Depth(l, c)
            /\ \A c \in Chain(l, m) : image_levels'[c] = Depth(l, c)
    BY <2>4, <2>6, <2>7
  <2> QED BY <2>8, <2>9, <2>10 DEF l
<1> QED BY <1>2, <1>3

----------------------------------------------------------------------------
(* The invariant *)

Asked == IF req.hasFile THEN req.config \ req.user ELSE Identified(req.layout)

Busy == pc # "idle"

\* what this command recorded of the images it has processed
Recorded ==
    Busy =>
        /\ Identified(req.layout) \subseteq identified_images
        /\ \A m \in prepared : \A c \in Chain(req.layout, m) :
              c \in DOMAIN image_parents /\ image_parents[c] = Nearest(req.layout, c)
        /\ PlainLayout =>
              \A m \in prepared :
                 m \in DOMAIN image_levels /\ image_levels[m] = Depth(req.layout, m)

\* what is processed, or will be
Covered ==
    /\ pc = "pass1" => Asked \subseteq prepared \cup todo
    /\ pc = "pass2" => Intended \subseteq prepared \cup todo
    /\ pc \in {"generate", "exclude", "handover"} => Intended \subseteq prepared

\* the first command of a process finds nothing recorded
FirstCommand ==
    /\ commands = 0 => ~Busy /\ identified_images = {} /\ DOMAIN image_parents = {}
                       /\ result = "none"
    /\ commands = 1 /\ Busy =>
          /\ prepared \cup todo \subseteq Intended
          /\ \A c \in DOMAIN image_parents :
                c \in Intended /\ image_parents[c] = Nearest(req.layout, c)

\* what is handed to BuildahBuilder
HandedOver ==
    /\ pc \in {"generate", "exclude", "handover"} => tcib_from = [m \in prepared |-> From(m)]
    /\ pc \in {"exclude", "handover"} => cont_map = prepared
    /\ pc = "handover" =>
          /\ identified_images \ prepared \subseteq excludes
          /\ excludes \subseteq req.user \cup (identified_images \ prepared) \cup {Redis, Valkey}
          /\ req.release10 /\ Redis \notin req.user \cup (identified_images \ prepared) =>
                excludes \subseteq req.user \cup (identified_images \ prepared) \cup {Redis}

ImgInv ==
    TypeOK /\ Recorded /\ Covered /\ FirstCommand /\ HandedOver /\ FailsForCause

LEMMA IntendedFacts ==
    ASSUME TypeOK
    PROVE  /\ IsLayout(req.layout) /\ Asked \subseteq Intended /\ Intended \subseteq Images
           /\ \A m \in Intended : Chain(req.layout, m) \subseteq Intended
<1>1. IsRequest(req)
  BY RequestsAssumption DEF TypeOK
<1>2. IsLayout(req.layout) /\ Asked \subseteq Images
  BY <1>1 DEF IsRequest, Asked, Identified
<1>3. Intended = UNION {Chain(req.layout, m) : m \in Asked}
  BY DEF Intended, Asked
<1>4. /\ \A m \in Asked : m \in Chain(req.layout, m)
      /\ \A m \in Asked : Chain(req.layout, m) \subseteq Images
      /\ \A m \in Asked : \A c \in Chain(req.layout, m) :
            Chain(req.layout, c) \subseteq Chain(req.layout, m)
  BY <1>2, ChainFacts
<1> QED BY <1>2, <1>3, <1>4

LEMMA FromFacts ==
    ASSUME TypeOK
    PROVE  \A m \in prepared : From(m) \in Images \cup {BaseImage, Outside}
BY DEF TypeOK, From

LEMMA ImgInit == Init => ImgInv
<1> SUFFICES ASSUME Init PROVE ImgInv
  OBVIOUS
<1>1. req \in Requests
  BY RequestsAssumption DEF Init
<1>2. DOMAIN image_parents = {} /\ DOMAIN image_levels = {} /\ DOMAIN tcib_from = {}
  BY DEF Init, NoDict
<1>3. TypeOK
  BY <1>1, <1>2, CommandsAssumption DEF Init, TypeOK
<1>4. Recorded /\ Covered /\ FirstCommand /\ HandedOver /\ FailsForCause
  BY <1>2 DEF Init, Recorded, Busy, Covered, FirstCommand, HandedOver, FailsForCause
<1> QED BY <1>3, <1>4 DEF ImgInv

LEMMA BeginInv ==
    ASSUME ImgInv, NEW r \in Requests, Begin(r)
    PROVE  ImgInv'
<1>1. /\ req' = r /\ pc' = "pass1" /\ commands' = commands + 1 /\ commands < MaxCommands
      /\ identified_images' = identified_images \cup Identified(r.layout)
      /\ todo' = IF r.hasFile THEN r.config \ r.user ELSE identified_images'
      /\ prepared' = {} /\ cont_map' = {} /\ excludes' = {} /\ result' = "none"
      /\ image_parents' = image_parents /\ image_levels' = image_levels
      /\ DOMAIN tcib_from' = {}
  BY DEF Begin, NoDict
<1>2. r.config \subseteq Images /\ Identified(r.layout) \subseteq Images
  BY RequestsAssumption DEF IsRequest, Identified
<1>3. TypeOK'
  BY <1>1, <1>2, CommandsAssumption DEF ImgInv, TypeOK
<1>4. Asked' \subseteq todo'
  BY <1>1 DEF Asked
<1>5. Recorded' /\ Covered' /\ HandedOver' /\ FailsForCause'
  BY <1>1, <1>4 DEF Recorded, Covered, HandedOver, FailsForCause
<1>6. FirstCommand'
  <2>1. commands \in Nat /\ commands' # 0
    BY <1>1, CommandsAssumption DEF ImgInv, TypeOK
  <2>2. ASSUME commands' = 1
        PROVE  todo' = Asked' /\ DOMAIN image_parents' = {}
    <3>1. commands = 0
      BY <1>1, <2>1, <2>2
    <3> QED BY <1>1, <3>1 DEF ImgInv, FirstCommand, Asked
  <2>3. Asked' \subseteq Intended'
    BY DEF Intended, Asked, Chain
  <2> QED BY <1>1, <2>1, <2>2, <2>3 DEF FirstCommand
<1> QED BY <1>3, <1>5, <1>6 DEF ImgInv

LEMMA ProcessImageInv ==
    ASSUME ImgInv, NEW m \in Images, ProcessImage(m)
    PROVE  ImgInv'
<1>1. /\ pc \in {"pass1", "pass2"} /\ m \in todo /\ HasConfig(req.layout, m) /\ FindImage(m)
      /\ prepared' = prepared \cup {m} /\ todo' = todo \ {m}
      /\ UNCHANGED <<req, pc, commands, identified_images, tcib_from, cont_map, excludes, result>>
  BY DEF ProcessImage
<1>2. TypeOK /\ Recorded /\ Covered /\ FirstCommand
  BY DEF ImgInv
<1>3. /\ IsLayout(req.layout)
      /\ \A i \in Intended : Chain(req.layout, i) \subseteq Intended
  BY <1>2, IntendedFacts
<1>4. /\ DOMAIN image_levels' = DOMAIN image_parents'
      /\ \A c \in DOMAIN image_parents' :
            c \in Images /\ image_parents'[c] \in Images \cup {BaseImage}
      /\ \A c \in DOMAIN image_levels' : image_levels'[c] \in Int
      /\ DOMAIN image_parents' \subseteq DOMAIN image_parents \cup Chain(req.layout, m)
      /\ DOMAIN image_parents \subseteq DOMAIN image_parents'
      /\ \A c \in DOMAIN image_parents :
            \/ image_parents'[c] = image_parents[c]
            \/ image_parents'[c] = Nearest(req.layout, c)
      /\ \A c \in DOMAIN image_parents' \ DOMAIN image_parents :
            image_parents'[c] = Nearest(req.layout, c)
      /\ PlainLayout =>
            \A c \in DOMAIN image_parents :
               \/ image_levels'[c] = image_levels[c]
               \/ image_levels'[c] = Depth(req.layout, c)
      /\ \A c \in Chain(req.layout, m) :
            c \in DOMAIN image_parents' /\ image_parents'[c] = Nearest(req.layout, c)
      /\ PlainLayout =>
            \A c \in Chain(req.layout, m) : image_levels'[c] = Depth(req.layout, c)
  BY <1>1, <1>2, FindFacts
<1>5. TypeOK'
  BY <1>1, <1>2, <1>4 DEF TypeOK
<1>6. Recorded'
  <2>1. Busy /\ m \in Chain(req.layout, m) /\ PlainLayout' = PlainLayout
    BY <1>1, <1>3, ChainFacts DEF Busy, PlainLayout
  <2>2. \A i \in prepared' : \A c \in Chain(req.layout, i) :
           c \in DOMAIN image_parents' /\ image_parents'[c] = Nearest(req.layout, c)
    BY <1>1, <1>2, <1>4, <2>1 DEF Recorded
  <2>3. ASSUME PlainLayout
        PROVE  \A i \in prepared' :
                  i \in DOMAIN image_levels' /\ image_levels'[i] = Depth(req.layout, i)
    BY <1>1, <1>2, <1>4, <2>1, <2>3 DEF Recorded, TypeOK
  <2>4. Identified(req.layout) \subseteq identified_images
    BY <1>2, <2>1 DEF Recorded
  <2> QED BY <1>1, <2>1, <2>2, <2>3, <2>4 DEF Recorded
<1>7. Covered'
  BY <1>1, <1>2 DEF Covered, Asked, Intended
<1>8. FirstCommand'
  <2>1. Busy /\ Intended' = Intended
    BY <1>1 DEF Busy, Intended
  <2>2. commands = 1 => m \in Intended
    BY <1>1, <1>2, <2>1 DEF FirstCommand
  <2>3. commands # 0
    BY <1>2, <2>1 DEF FirstCommand
  <2>4. ASSUME commands = 1
        PROVE  \A c \in DOMAIN image_parents' :
                  c \in Intended /\ image_parents'[c] = Nearest(req.layout, c)
    BY <1>2, <1>3, <1>4, <2>1, <2>2, <2>4 DEF FirstCommand
  <2> QED BY <1>1, <1>2, <2>1, <2>2, <2>3, <2>4 DEF FirstCommand, Busy
<1>9. HandedOver' /\ FailsForCause'
  BY <1>1 DEF ImgInv, HandedOver, FailsForCause, Intended
<1> QED BY <1>5, <1>6, <1>7, <1>8, <1>9 DEF ImgInv

LEMMA ConfigMissingInv ==
    ASSUME ImgInv, NEW m \in Images, ConfigMissing(m)
    PROVE  ImgInv'
<1>1. /\ pc \in {"pass1", "pass2"} /\ m \in todo /\ ~HasConfig(req.layout, m) /\ FindImage(m)
      /\ result' = "NoConfig" /\ pc' = "idle" /\ todo' = {}
      /\ UNCHANGED <<req, commands, identified_images, prepared, tcib_from, cont_map, excludes>>
  BY DEF ConfigMissing, Raise
<1>2. TypeOK /\ FirstCommand
  BY DEF ImgInv
<1>3. TypeOK'
  <2>1. /\ DOMAIN image_levels' = DOMAIN image_parents'
        /\ \A c \in DOMAIN image_parents' :
              c \in Images /\ image_parents'[c] \in Images \cup {BaseImage}
        /\ \A c \in DOMAIN image_levels' : image_levels'[c] \in Int
    BY <1>1, <1>2, FindFacts
  <2> QED BY <1>1, <1>2, <2>1 DEF TypeOK
<1>4. Recorded' /\ Covered' /\ HandedOver'
  BY <1>1 DEF Recorded, Busy, Covered, HandedOver
<1>5. FirstCommand' /\ FailsForCause'
  <2>1. Busy /\ commands # 0
    BY <1>1, <1>2 DEF FirstCommand, Busy
  <2>2. commands = 1 => m \in Intended
    BY <1>1, <1>2, <2>1 DEF FirstCommand
  <2> QED BY <1>1, <2>1, <2>2 DEF FirstCommand, FailsForCause, Busy, Intended
<1> QED BY <1>3, <1>4, <1>5 DEF ImgInv

LEMMA SecondPassInv ==
    ASSUME ImgInv, SecondPass
    PROVE  ImgInv'
<1>1. /\ pc = "pass1" /\ todo = {} /\ pc' = "pass2"
      /\ todo' = {image_parents[c] : c \in DOMAIN image_parents} \ {BaseImage}
      /\ UNCHANGED <<req, commands, identified_images, image_parents, image_levels,
                     prepared, tcib_from, cont_map, excludes, result>>
  BY DEF SecondPass, classVars
<1>2. TypeOK /\ Recorded /\ Covered /\ FirstCommand /\ Busy
  BY <1>1 DEF ImgInv, Busy
<1>3. /\ IsLayout(req.layout) /\ Intended \subseteq Images
      /\ \A m \in Intended : Chain(req.layout, m) \subseteq Intended
  BY <1>2, IntendedFacts
<1>4. TypeOK'
  BY <1>1, <1>2 DEF TypeOK
<1>5. Asked \subseteq prepared /\ Asked \subseteq Images
  BY <1>1, <1>2, <1>3, IntendedFacts DEF Covered
<1>6. ASSUME NEW a \in Intended
      PROVE  a \in prepared \cup todo'
  <2>1. PICK m \in Asked : a \in Chain(req.layout, m)
    BY DEF Intended, Asked
  <2>2. CASE a = m
    BY <1>5, <2>2
  <2>3. CASE a \in ConfiguredAbove(req.layout, m)
    <3>1. PICK c \in Chain(req.layout, m) : Nearest(req.layout, c) = a
      BY <1>3, <1>5, <2>3, NearestOfChain
    <3>2. c \in DOMAIN image_parents /\ image_parents[c] = a
      BY <1>2, <1>5, <3>1 DEF Recorded
    <3>3. a # BaseImage
      BY <1>3, NamesAssumption
    <3> QED BY <1>1, <3>2, <3>3
  <2> QED BY <2>1, <2>2, <2>3 DEF Chain
<1>7. Covered'
  BY <1>1, <1>6 DEF Covered, Intended
<1>8. FirstCommand'
  <2>1. ASSUME commands = 1, NEW a \in todo'
        PROVE  a \in Intended
    <3>1. PICK c \in DOMAIN image_parents : a = image_parents[c] /\ a # BaseImage
      BY <1>1
    <3>2. c \in Intended /\ a = Nearest(req.layout, c)
      BY <1>2, <2>1, <3>1 DEF FirstCommand
    <3> QED BY <1>3, <3>1, <3>2, ChainFacts
  <2> QED BY <1>1, <1>2, <2>1 DEF FirstCommand, Busy, Intended
<1>9. Recorded' /\ HandedOver' /\ FailsForCause'
  BY <1>1, <1>2 DEF ImgInv, Recorded, Busy, HandedOver, FailsForCause, Intended, PlainLayout
<1> QED BY <1>4, <1>7, <1>8, <1>9 DEF ImgInv

\* the steps after the images are processed
LEMMA LaterInv ==
    ASSUME ImgInv, \/ Inventory \/ BadOption \/ Generate \/ GenerateFails
                   \/ Exclude \/ BuildAll \/ UNCHANGED imgVars
    PROVE  ImgInv'
<1> USE DEF ImgInv, classVars
<1>1. UNCHANGED <<req, commands, identified_images, image_parents, image_levels, prepared>>
  BY DEF Inventory, BadOption, Generate, GenerateFails, Exclude, BuildAll, imgVars
<1>2. Intended' = Intended /\ PlainLayout' = PlainLayout /\ (Busy' => Busy)
  BY <1>1 DEF Inventory, BadOption, Generate, GenerateFails, Exclude, BuildAll, imgVars,
              Intended, PlainLayout, Busy, FirstCommand
<1>3. todo' \subseteq todo
  BY DEF Inventory, BadOption, Generate, GenerateFails, Exclude, BuildAll, imgVars, Raise
<1>4. Recorded' /\ \A m : From(m)' = From(m)
  BY <1>1, <1>2 DEF Recorded, From
<1>5. FirstCommand'
  <2>1. commands = 0 => ~Busy' /\ result' = "none"
    BY DEF Inventory, BadOption, Generate, GenerateFails, Exclude, BuildAll, imgVars,
           FirstCommand, Busy
  <2> QED BY <1>1, <1>2, <1>3, <2>1 DEF FirstCommand
<1>6. CASE Inventory
  <2>1. TypeOK'
    BY <1>1, <1>6, FromFacts DEF Inventory, TypeOK
  <2>2. HandedOver'
    BY <1>1, <1>4, <1>6 DEF Inventory, HandedOver
  <2>3. Covered' /\ FailsForCause'
    BY <1>1, <1>2, <1>6 DEF Inventory, Covered, FailsForCause
  <2> QED BY <1>4, <1>5, <2>1, <2>2, <2>3
<1>7. CASE BadOption
  <2>1. TypeOK'
    BY <1>1, <1>7 DEF BadOption, Raise, TypeOK
  <2>2. Covered' /\ HandedOver' /\ FailsForCause'
    BY <1>1, <1>2, <1>7 DEF BadOption, Raise, Covered, HandedOver, FailsForCause
  <2> QED BY <1>4, <1>5, <2>1, <2>2
<1>8. CASE Generate
  <2>1. TypeOK'
    BY <1>1, <1>8 DEF Generate, TypeOK
  <2>2. Covered' /\ HandedOver' /\ FailsForCause'
    BY <1>1, <1>2, <1>4, <1>8 DEF Generate, Covered, HandedOver, FailsForCause
  <2> QED BY <1>4, <1>5, <2>1, <2>2
<1>9. CASE GenerateFails
  <2>1. TypeOK'
    BY <1>1, <1>9 DEF GenerateFails, Raise, TypeOK
  <2>2. Covered' /\ HandedOver' /\ FailsForCause'
    BY <1>1, <1>2, <1>9 DEF GenerateFails, Raise, Covered, HandedOver, FailsForCause
  <2> QED BY <1>4, <1>5, <2>1, <2>2
<1>10. CASE Exclude
  <2> DEFINE unwanted == req.user \cup Unprepared
  <2>1. /\ pc = "exclude"
        /\ excludes' = unwanted \cup
                       {IF req.release10 /\ Redis \notin unwanted THEN Redis ELSE Valkey}
        /\ \/ pc' = "idle" /\ result' = "skipped"
           \/ pc' = "handover" /\ result' = result
        /\ UNCHANGED <<todo, tcib_from, cont_map>>
    BY <1>10 DEF Exclude
  <2>2. /\ identified_images \ prepared \subseteq excludes'
        /\ excludes' \subseteq req.user \cup (identified_images \ prepared) \cup {Redis, Valkey}
        /\ req.release10 /\ Redis \notin req.user \cup (identified_images \ prepared) =>
              excludes' \subseteq req.user \cup (identified_images \ prepared) \cup {Redis}
    BY <2>1 DEF Unprepared
  <2>3. req.user \subseteq Images
    BY RequestsAssumption DEF TypeOK, IsRequest
  <2> HIDE DEF unwanted
  <2>4. TypeOK'
    <3>1. excludes' \subseteq Images \cup {Redis, Valkey}
      BY <2>2, <2>3 DEF TypeOK
    <3> QED BY <1>1, <2>1, <3>1 DEF TypeOK
  <2>5. Covered' /\ HandedOver' /\ FailsForCause'
    BY <1>1, <1>2, <1>4, <2>1, <2>2 DEF Covered, HandedOver, FailsForCause
  <2> QED BY <1>4, <1>5, <2>4, <2>5
<1>11. CASE BuildAll
  <2>1. TypeOK'
    BY <1>1, <1>11 DEF BuildAll, TypeOK
  <2>2. Covered' /\ HandedOver' /\ FailsForCause'
    BY <1>1, <1>2, <1>11 DEF BuildAll, Covered, HandedOver, FailsForCause
  <2> QED BY <1>4, <1>5, <2>1, <2>2
<1>12. CASE UNCHANGED imgVars
  <2>1. UNCHANGED <<pc, todo, tcib_from, cont_map, excludes, result>> /\ Asked' = Asked
    BY <1>12 DEF imgVars, Asked
  <2>2. TypeOK'
    BY <1>1, <2>1 DEF TypeOK
  <2>3. Covered' /\ HandedOver' /\ FailsForCause'
    BY <1>1, <1>2, <1>4, <2>1 DEF Covered, HandedOver, FailsForCause
  <2> QED BY <1>4, <1>5, <2>2, <2>3
<1> QED BY <1>6, <1>7, <1>8, <1>9, <1>10, <1>11, <1>12

LEMMA ImgNextInv ==
    ASSUME ImgInv, [Next]_imgVars
    PROVE  ImgInv'
BY BeginInv, ProcessImageInv, ConfigMissingInv, SecondPassInv, LaterInv DEF Next, Waiting

----------------------------------------------------------------------------
(* The theorems *)

LEMMA ImgInvariant == Spec => []ImgInv
<1>1. ImgInv /\ [Next]_imgVars => ImgInv'
  BY ImgNextInv
<1> QED BY <1>1, ImgInit, PTL DEF Spec

(***************************************************************************)
(* What the invariant says of a state in which images are processed or     *)
(* built.                                                                  *)
(***************************************************************************)
LEMMA ImgProperties ==
    ASSUME ImgInv
    PROVE  /\ TypeOK /\ PreparedIsClosed /\ BuiltHasContainerfile /\ FromIsBuilt
           /\ SortedByDepth /\ FailsForCause
<1> USE DEF ImgInv
<1>1. PreparedIsClosed
  BY DEF PreparedIsClosed, Covered, FirstCommand, Busy
<1>2. BuiltHasContainerfile
  BY DEF BuiltHasContainerfile, Recorded, Busy, HandedOver
<1>3. FromIsBuilt
  <2> DEFINE l == req.layout
  <2>1. SUFFICES ASSUME pc = "handover", NEW m \in (cont_map \cap Intended) \ excludes
                 PROVE  /\ tcib_from[m] = BaseImage <=> m = Base /\ m \notin l.from
                        /\ FromTree(l, m) =>
                              /\ tcib_from[m] \in DirsAbove(l, m)
                              /\ \/ tcib_from[m] \in cont_map \ excludes
                                 \/ tcib_from[m] \in req.user \cup {Redis, Valkey}
                        /\ ~FromTree(l, m) => tcib_from[m] \notin Images
    BY DEF FromIsBuilt
  <2>2. /\ cont_map = prepared /\ Intended \subseteq prepared /\ m \in Images
        /\ excludes \subseteq req.user \cup (identified_images \ prepared) \cup {Redis, Valkey}
        /\ IsLayout(l) /\ Chain(l, m) \subseteq Intended
    BY <2>1, IntendedFacts DEF Covered, HandedOver
  <2>3. /\ m \in DOMAIN image_parents /\ image_parents[m] = Nearest(l, m)
        /\ tcib_from[m] = From(m)
    BY <2>1, <2>2, ChainFacts DEF Recorded, Busy, HandedOver
  <2>4. tcib_from[m] = IF m \in l.from THEN Outside
                       ELSE IF m = Base THEN BaseImage
                       ELSE IF Nearest(l, m) = BaseImage THEN Outside ELSE Nearest(l, m)
    BY <2>3 DEF From
  <2> HIDE DEF l
  <2>5. CASE ConfiguredAbove(l, m) = {} /\ Nearest(l, m) = BaseImage
    BY <2>4, <2>5, NamesAssumption DEF FromTree
  <2>6. CASE Nearest(l, m) \in ConfiguredAbove(l, m) /\ Nearest(l, m) \in Images
    <3>1. Nearest(l, m) \in prepared /\ Nearest(l, m) \in DirsAbove(l, m)
      BY <2>2, <2>6 DEF Chain, ConfiguredAbove
    <3>2. /\ FromTree(l, m) <=> m # Base /\ m \notin l.from
          /\ Nearest(l, m) # BaseImage /\ Outside \notin Images /\ BaseImage \notin Images
          /\ Outside # BaseImage
      BY <2>6, NamesAssumption DEF FromTree
    <3>3. CASE FromTree(l, m)
      <4>1. tcib_from[m] = Nearest(l, m)
        BY <2>4, <3>2, <3>3
      <4> QED BY <2>2, <2>6, <3>1, <3>2, <3>3, <4>1
    <3>4. CASE ~FromTree(l, m)
      BY <2>4, <3>2, <3>4
    <3> QED BY <3>3, <3>4
  <2> QED BY <2>2, <2>5, <2>6, NearestFacts
<1>4. SortedByDepth
  BY DEF SortedByDepth, Recorded, Busy
<1> QED BY <1>1, <1>2, <1>3, <1>4

(***************************************************************************)
(* What the command records, in the class too (container_image.py:61-66),  *)
(* is always made of images and the base image.                            *)
(***************************************************************************)
THEOREM ImgTypeCorrect == Spec => []TypeOK
BY ImgInvariant, ImgProperties, PTL

(***************************************************************************)
(* Two passes over the images (container_image.py:562-573) are enough for  *)
(* trees of any depth, with any directories that only group others, and    *)
(* whatever earlier commands of the process recorded.                      *)
(***************************************************************************)
THEOREM TwoPassesSuffice == Spec => []PreparedIsClosed
BY ImgInvariant, ImgProperties, PTL

(***************************************************************************)
(* BuildahBuilder gets no image without a Containerfile                    *)
(* (container_image.py:734-768) in a tree where every directory has a      *)
(* config.                                                                 *)
(***************************************************************************)
THEOREM ContainerfilesWritten == Spec => []BuiltHasContainerfile
BY ImgInvariant, ImgProperties, PTL

(***************************************************************************)
(* What an intended image is FROM (container_image.py:593-607, 672-674) is *)
(* above it in the tree and built, too, unless excluded on purpose; where  *)
(* it is none of the tree, the image is `base', has its own tcib_from, or  *)
(* lies below no config.                                                   *)
(***************************************************************************)
THEOREM FromImagesBuilt == Spec => []FromIsBuilt
BY ImgInvariant, ImgProperties, PTL

(***************************************************************************)
(* Sorting by the recorded levels (container_image.py:576-581) is sorting  *)
(* by depth, if every directory has one YAML file.                         *)
(***************************************************************************)
THEOREM LevelsSort == Spec => []SortedByDepth
BY ImgInvariant, ImgProperties, PTL

(***************************************************************************)
(* A first command is refused (container_image.py:449-457) only for an     *)
(* image it needs.                                                         *)
(***************************************************************************)
THEOREM RefusedForCause == Spec => []FailsForCause
BY ImgInvariant, ImgProperties, PTL

----------------------------------------------------------------------------
(* Where what the code's comments say of the excludes is true; the runs    *)
(* MCTcibShellStale and MCTcibShellValkey show where it is not.            *)

(***************************************************************************)
(* The first command of a process excludes whatever is not intended to be  *)
(* built (container_image.py:734), if every directory has a config.        *)
(***************************************************************************)
THEOREM FirstCommandExcludesTheRest ==
    Spec => [](commands = 1 /\ Identified(req.layout) = Images => NotIntendedExcluded)
<1>1. ASSUME ImgInv, commands = 1, Identified(req.layout) = Images PROVE NotIntendedExcluded
  <2>1. SUFFICES ASSUME pc = "handover" PROVE Images \ Intended \subseteq excludes
    BY DEF NotIntendedExcluded
  <2>2. prepared \subseteq Intended /\ Images \subseteq identified_images
    BY <1>1, <2>1 DEF ImgInv, FirstCommand, Recorded, Busy
  <2> QED BY <1>1, <2>1, <2>2 DEF ImgInv, HandedOver
<1> QED BY <1>1, ImgInvariant, PTL

(***************************************************************************)
(* With release 10 valkey is built (container_image.py:736-740) when redis *)
(* is intended, too, and the user does not exclude it, in any command of   *)
(* any process.                                                            *)
(***************************************************************************)
THEOREM ValkeyIfRedisIntended ==
    Spec => [](Redis \in Intended \ (req.user \cup {Valkey}) => ValkeyOnEL10)
<1>1. ASSUME ImgInv, Redis \in Intended \ (req.user \cup {Valkey}) PROVE ValkeyOnEL10
  <2>1. SUFFICES ASSUME pc = "handover", req.release10, Valkey \in Intended \ req.user
                 PROVE  Valkey \notin excludes
    BY DEF ValkeyOnEL10
  <2>2. Redis \in prepared /\ Valkey \in prepared /\ Valkey # Redis
    BY <1>1, <2>1 DEF ImgInv, Covered
  <2>3. excludes \subseteq req.user \cup (identified_images \ prepared) \cup {Redis}
    BY <1>1, <2>1, <2>2 DEF ImgInv, HandedOver
  <2> QED BY <2>1, <2>2, <2>3
<1> QED BY <1>1, ImgInvariant, PTL
=============================================================================
