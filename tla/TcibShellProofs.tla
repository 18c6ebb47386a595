-------------------------- MODULE TcibShellProofs --------------------------
(***************************************************************************)
(* The commands of a process put together: the shell is a behaviour of     *)
(* ContainerImage and of AnsibleRunner, so that their theorems hold of it, *)
(* and the builder is given what it needs to build the images in order.    *)
(***************************************************************************)
EXTENDS TcibShell, ContainerImageProofs

RunnerProofs == INSTANCE AnsibleRunnerProofs

----------------------------------------------------------------------------
(* The shell implements its parts *)

LEMMA OfferedRequests == Offered \subseteq Requests
BY RepeatedAssumption DEF Offered

LEMMA StepOfImages ==
    ASSUME [ShellNext]_shellVars
    PROVE  [Next]_imgVars
<1>1. CASE UNCHANGED shellVars
  BY <1>1 DEF shellVars
<1>2. ASSUME NEW command \in {"hotfix", "update"}, Modify(command) PROVE [Next]_imgVars
  BY <1>2 DEF Modify
<1>3. ASSUME NEW r \in Offered, BeginBuild(r) PROVE [Next]_imgVars
  BY <1>3, OfferedRequests DEF BeginBuild, Next
<1>4. CASE \/ ModifyReturns \/ CallPlaybook \/ Playbook \/ Decide \/ ShellWaits
           \/ \E m \in Images : BuildStep(m)
  BY <1>4 DEF ModifyReturns, CallPlaybook, Playbook, Decide, BuildStep, ShellWaits, shellVars
<1>5. CASE Choose
  BY <1>5 DEF Choose, Next
<1>6. CASE PlaybookDone \/ PlaybookFailed \/ HandOver \/ BuildReturns
  BY <1>6 DEF PlaybookDone, PlaybookFailed, HandOver, BuildReturns, Next
<1> QED BY <1>1, <1>2, <1>3, <1>4, <1>5, <1>6 DEF ShellNext

LEMMA StepOfRunner ==
    ASSUME [ShellNext]_shellVars
    PROVE  [Runner!Next]_runnerVars
<1>1. CASE UNCHANGED shellVars
  BY <1>1 DEF shellVars
<1>2. ASSUME NEW command \in {"hotfix", "update"}, Modify(command)
      PROVE  Runner!Next
  BY <1>2 DEF Modify, Runner!Next, Runner!Commands
<1>3. CASE CallPlaybook
  BY <1>3 DEF CallPlaybook, Runner!Next, Runner!Commands
<1>4. CASE Playbook
  BY <1>4 DEF Playbook, Runner!Next
<1>5. CASE ModifyReturns \/ PlaybookDone \/ PlaybookFailed
  BY <1>5 DEF ModifyReturns, PlaybookDone, PlaybookFailed, Runner!Next
<1>6. CASE \/ \E r \in Offered : BeginBuild(r)
           \/ Choose \/ HandOver \/ Decide \/ BuildReturns \/ ShellWaits
           \/ \E m \in Images : BuildStep(m)
  BY <1>6 DEF BeginBuild, Choose, HandOver, Decide, BuildReturns, BuildStep, ShellWaits,
              shellVars
<1> QED BY <1>1, <1>2, <1>3, <1>4, <1>5, <1>6 DEF ShellNext

(***************************************************************************)
(* The choice of the images, in a process that also runs playbooks, builds *)
(* and executes other commands, is that of ContainerImage.                 *)
(***************************************************************************)
THEOREM ShellChoosesImages == ShellSpec => Spec
<1>1. ShellInit => Init
  BY DEF ShellInit
<1> QED BY <1>1, StepOfImages, PTL DEF ShellSpec, Spec

(***************************************************************************)
(* The playbooks of hotfix, update and build are run as AnsibleRunner      *)
(* says: build goes on only after the playbook, and does nothing else with *)
(* the directories.                                                        *)
(***************************************************************************)
THEOREM ShellRunsPlaybooks == ShellSpec => Runner!Spec
<1>1. ShellInit => Runner!Init
  BY DEF ShellInit
<1>2. Runner!runnerVars = runnerVars
  BY DEF Runner!runnerVars, runnerVars
<1>3. [ShellNext]_shellVars => [Runner!Next]_(Runner!runnerVars)
  BY <1>2, StepOfRunner DEF Runner!runnerVars, runnerVars
<1> QED BY <1>1, <1>3, PTL DEF ShellSpec, Runner!Spec

----------------------------------------------------------------------------
(* The theorems of the parts, of the shell *)

\* the runner here and in the proofs about it
LEMMA SameRunner ==
    /\ Runner!Init <=> RunnerProofs!Init
    /\ Runner!Next <=> RunnerProofs!Next
    /\ Runner!runnerVars = RunnerProofs!runnerVars
    /\ Runner!NothingLeft <=> RunnerProofs!NothingLeft
    /\ Runner!OutcomeReported <=> RunnerProofs!OutcomeReported
<1>1. \A command, chdir : Runner!Enter(command, chdir) <=> RunnerProofs!Enter(command, chdir)
  BY DEF Runner!Enter, RunnerProofs!Enter
<1>2. Runner!Leave <=> RunnerProofs!Leave
  BY DEF Runner!Leave, RunnerProofs!Leave, Runner!Inner, RunnerProofs!Inner
<1>3. Runner!Writes = RunnerProofs!Writes /\ Runner!WorkDir = RunnerProofs!WorkDir
  BY DEF Runner!Writes, RunnerProofs!Writes, Runner!WorkDir, RunnerProofs!WorkDir,
         Runner!NoCode, RunnerProofs!NoCode
<1>4. \A n : Runner!Write(n) <=> RunnerProofs!Write(n)
  BY <1>3 DEF Runner!Write, RunnerProofs!Write
<1>5. \A from, to : Runner!WriteStep(from, to) <=> RunnerProofs!WriteStep(from, to)
  BY <1>3, <1>4 DEF Runner!WriteStep, RunnerProofs!WriteStep
<1>6. \A command : Runner!Call(command) <=> RunnerProofs!Call(command)
  BY <1>1 DEF Runner!Call, RunnerProofs!Call, Runner!NoCode, RunnerProofs!NoCode
<1>7. Runner!RunPlaybook <=> RunnerProofs!RunPlaybook
  <2>1. Runner!Prepare <=> RunnerProofs!Prepare
    BY <1>5 DEF Runner!Prepare, RunnerProofs!Prepare
  <2>2. Runner!Configure <=> RunnerProofs!Configure
    BY <1>5 DEF Runner!Configure, RunnerProofs!Configure
  <2>3. Runner!Save <=> RunnerProofs!Save
    BY <1>5 DEF Runner!Save, RunnerProofs!Save
  <2>4. Runner!EnterArtifacts <=> RunnerProofs!EnterArtifacts
    BY <1>1 DEF Runner!EnterArtifacts, RunnerProofs!EnterArtifacts
  <2>5. Runner!LeaveArtifacts <=> RunnerProofs!LeaveArtifacts
    BY <1>2 DEF Runner!LeaveArtifacts, RunnerProofs!LeaveArtifacts
  <2>6. Runner!RunRaises <=> RunnerProofs!RunRaises
    BY DEF Runner!RunRaises, RunnerProofs!RunRaises
  <2>7. \A code : Runner!Run(code) <=> RunnerProofs!Run(code)
    BY DEF Runner!Run, RunnerProofs!Run
  <2>8. Runner!ReturnCodes = RunnerProofs!ReturnCodes
    BY DEF Runner!ReturnCodes, RunnerProofs!ReturnCodes
  <2> QED BY <2>1, <2>2, <2>3, <2>4, <2>5, <2>6, <2>7, <2>8
          DEF Runner!RunPlaybook, RunnerProofs!RunPlaybook
<1>8. Runner!WritePlaybook <=> RunnerProofs!WritePlaybook
  BY <1>5 DEF Runner!WritePlaybook, RunnerProofs!WritePlaybook
<1>9. Runner!NoExtraConfig <=> RunnerProofs!NoExtraConfig
  BY DEF Runner!NoExtraConfig, RunnerProofs!NoExtraConfig
<1>10. Runner!Fail <=> RunnerProofs!Fail
  BY <1>3, <1>4 DEF Runner!Fail, RunnerProofs!Fail
<1>11. Runner!Return <=> RunnerProofs!Return
  BY <1>2 DEF Runner!Return, RunnerProofs!Return, Runner!NoCode, RunnerProofs!NoCode
<1>12. Runner!Next <=> RunnerProofs!Next
  <2>1. Runner!Commands = RunnerProofs!Commands
    BY DEF Runner!Commands, RunnerProofs!Commands
  <2> QED BY <1>6, <1>7, <1>8, <1>9, <1>10, <1>11, <2>1 DEF Runner!Next, RunnerProofs!Next
<1>13. Runner!Init <=> RunnerProofs!Init
  BY DEF Runner!Init, RunnerProofs!Init, Runner!NoCode, RunnerProofs!NoCode
<1>14. Runner!runnerVars = RunnerProofs!runnerVars
  BY DEF Runner!runnerVars, RunnerProofs!runnerVars
<1>15. Runner!NothingLeft <=> RunnerProofs!NothingLeft
  BY DEF Runner!NothingLeft, RunnerProofs!NothingLeft, Runner!Open, RunnerProofs!Open
<1>16. Runner!OutcomeReported <=> RunnerProofs!OutcomeReported
  BY <1>3 DEF Runner!OutcomeReported, RunnerProofs!OutcomeReported, Runner!NoCode,
      RunnerProofs!NoCode
<1> QED BY <1>12, <1>13, <1>14, <1>15, <1>16

LEMMA ShellRunner == ShellSpec => RunnerProofs!Spec
<1>1. ShellInit => RunnerProofs!Init
  BY SameRunner DEF ShellInit
<1>2. [ShellNext]_shellVars => [RunnerProofs!Next]_(RunnerProofs!runnerVars)
  BY SameRunner, StepOfRunner DEF RunnerProofs!runnerVars, runnerVars
<1> QED BY <1>1, <1>2, PTL DEF ShellSpec, RunnerProofs!Spec

(***************************************************************************)
(* Whatever commands a process executes, and whatever is raised in them,   *)
(* no temporary directory is left that the log did not announce, and the   *)
(* process is back in its directory (utils.py:46-117).                     *)
(***************************************************************************)
THEOREM ShellLeavesNothing == ShellSpec => []NothingLeft
<1>1. RunnerProofs!NothingLeft => NothingLeft
  BY SameRunner DEF NothingLeft
<1> QED BY <1>1, ShellRunner, RunnerProofs!RunnerLeavesNothing, PTL

(***************************************************************************)
(* No command goes on after a playbook that did not succeed, and what is   *)
(* reported of it is on disk (utils.py:517-553).                           *)
(***************************************************************************)
THEOREM ShellReports == ShellSpec => []OutcomeReported
<1>1. RunnerProofs!OutcomeReported => OutcomeReported
  BY SameRunner DEF OutcomeReported
<1> QED BY <1>1, ShellRunner, RunnerProofs!RunnerReports, PTL

----------------------------------------------------------------------------
(* The tree *)

\* the directory in which another one is
LEMMA ParentFacts ==
    ASSUME NEW l, IsLayout(l), NEW m \in Images
    PROVE  \/ Depth(l, m) = 1 /\ TreeParent(l, m) = BaseImage
           \/ /\ TreeParent(l, m) \in Images
              /\ Depth(l, TreeParent(l, m)) = Depth(l, m) - 1
<1>1. /\ Depth(l, m) \in Nat \ {0}
      /\ \A i \in 1..Depth(l, m) : l.path[m][i] \in Images /\ Depth(l, l.path[m][i]) = i
  BY PathFacts
<1>2. CASE Depth(l, m) = 1
  BY <1>2 DEF TreeParent
<1>3. CASE Depth(l, m) # 1
  <2>1. Depth(l, m) - 1 \in 1..Depth(l, m)
    BY <1>1, <1>3
  <2> QED BY <1>1, <1>3, <2>1 DEF TreeParent
<1> QED BY <1>2, <1>3

\* a set with the root in it that is closed under Below is everything
LEMMA AllBelowTheRoot ==
    ASSUME NEW l, IsLayout(l), NEW S, BaseImage \in S,
           \A m \in Images : TreeParent(l, m) \in S => m \in S
    PROVE  Images \subseteq S
<1> DEFINE D == {Depth(l, m) : m \in Images \ S}
<1>1. ASSUME Images \ S # {} PROVE FALSE
  <2>1. D \in SUBSET Nat /\ D # {}
    BY <1>1, PathFacts
  <2>2. PICK d \in D : \A e \in D : d <= e
    <3> HIDE DEF D
    <3> QED BY <2>1, Least
  <2>3. PICK m \in Images \ S : Depth(l, m) = d
    BY <2>2
  <2>4. TreeParent(l, m) \in Images \ S /\ Depth(l, TreeParent(l, m)) = d - 1
    BY <2>3, ParentFacts
  <2>5. d - 1 \in D
    BY <2>4
  <2> QED BY <2>1, <2>2, <2>5
<1> QED BY <1>1

(***************************************************************************)
(* What build_tree (container_image.py:309-324) makes of a configuration   *)
(* directory, however its directories are nested and in whatever order     *)
(* they are found, is a tree: what BuildahDeps assumes of its input.       *)
(***************************************************************************)
THEOREM BuildTreeIsTree ==
    \A l : IsLayout(l) => \A t : IsBuildTree(t, l) => Tree!IsTree(t)
<1> SUFFICES ASSUME NEW l, IsLayout(l), NEW t, IsBuildTree(t, l) PROVE Tree!IsTree(t)
  OBVIOUS
<1>1. /\ t.parent = [m \in Images |-> TreeParent(l, m)]
      /\ t.leaves \in [Tree!Nodes -> Seq(Images)]
      /\ t.groups \in [Tree!Nodes -> Seq(Images)]
      /\ \A g \in Tree!Nodes :
            /\ Tree!Distinct(t.leaves[g]) /\ Tree!Distinct(t.groups[g])
            /\ Tree!Elements(t.leaves[g]) = {m \in Children(l, g) : Children(l, m) = {}}
            /\ Tree!Elements(t.groups[g]) = {m \in Children(l, g) : Children(l, m) # {}}
  BY DEF IsBuildTree
<1>2. \A g \in Tree!Nodes : Tree!Below(t, g) = Children(l, g)
  BY <1>1 DEF Tree!Below
<1>3. t.parent \in [Images -> Tree!Nodes]
  BY <1>1, ParentFacts DEF Tree!Nodes
<1>4. \A m \in Images, g \in Tree!Nodes : m \in Tree!Below(t, g) <=> t.parent[m] = g
  BY <1>1, <1>2 DEF Children
<1>5. \A g \in Tree!Nodes :
         /\ Tree!Elements(t.leaves[g]) \cap Tree!Elements(t.groups[g]) = {}
         /\ \A m \in Tree!Elements(t.leaves[g]) : Tree!Below(t, m) = {}
  <2> TAKE g \in Tree!Nodes
  <2>1. \A m \in Children(l, g) : m \in Tree!Nodes
    BY DEF Tree!Nodes, Children
  <2>2. /\ Tree!Elements(t.leaves[g]) = {m \in Children(l, g) : Children(l, m) = {}}
        /\ Tree!Elements(t.groups[g]) = {m \in Children(l, g) : Children(l, m) # {}}
    BY <1>1
  <2>3. ASSUME NEW m \in Tree!Elements(t.leaves[g]) PROVE Tree!Below(t, m) = {}
    BY <1>2, <2>1, <2>2, <2>3
  <2> QED BY <2>2, <2>3
<1>6. ASSUME NEW S \in SUBSET Tree!Nodes, BaseImage \in S,
             \A g \in S : Tree!Below(t, g) \subseteq S
      PROVE  Images \subseteq S
  <2>1. \A m \in Images : TreeParent(l, m) \in S => m \in S
    BY <1>2, <1>6 DEF Children
  <2> QED BY <1>6, <2>1, AllBelowTheRoot
<1> QED BY <1>1, <1>3, <1>4, <1>5, <1>6 DEF Tree!IsTree

\* the elements of a finite set in some order
LEMMA Listed ==
    ASSUME NEW S \in SUBSET Images, IsFiniteSet(S)
    PROVE  \E s \in Seq(Images) : Tree!Distinct(s) /\ Tree!Elements(s) = S
<1>1. Cardinality(S) \in Nat /\ ExistsBijection(1..Cardinality(S), S)
  BY FS_CardinalityType
<1>2. PICK f : f \in Bijection(1..Cardinality(S), S)
  BY <1>1 DEF ExistsBijection
<1>3. /\ f \in [1..Cardinality(S) -> S]
      /\ \A i, j \in 1..Cardinality(S) : f[i] = f[j] => i = j
      /\ \A x \in S : \E i \in 1..Cardinality(S) : f[i] = x
  BY <1>2 DEF Bijection, Injection, Surjection, IsInjective
<1>4. f \in Seq(Images) /\ Len(f) = Cardinality(S)
  BY <1>1, <1>3
<1>5. Tree!Distinct(f) /\ Tree!Elements(f) = S
  BY <1>3, <1>4 DEF Tree!Distinct, Tree!Elements
<1> QED BY <1>4, <1>5

(***************************************************************************)
(* There is such a tree for every configuration directory that is finite,  *)
(* so what is said of the trees of build_tree is said of something.        *)
(***************************************************************************)
THEOREM BuildTreeExists ==
    IsFiniteSet(Images) => \A l : IsLayout(l) => \E t : IsBuildTree(t, l)
<1> SUFFICES ASSUME IsFiniteSet(Images), NEW l, IsLayout(l) PROVE \E t : IsBuildTree(t, l)
  OBVIOUS
<1> DEFINE Strings(g) == {m \in Children(l, g) : Children(l, m) = {}}
           Dicts(g) == {m \in Children(l, g) : Children(l, m) # {}}
           List(S) == CHOOSE s \in Seq(Images) : Tree!Distinct(s) /\ Tree!Elements(s) = S
           tree == [parent |-> [m \in Images |-> TreeParent(l, m)],
                    leaves |-> [g \in Tree!Nodes |-> List(Strings(g))],
                    groups |-> [g \in Tree!Nodes |-> List(Dicts(g))]]
<1>1. \A S \in SUBSET Images :
         List(S) \in Seq(Images) /\ Tree!Distinct(List(S)) /\ Tree!Elements(List(S)) = S
  BY Listed, FS_Subset
<1>2. \A g : Strings(g) \in SUBSET Images /\ Dicts(g) \in SUBSET Images
  BY DEF Children
<1> HIDE DEF List, Strings, Dicts
<1>3. /\ tree.leaves \in [Tree!Nodes -> Seq(Images)] /\ tree.groups \in [Tree!Nodes -> Seq(Images)]
      /\ \A g \in Tree!Nodes : tree.leaves[g] = List(Strings(g)) /\ tree.groups[g] = List(Dicts(g))
  BY <1>1, <1>2
<1>4. \A g \in Tree!Nodes :
         /\ Tree!Distinct(tree.leaves[g]) /\ Tree!Distinct(tree.groups[g])
         /\ Tree!Elements(tree.leaves[g]) = Strings(g)
         /\ Tree!Elements(tree.groups[g]) = Dicts(g)
  BY <1>1, <1>2, <1>3
<1>5. IsBuildTree(tree, l)
  BY <1>3, <1>4 DEF IsBuildTree, Strings, Dicts
<1> QED BY <1>5

----------------------------------------------------------------------------
(* The builder *)

BuilderTypeOK ==
    /\ status \in [Images -> {"waiting", "working", "ready", "skipped", "failed"}]
    /\ verdict \in {"none", "success", "failure"}

\* While it builds, it has the tree of all directories and the excludes; an
\* image is not looked at before every directory above it is settled; and
\* only what is excluded is skipped.
Ordered ==
    pc = "handover" =>
        /\ parent = [m \in Images |-> TreeParent(req.layout, m)]
        /\ skip = excludes \cap Images
        /\ \A m \in Images : status[m] # "waiting" =>
              \A a \in DirsAbove(req.layout, m) : status[a] \in {"ready", "skipped"}
        /\ \A m \in Images : /\ status[m] = "skipped" => m \in skip
                             /\ status[m] \in {"working", "ready", "failed"} => m \notin skip
        /\ verdict = "success" => \A m \in Images : status[m] \in {"ready", "skipped"}

NoResultYet == Busy => result = "none"

ShellInv == ImgInv /\ BuilderTypeOK /\ Ordered /\ NoResultYet /\ AllIntendedBuilt

\* above an image are its parent in the tree and what is above that one
LEMMA TreeFacts ==
    ASSUME NEW l, IsLayout(l), NEW m \in Images, NEW a \in DirsAbove(l, m)
    PROVE  /\ TreeParent(l, m) \in Images /\ TreeParent(l, m) # BaseImage
           /\ a = TreeParent(l, m) \/ a \in DirsAbove(l, TreeParent(l, m))
<1>1. /\ Depth(l, m) \in Nat \ {0}
      /\ \A i \in 1..Depth(l, m) : l.path[m][i] \in Images /\ Depth(l, l.path[m][i]) = i
  BY PathFacts
<1>2. Depth(l, a) \in 1..(Depth(l, m) - 1) /\ a = l.path[m][Depth(l, a)]
  BY AboveFacts
<1> DEFINE p == l.path[m][Depth(l, m) - 1]
<1>3. Depth(l, m) - 1 \in 1..Depth(l, m) /\ Depth(l, m) - 1 \in 1..(Depth(l, m) - 1)
  BY <1>1, <1>2
<1>4. TreeParent(l, m) = p /\ p \in Images /\ Depth(l, p) = Depth(l, m) - 1
      /\ p \in DirsAbove(l, m)
  BY <1>1, <1>2, <1>3 DEF TreeParent, DirsAbove
<1>5. CASE Depth(l, a) = Depth(l, m) - 1
  BY <1>2, <1>4, <1>5, NamesAssumption
<1>6. CASE Depth(l, a) < Depth(l, m) - 1
  <2>1. p \in DirsAbove(l, m) => \A b \in DirsAbove(l, m) :
           Depth(l, b) < Depth(l, p) => b \in DirsAbove(l, p)
    BY AboveFacts
  <2>2. a \in DirsAbove(l, p)
    BY <1>4, <1>6, <2>1
  <2> QED BY <1>4, <2>2, NamesAssumption
<1> QED BY <1>1, <1>2, <1>5, <1>6

LEMMA BuildStepFacts ==
    ASSUME ShellInv, NEW m \in Images, BuildStep(m)
    PROVE  /\ pc = "handover" /\ UNCHANGED <<imgVars, parent, skip, verdict>>
           /\ BuilderTypeOK'
           /\ \A i \in Images : i # m => status'[i] = status[i]
           /\ status[m] \notin {"ready", "skipped"}
           /\ status'[m] = "skipped" => m \in skip
           /\ status'[m] \in {"working", "ready", "failed"} => m \notin skip
           /\ status[m] = "waiting" /\ parent[m] # BaseImage =>
                 status[parent[m]] \in {"ready", "skipped"}
           /\ verdict # "success"
<1>1. /\ pc = "handover"
      /\ Builder!Begin(m) \/ Builder!Skip(m) \/ Builder!Complete(m)
      /\ UNCHANGED <<imgVars, parent, skip, verdict>>
  BY DEF BuildStep, Builder!Begin, Builder!Skip, Builder!Complete
<1>2. status \in [Images -> {"waiting", "working", "ready", "skipped", "failed"}] /\ Ordered
      /\ verdict \in {"none", "success", "failure"}
  BY DEF ShellInv, BuilderTypeOK
<1>3. CASE Builder!Begin(m)
  BY <1>1, <1>2, <1>3 DEF Builder!Begin, Builder!Turn, Builder!Become, Builder!Settled,
                          BuilderTypeOK
<1>4. CASE Builder!Skip(m)
  BY <1>1, <1>2, <1>4 DEF Builder!Skip, Builder!Turn, Builder!Become, Builder!Settled,
                          BuilderTypeOK
<1>5. CASE Builder!Complete(m)
  <2>1. status[m] = "working" /\ m \notin skip
    BY <1>1, <1>2, <1>5 DEF Builder!Complete, Ordered
  <2>2. verdict # "success"
    BY <1>1, <1>2, <2>1 DEF Ordered
  <2> QED BY <1>1, <1>2, <1>5, <2>1, <2>2 DEF Builder!Complete, Builder!Become, BuilderTypeOK
<1> QED BY <1>1, <1>3, <1>4, <1>5

LEMMA BuildStepInv ==
    ASSUME ShellInv, NEW m \in Images, BuildStep(m)
    PROVE  ShellInv'
<1>1. /\ pc = "handover" /\ UNCHANGED <<imgVars, parent, skip, verdict>>
      /\ BuilderTypeOK'
      /\ \A i \in Images : i # m => status'[i] = status[i]
      /\ status[m] \notin {"ready", "skipped"}
      /\ status'[m] = "skipped" => m \in skip
      /\ status'[m] \in {"working", "ready", "failed"} => m \notin skip
      /\ status[m] = "waiting" /\ parent[m] # BaseImage =>
            status[parent[m]] \in {"ready", "skipped"}
      /\ verdict # "success"
  BY BuildStepFacts
<1>2. ImgInv'
  BY <1>1, ImgNextInv DEF ShellInv
<1>3. UNCHANGED <<req, pc, result, excludes>>
  BY <1>1 DEF imgVars
<1>4. IsLayout(req.layout)
  BY IntendedFacts DEF ShellInv, ImgInv
<1>5. Ordered'
  <2>1. Ordered
    BY DEF ShellInv
  <2>2. ASSUME NEW i \in Images, NEW a \in DirsAbove(req.layout, i), status[i] # "waiting" \/ i = m
        PROVE  status[a] \in {"ready", "skipped"}
    <3>1. CASE status[i] # "waiting"
      BY <1>1, <2>1, <3>1 DEF Ordered
    <3>2. CASE i = m /\ status[m] = "waiting"
      <4>1. /\ TreeParent(req.layout, m) \in Images /\ TreeParent(req.layout, m) # BaseImage
            /\ a = TreeParent(req.layout, m) \/ a \in DirsAbove(req.layout, TreeParent(req.layout, m))
        BY <1>4, <3>2, TreeFacts
      <4>2. parent[m] = TreeParent(req.layout, m)
        BY <1>1, <2>1 DEF Ordered
      <4>3. status[parent[m]] \in {"ready", "skipped"}
        BY <1>1, <3>2, <4>1, <4>2
      <4> QED BY <1>1, <2>1, <4>1, <4>2, <4>3 DEF Ordered
    <3> QED BY <2>2, <3>1, <3>2
  <2>3. ASSUME NEW i \in Images, NEW a \in DirsAbove(req.layout, i), status'[i] # "waiting"
        PROVE  status'[a] \in {"ready", "skipped"}
    <3>1. status[a] \in {"ready", "skipped"} /\ a \in Images
      BY <1>1, <1>4, <2>2, <2>3, AboveFacts
    <3> QED BY <1>1, <3>1
  <2>4. ASSUME NEW i \in Images
        PROVE  /\ status'[i] = "skipped" => i \in skip
               /\ status'[i] \in {"working", "ready", "failed"} => i \notin skip
    BY <1>1, <2>1 DEF Ordered
  <2>5. parent' = [i \in Images |-> TreeParent(req.layout, i)] /\ skip = excludes \cap Images
    BY <1>1, <2>1 DEF Ordered
  <2> QED BY <1>1, <1>3, <2>3, <2>4, <2>5 DEF Ordered
<1>6. NoResultYet' /\ AllIntendedBuilt'
  <2>1. result' = "none"
    BY <1>1, <1>3 DEF ShellInv, NoResultYet, Busy
  <2> QED BY <2>1 DEF NoResultYet, AllIntendedBuilt
<1> QED BY <1>1, <1>2, <1>5, <1>6 DEF ShellInv

\* the steps that choose images or run the playbook
LEMMA ChoosingInv ==
    ASSUME ShellInv, ImgInv', UNCHANGED builderVars,
           \/ UNCHANGED imgVars
           \/ /\ pc' # "handover" /\ result' # "built"
              /\ pc' = "idle" \/ (result' = result /\ Busy)
    PROVE  ShellInv'
<1>1. BuilderTypeOK'
  BY DEF ShellInv, BuilderTypeOK, builderVars
<1>2. CASE UNCHANGED imgVars
  <2>1. UNCHANGED <<req, pc, result, excludes, parent, skip, status, verdict>>
    BY <1>2 DEF imgVars, builderVars
  <2>2. Ordered'
    BY <2>1 DEF ShellInv, Ordered
  <2>3. NoResultYet' /\ AllIntendedBuilt'
    BY <2>1 DEF ShellInv, NoResultYet, AllIntendedBuilt, Busy, Intended
  <2> QED BY <1>1, <2>2, <2>3 DEF ShellInv
<1>3. CASE /\ pc' # "handover" /\ result' # "built"
           /\ pc' = "idle" \/ (result' = result /\ Busy)
  <2>1. Ordered' /\ NoResultYet' /\ AllIntendedBuilt'
    BY <1>3 DEF ShellInv, Ordered, NoResultYet, AllIntendedBuilt, Busy
  <2> QED BY <1>1, <2>1 DEF ShellInv
<1> QED BY <1>2, <1>3

LEMMA HandOverInv ==
    ASSUME ShellInv, HandOver
    PROVE  ShellInv'
<1>1. /\ Exclude /\ pc = "exclude" /\ req' = req
      /\ \/ req.skip /\ pc' = "idle" /\ result' = "skipped" /\ UNCHANGED builderVars
         \/ /\ ~req.skip /\ pc' = "handover" /\ result' = result
            /\ parent' = [m \in Images |-> TreeParent(req.layout, m)]
            /\ skip' = excludes' \cap Images /\ status' = Waiters /\ verdict' = "none"
  BY DEF HandOver, Exclude, NewBuilder
<1>2. ImgInv'
  BY <1>1, ImgNextInv DEF ShellInv, Next
<1>3. CASE pc' = "idle"
  <2>1. pc' # "handover" /\ result' # "built" /\ UNCHANGED builderVars
    BY <1>1, <1>3
  <2> QED BY <1>2, <1>3, <2>1, ChoosingInv
<1>4. CASE pc' = "handover"
  <2>1. /\ parent' = [m \in Images |-> TreeParent(req.layout, m)]
        /\ skip' = excludes' \cap Images /\ verdict' = "none" /\ result' = result
        /\ status' = [m \in Images |-> "waiting"]
    BY <1>1, <1>4 DEF Waiters
  <2>2. \A m \in Images : status'[m] = "waiting"
    BY <2>1
  <2>3. BuilderTypeOK' /\ Ordered'
    BY <1>1, <2>1, <2>2 DEF BuilderTypeOK, Ordered
  <2>4. result' = "none"
    BY <1>1, <2>1 DEF ShellInv, NoResultYet, Busy
  <2> QED BY <1>2, <2>3, <2>4 DEF ShellInv, NoResultYet, AllIntendedBuilt
<1> QED BY <1>1, <1>3, <1>4

LEMMA BuildReturnsInv ==
    ASSUME ShellInv, BuildReturns
    PROVE  ShellInv'
<1>1. /\ BuildAll /\ pc = "handover" /\ pc' = "idle"
      /\ UNCHANGED <<req, prepared, parent, skip, status, verdict>>
      /\ result' = "built" => verdict = "success"
  BY DEF BuildReturns, BuildAll, builderVars
<1>2. ImgInv'
  BY <1>1, ImgNextInv DEF ShellInv, Next
<1>3. BuilderTypeOK' /\ Ordered' /\ NoResultYet'
  BY <1>1 DEF ShellInv, BuilderTypeOK, Ordered, NoResultYet, Busy
<1>4. AllIntendedBuilt'
  <2>1. Intended' = Intended
    BY <1>1 DEF Intended
  <2>2. ASSUME verdict = "success", NEW m \in Intended \ (req.user \cup {Redis, Valkey})
        PROVE  status[m] = "ready"
    <3>1. /\ Intended \subseteq prepared /\ Intended \subseteq Images
          /\ excludes \subseteq req.user \cup (identified_images \ prepared) \cup {Redis, Valkey}
      BY <1>1, IntendedFacts DEF ShellInv, ImgInv, Covered, HandedOver
    <3>2. m \in Images /\ m \notin excludes
      BY <3>1
    <3>3. status[m] \in {"ready", "skipped"} /\ (status[m] = "skipped" => m \in excludes)
      BY <1>1, <2>2, <3>2 DEF ShellInv, Ordered
    <3> QED BY <3>2, <3>3
  <2> QED BY <1>1, <2>1, <2>2 DEF AllIntendedBuilt
<1> QED BY <1>2, <1>3, <1>4 DEF ShellInv

LEMMA DecideInv ==
    ASSUME ShellInv, Decide
    PROVE  ShellInv'
<1>1. /\ pc = "handover" /\ UNCHANGED <<imgVars, parent, skip, status>>
      /\ \/ verdict' = "success" /\ \A m \in Images : status[m] \in {"ready", "skipped"}
         \/ verdict' = "failure"
  BY DEF Decide, Builder!Succeed, Builder!GiveUp, Builder!Settled
<1>2. ImgInv'
  BY <1>1, ImgNextInv DEF ShellInv
<1>3. UNCHANGED <<req, pc, result, excludes>>
  BY <1>1 DEF imgVars
<1>4. BuilderTypeOK' /\ Ordered'
  BY <1>1, <1>3 DEF ShellInv, BuilderTypeOK, Ordered
<1>5. NoResultYet' /\ AllIntendedBuilt'
  BY <1>1, <1>3 DEF ShellInv, NoResultYet, AllIntendedBuilt, Busy
<1> QED BY <1>2, <1>4, <1>5 DEF ShellInv

LEMMA BeginBuildInv ==
    ASSUME ShellInv, NEW r \in Requests, BeginBuild(r)
    PROVE  ShellInv'
<1>1. /\ Begin(r) /\ pc' = "pass1" /\ result' = "none"
      /\ status' = [m \in Images |-> "waiting"] /\ verdict' = "none"
  BY DEF BeginBuild, Begin, NewBuilder, Waiters
<1>2. ImgInv'
  BY <1>1, ImgNextInv DEF ShellInv, Next
<1>3. BuilderTypeOK' /\ Ordered' /\ NoResultYet' /\ AllIntendedBuilt'
  BY <1>1 DEF BuilderTypeOK, Ordered, NoResultYet, AllIntendedBuilt
<1> QED BY <1>2, <1>3 DEF ShellInv

LEMMA ShellInitInv == ShellInit => ShellInv
<1> SUFFICES ASSUME ShellInit PROVE ShellInv
  OBVIOUS
<1>1. ImgInv /\ pc = "idle" /\ result = "none"
  BY ImgInit DEF ShellInit, Init
<1>2. BuilderTypeOK
  BY DEF ShellInit, BuilderTypeOK, Waiters
<1> QED BY <1>1, <1>2 DEF ShellInv, Ordered, NoResultYet, AllIntendedBuilt

LEMMA ShellNextInv ==
    ASSUME ShellInv, [ShellNext]_shellVars
    PROVE  ShellInv'
<1>1. ImgInv'
  BY StepOfImages, ImgNextInv DEF ShellInv
<1>2. ASSUME NEW r \in Offered, BeginBuild(r) PROVE ShellInv'
  BY <1>2, OfferedRequests, BeginBuildInv
<1>3. ASSUME NEW m \in Images, BuildStep(m) PROVE ShellInv'
  BY <1>3, BuildStepInv
<1>4. CASE HandOver
  BY <1>4, HandOverInv
<1>5. CASE Decide
  BY <1>5, DecideInv
<1>6. CASE BuildReturns
  BY <1>6, BuildReturnsInv
<1>7. CASE \/ \E command \in {"hotfix", "update"} : Modify(command)
           \/ ModifyReturns \/ CallPlaybook \/ Playbook \/ ShellWaits \/ UNCHANGED shellVars
  <2>1. UNCHANGED imgVars /\ UNCHANGED builderVars
    BY <1>7 DEF Modify, ModifyReturns, CallPlaybook, Playbook, ShellWaits, shellVars
  <2> QED BY <1>1, <2>1, ChoosingInv
<1>8. CASE Choose
  <2>1. /\ pc' # "handover" /\ result' # "built"
        /\ pc' = "idle" \/ (result' = result /\ Busy)
        /\ UNCHANGED builderVars
    <3>1. Busy => result = "none"
      BY DEF ShellInv, NoResultYet
    <3> QED BY <1>8, <3>1 DEF Choose, ProcessImage, ConfigMissing, SecondPass, Inventory,
                              BadOption, Raise, Busy
  <2> QED BY <1>1, <2>1, ChoosingInv
<1>9. CASE PlaybookDone \/ PlaybookFailed
  <2>1. /\ pc' # "handover" /\ result' # "built"
        /\ pc' = "idle" \/ (result' = result /\ Busy)
        /\ UNCHANGED builderVars
    <3>1. Busy => result = "none"
      BY DEF ShellInv, NoResultYet
    <3> QED BY <1>9, <3>1 DEF PlaybookDone, PlaybookFailed, Generate, GenerateFails, Raise, Busy
  <2> QED BY <1>1, <2>1, ChoosingInv
<1> QED BY <1>2, <1>3, <1>4, <1>5, <1>6, <1>7, <1>8, <1>9 DEF ShellNext

LEMMA ShellInvariant == ShellSpec => []ShellInv
BY ShellInitInv, ShellNextInv, PTL DEF ShellSpec

(***************************************************************************)
(* A build that ends well (container_image.py:734-772) has built every     *)
(* intended image that was not excluded on purpose, for any tree and       *)
(* whatever the process did before.                                        *)
(***************************************************************************)
THEOREM ShellBuildsAllIntended == ShellSpec => []AllIntendedBuilt
<1>1. ShellInv => AllIntendedBuilt
  BY DEF ShellInv
<1> QED BY <1>1, ShellInvariant, PTL

(***************************************************************************)
(* Building in the order of the tree of directories is building each       *)
(* intended image after the one of the tree that its Containerfile names   *)
(* (container_image.py:593-607, 672-674), though the two differ.           *)
(***************************************************************************)
THEOREM ShellBuildsFromFirst == ShellSpec => []FromBuiltFirst
<1>1. ASSUME ShellInv PROVE FromBuiltFirst
  <2>1. SUFFICES ASSUME pc = "handover", NEW m \in cont_map \cap Intended,
                        FromTree(req.layout, m), status[m] \in {"working", "ready", "failed"}
                 PROVE  \/ tcib_from[m] \in req.user \cup {Redis, Valkey}
                        \/ status[tcib_from[m]] = "ready"
    BY DEF FromBuiltFirst
  <2>2. FromIsBuilt /\ IsLayout(req.layout) /\ m \in Images
    BY <1>1, <2>1, ImgProperties, IntendedFacts DEF ShellInv, ImgInv
  <2>3. m \notin excludes
    BY <1>1, <2>1, <2>2 DEF ShellInv, Ordered
  <2>4. CASE /\ tcib_from[m] \in DirsAbove(req.layout, m)
             /\ tcib_from[m] \in cont_map \ excludes
    <3>1. tcib_from[m] \in Images
      BY <2>2, <2>4, AboveFacts
    <3>2. status[tcib_from[m]] \in {"ready", "skipped"}
      BY <1>1, <2>1, <2>2, <2>4 DEF ShellInv, Ordered
    <3>3. status[tcib_from[m]] # "skipped"
      BY <1>1, <2>1, <2>4, <3>1 DEF ShellInv, Ordered
    <3> QED BY <3>2, <3>3
  <2> QED BY <2>1, <2>2, <2>3, <2>4 DEF FromIsBuilt
<1> QED BY <1>1, ShellInvariant, PTL

(***************************************************************************)
(* In a process that executes other commands and runs the playbook halfway *)
(* through build, the choice of the images keeps what ContainerImageProofs *)
(* proves of it alone (container_image.py:562-768).                        *)
(***************************************************************************)
THEOREM ShellChoosesWell ==
    ShellSpec => [](/\ TypeOK /\ PreparedIsClosed /\ BuiltHasContainerfile
                    /\ FromIsBuilt /\ SortedByDepth /\ FailsForCause)
<1>1. ASSUME ShellInv
      PROVE  /\ TypeOK /\ PreparedIsClosed /\ BuiltHasContainerfile
             /\ FromIsBuilt /\ SortedByDepth /\ FailsForCause
  BY <1>1, ImgProperties DEF ShellInv
<1> QED BY <1>1, ShellInvariant, PTL

----------------------------------------------------------------------------
(* --extra-config *)

\* the places in the runner that build reaches only with the file found
AfterPlaybook == {"prepare", "artifacts", "configure", "run", "save"}

ExtraInv ==
    /\ error = "IOError" => at = "leave" /\ caller = "build" /\ req.extra # "none"
    /\ at \in AfterPlaybook /\ caller = "build" => req.extra = "none"

LEMMA ExtraStep ==
    ASSUME RunnerProofs!RunnerInv, TypeOK, ExtraInv, [ShellNext]_shellVars
    PROVE  ExtraInv'
<1>1. CASE \E command \in {"hotfix", "update"} : Modify(command)
  BY <1>1 DEF ExtraInv, AfterPlaybook, Modify, Runner!Call
<1>2. CASE ModifyReturns \/ PlaybookDone \/ PlaybookFailed
  BY <1>2 DEF ExtraInv, AfterPlaybook, ModifyReturns, PlaybookDone, PlaybookFailed, Runner!Return
<1>3. CASE \E r \in Offered : BeginBuild(r)
  BY <1>3 DEF ExtraInv, AfterPlaybook, BeginBuild, ShellIdle, runnerVars
<1>4. CASE CallPlaybook
  BY <1>4 DEF ExtraInv, AfterPlaybook, CallPlaybook, Runner!Call
<1>5. CASE Playbook
  <2>1. req' = req /\ caller' = caller
    BY <1>5 DEF Playbook, imgVars, Runner!WritePlaybook, Runner!NoExtraConfig,
                Runner!RunPlaybook, Runner!Fail, Runner!WriteStep, Runner!Prepare,
                Runner!EnterArtifacts, Runner!Configure, Runner!Run, Runner!RunRaises,
                Runner!Save, Runner!LeaveArtifacts
  <2>2. req.extra \in {"none", "relative", "missing"}
    BY RequestsAssumption DEF TypeOK, IsRequest
  <2>3. CASE Runner!WritePlaybook /\ (caller = "build" => ExtraConfigFound)
    <3>1. at = "playbook" /\ at' = "prepare" /\ error' = error
      BY <2>3 DEF Runner!WritePlaybook, Runner!WriteStep
    <3>2. cwd # Home
      BY <3>1, HomeAssumption DEF RunnerProofs!RunnerInv, RunnerProofs!BlocksOK
    <3>3. caller = "build" => req.extra = "none"
      <4>1. req.extra = "relative" => ExtraConfigFound = (cwd = Home)
        BY DEF ExtraConfigFound
      <4>2. req.extra = "missing" => ExtraConfigFound = FALSE
        BY DEF ExtraConfigFound
      <4> QED BY <2>2, <2>3, <3>2, <4>1, <4>2
    <3> QED BY <2>1, <3>1, <3>3 DEF ExtraInv
  <2>4. CASE Runner!NoExtraConfig /\ ~ExtraConfigFound
    <3>1. at' = "leave" /\ caller = "build" /\ req.extra # "none"
      BY <2>4 DEF Runner!NoExtraConfig, ExtraConfigFound
    <3> QED BY <2>1, <3>1 DEF ExtraInv, AfterPlaybook
  <2>5. CASE Runner!RunPlaybook
    <3>1. at' \in AfterPlaybook => at \in AfterPlaybook
      BY <2>5 DEF AfterPlaybook, Runner!RunPlaybook, Runner!WriteStep, Runner!Prepare,
                  Runner!EnterArtifacts, Runner!Configure, Runner!Run, Runner!RunRaises,
                  Runner!Save, Runner!LeaveArtifacts
    <3>2. error' = "IOError" => error = "IOError" /\ at' = at
      BY <2>5 DEF ExtraInv, Runner!RunPlaybook, Runner!WriteStep, Runner!Prepare,
                  Runner!EnterArtifacts, Runner!Configure, Runner!Run, Runner!RunRaises,
                  Runner!Save, Runner!LeaveArtifacts
    <3> QED BY <2>1, <3>1, <3>2 DEF ExtraInv
  <2>6. CASE Runner!Fail
    BY <2>1, <2>6 DEF ExtraInv, AfterPlaybook, Runner!Fail
  <2> QED BY <1>5, <2>3, <2>4, <2>5, <2>6 DEF Playbook
<1>6. CASE \/ Choose \/ HandOver \/ Decide \/ BuildReturns \/ ShellWaits
           \/ \E m \in Images : BuildStep(m)
           \/ UNCHANGED shellVars
  <2>1. UNCHANGED <<req, at, caller, error>>
    BY <1>6 DEF Choose, ProcessImage, ConfigMissing, SecondPass, Inventory, BadOption,
                HandOver, Exclude, Decide, BuildReturns, BuildAll, BuildStep, ShellWaits,
                shellVars, imgVars, runnerVars
  <2> QED BY <2>1 DEF ExtraInv
<1> QED BY <1>1, <1>2, <1>3, <1>4, <1>5, <1>6 DEF ShellNext

(***************************************************************************)
(* IOError (container_image.py:707-711) is raised only in a build command  *)
(* that was given --extra-config; but whatever command of a process it is, *)
(* a build that was given a relative path never gets to its playbook.      *)
(***************************************************************************)
THEOREM ExtraConfigNeedsFullPath ==
    ShellSpec => [](/\ req.extra # "relative" => ExtraConfigMissing
                    /\ at \in AfterPlaybook /\ caller = "build" => req.extra # "relative")
<1>1. ShellInit => ExtraInv
  BY DEF ShellInit, Runner!Init, ExtraInv, AfterPlaybook
<1>2. ShellSpec => []ExtraInv
  <2>1. ShellSpec => []RunnerProofs!RunnerInv
    BY ShellRunner, RunnerProofs!RunnerInvariant, PTL
  <2>2. ShellSpec => []TypeOK
    BY ShellChoosesImages, ImgTypeCorrect, PTL
  <2> QED BY <1>1, <2>1, <2>2, ExtraStep, PTL DEF ShellSpec
<1>3. ASSUME ExtraInv, TypeOK
      PROVE  /\ req.extra # "relative" => ExtraConfigMissing
             /\ at \in AfterPlaybook /\ caller = "build" => req.extra # "relative"
  <2>1. req.extra \in {"none", "relative", "missing"}
    BY <1>3, RequestsAssumption DEF TypeOK, IsRequest
  <2> QED BY <1>3, <2>1 DEF ExtraInv, ExtraConfigMissing
<1>4. ShellSpec => []TypeOK
  BY ShellChoosesImages, ImgTypeCorrect, PTL
<1> QED BY <1>2, <1>3, <1>4, PTL
=============================================================================
