------------------------------ MODULE TcibShell ------------------------------
(***************************************************************************)
(* The commands `tcib container image build', `hotfix' and `update' of one *)
(* process, an interactive `openstack' shell, put together: the choice of  *)
(* the images (ContainerImage), the playbook that writes the Containerfiles*)
(* (AnsibleRunner) and the builder, of which OrderedBuild is taken, the    *)
(* specification BuildahBuilder is shown to implement.                     *)
(***************************************************************************)
EXTENDS ContainerImage

CONSTANTS
    Home, TempNames,   \* see AnsibleRunner
    Repeated           \* the command lines of shells with several commands

ASSUME HomeAssumption == Home \notin TempNames
ASSUME RepeatedAssumption == Repeated \subseteq Requests

VARIABLES
    caller, at, cwd, blocks, disk, kept, rc, error,   \* see AnsibleRunner
    parent, skip, status, verdict,                    \* see OrderedBuild
    modified                                          \* hotfix and update commands so far

Runner == INSTANCE AnsibleRunner
Builder == INSTANCE OrderedBuild WITH Root <- BaseImage
Tree == INSTANCE ImageTree WITH Root <- BaseImage

runnerVars == <<caller, at, cwd, blocks, disk, kept, rc, error>>
builderVars == <<parent, skip, status, verdict>>
shellVars == <<imgVars, runnerVars, builderVars, modified>>

\* the tree that build_tree returns holds every directory
\* (mutated form: it is flat)
M_TreeParent(l, m) == BaseImage
TreeParent(l, m) == IF Depth(l, m) = 1 THEN BaseImage ELSE l.path[m][Depth(l, m) - 1]

\* the directories right below one, and the tree: build_tree returns a string
\* for a directory without others in it, and a one-key dictionary for any
\* other, in the order in which os.walk finds them
Children(l, g) == {m \in Images : TreeParent(l, m) = g}

IsBuildTree(t, l) ==
    /\ t.parent = [m \in Images |-> TreeParent(l, m)]
    /\ {t.leaves, t.groups} \subseteq [Tree!Nodes -> Seq(Images)]
    /\ \A g \in Tree!Nodes :
          /\ Tree!Distinct(t.leaves[g]) /\ Tree!Distinct(t.groups[g])
          /\ Tree!Elements(t.leaves[g]) = {m \in Children(l, g) : Children(l, m) = {}}
          /\ Tree!Elements(t.groups[g]) = {m \in Children(l, g) : Children(l, m) # {}}

Tops == [m \in Images |-> BaseImage]
Waiters == [m \in Images |-> "waiting"]

ShellInit ==
    /\ Init
    /\ Runner!Init
    /\ parent = Tops
    /\ skip = {}
    /\ status = Waiters
    /\ verdict = "none"
    /\ modified = 0

----------------------------------------------------------------------------
(* The commands of a shell, at most MaxCommands *)

ShellIdle == pc = "idle" /\ at = "idle"

\* the builds considered next; anything goes for the first command
Offered ==
    IF commands + modified = 0 THEN Requests
    ELSE IF commands = 0 \/ req \in Repeated THEN Repeated ELSE {}

\* Hotfix and update run a playbook and nothing else.
Modify(command) ==
    /\ ShellIdle
    /\ commands + modified < MaxCommands
    /\ Offered # {}
    /\ modified' = modified + 1
    /\ Runner!Call(command)
    /\ UNCHANGED <<imgVars, builderVars>>

ModifyReturns ==
    /\ caller # "build"
    /\ Runner!Return
    /\ UNCHANGED <<imgVars, builderVars, modified>>

----------------------------------------------------------------------------
(* Build *)

\* a BuildahBuilder with this tree and these excludes
NewBuilder(tree, excluded) ==
    /\ parent' = tree
    /\ skip' = excluded
    /\ status' = Waiters
    /\ verdict' = "none"

BeginBuild(r) ==
    /\ ShellIdle
    /\ commands + modified < MaxCommands
    /\ Begin(r)
    /\ NewBuilder(Tops, {})
    /\ UNCHANGED <<runnerVars, modified>>

\* take_action up to the playbook
Choose ==
    /\ \/ \E m \in Images : ProcessImage(m) \/ ConfigMissing(m)
       \/ SecondPass \/ Inventory \/ BadOption
    /\ UNCHANGED <<runnerVars, builderVars, modified>>

CallPlaybook ==
    /\ pc = "generate"
    /\ Runner!Call("build")
    /\ UNCHANGED <<imgVars, builderVars, modified>>

\* what os.path.exists says of --extra-config, in the current directory
ExtraConfigFound ==
    [none |-> TRUE, relative |-> cwd = Home, missing |-> FALSE][req.extra]

Playbook ==
    /\ \/ Runner!WritePlaybook /\ (caller = "build" => ExtraConfigFound)
       \/ Runner!NoExtraConfig /\ ~ExtraConfigFound
       \/ Runner!RunPlaybook \/ Runner!Fail
    /\ UNCHANGED <<imgVars, builderVars, modified>>

\* The playbook wrote every Containerfile if it succeeded, and any of them
\* otherwise; take_action goes on unless something was raised.
PlaybookDone ==
    /\ caller = "build"
    /\ Runner!Return
    /\ error = "nothing"
    /\ Generate
    /\ UNCHANGED <<builderVars, modified>>

PlaybookFailed ==
    /\ caller = "build"
    /\ Runner!Return
    /\ error # "nothing"
    /\ GenerateFails
    /\ UNCHANGED <<builderVars, modified>>

\* the excludes, and the BuildahBuilder with the tree of all directories
HandOver ==
    /\ Exclude
    /\ IF req.skip THEN UNCHANGED builderVars
       ELSE NewBuilder([m \in Images |-> TreeParent(req.layout, m)], excludes' \cap Images)
    /\ UNCHANGED <<runnerVars, modified>>

\* build_all; buildah cannot build an image without a Containerfile
BuildStep(m) ==
    /\ pc = "handover"
    /\ Builder!Begin(m) \/ Builder!Skip(m) \/ Builder!Complete(m)
    /\ status'[m] = "ready" => m \in cont_map
    /\ UNCHANGED <<imgVars, runnerVars, modified>>

Decide ==
    /\ pc = "handover"
    /\ Builder!Succeed \/ Builder!GiveUp
    /\ UNCHANGED <<imgVars, runnerVars, modified>>

BuildReturns ==
    /\ verdict # "none"
    /\ BuildAll
    /\ verdict = "success" <=> result' = "built"
    /\ UNCHANGED <<runnerVars, builderVars, modified>>

\* the shell waits for the next command
ShellWaits == ShellIdle /\ UNCHANGED shellVars

ShellNext ==
    \/ \E command \in {"hotfix", "update"} : Modify(command)
    \/ ModifyReturns
    \/ \E r \in Offered : BeginBuild(r)
    \/ Choose \/ CallPlaybook \/ Playbook \/ PlaybookDone \/ PlaybookFailed
    \/ HandOver
    \/ \E m \in Images : BuildStep(m)
    \/ Decide \/ BuildReturns
    \/ ShellWaits

ShellSpec == ShellInit /\ [][ShellNext]_shellVars

----------------------------------------------------------------------------
(* Properties *)

NothingLeft == Runner!NothingLeft
OutcomeReported == Runner!OutcomeReported

(***************************************************************************)
(* When the build of an intended image begins, the image its Containerfile *)
(* is FROM (container_image.py:593-607, 672-674), which is not always its  *)
(* parent in the tree the builder orders by, was built by this command;    *)
(* unless it is none of the tree, see FromIsBuilt, or the user or the      *)
(* choice between redis and valkey excludes it.                            *)
(***************************************************************************)
FromBuiltFirst ==
    pc = "handover" =>
        \A m \in cont_map \cap Intended :
            FromTree(req.layout, m) /\ status[m] \in {"working", "ready", "failed"} =>
                \/ tcib_from[m] \in req.user \cup {Redis, Valkey}
                \/ status[tcib_from[m]] = "ready"

(***************************************************************************)
(* A build command that ends well has built every image it was asked for   *)
(* and every image one of these is FROM, but what the user or the choice   *)
(* between redis and valkey excludes (container_image.py:734-772).         *)
(***************************************************************************)
AllIntendedBuilt ==
    result = "built" =>
        \A m \in Intended \ (req.user \cup {Redis, Valkey}) : status[m] = "ready"

(***************************************************************************)
(* container_image.py:707-711: "The file provided by <options-apply> does  *)
(* not exist".                                                             *)
(***************************************************************************)
ExtraConfigMissing == error = "IOError" => req.extra = "missing"
=============================================================================
