--------------------------- MODULE ContainerImage ---------------------------
(***************************************************************************)
(* Build.take_action (tcib/client/container_image.py), the command `tcib   *)
(* container image build' up to the call of BuildahBuilder: which images   *)
(* get a Containerfile, what they are FROM, and which are excluded.        *)
(*                                                                         *)
(* The attributes identified_images, image_parents and image_levels are    *)
(* attributes of the CLASS.  An interactive `openstack' shell runs several *)
(* commands in one process, so what one command recorded, a failed one     *)
(* included, is still there for the next.  A behaviour here is such a      *)
(* shell; a plain command line is the behaviour with one command.          *)
(***************************************************************************)
EXTENDS Integers, Sequences, FiniteSets

CONSTANTS
    Images,       \* names of the image directories
    Base,         \* the image `base'
    BaseImage,    \* --base, what the image `base' is FROM
    Outside,      \* any other image that this command does not build
    Redis,        \* the image `redis'
    Valkey,       \* the image `valkey'
    Requests,     \* the command lines considered, see IsRequest
    MaxCommands   \* bound on the commands given to one process

(***************************************************************************)
(* The configuration directory.  path[m] is the path of image m's          *)
(* directory below `tcib', the name of every directory on it; files[m] is  *)
(* how many YAML files the directory holds, and when m is in empty they    *)
(* hold nothing.  Images in from get their tcib_from from their config, or *)
(* all of them from --tcib-extras; it is taken to name an image that this  *)
(* command does not build.  Directory names are taken to be unique.        *)
(***************************************************************************)
IsLayout(l) ==
    /\ l.path \in [Images -> Seq(Images)]
    /\ l.files \in [Images -> Nat]
    /\ {l.empty, l.from} \subseteq SUBSET Images
    /\ \A m \in Images :
          /\ l.path[m] # <<>> /\ l.path[m][Len(l.path[m])] = m
          /\ \A i \in 1..Len(l.path[m]) : l.path[l.path[m][i]] = SubSeq(l.path[m], 1, i)

(***************************************************************************)
(* A command line: the configuration directory, whether there is a config  *)
(* file and the images it lists, --exclude, whether --release is 10,       *)
(* whether --tcib-extras, --rhel-modules and --label are well formed,      *)
(* --skip-build, and --extra-config: not given, the relative path of an    *)
(* existing file, or of a missing one.                                     *)
(***************************************************************************)
IsRequest(r) ==
    /\ IsLayout(r.layout)
    /\ r.config \subseteq Images
    /\ r.user \subseteq Images
    /\ {r.hasFile, r.release10, r.optionsOk, r.skip} \subseteq BOOLEAN
    /\ r.extra \in {"none", "relative", "missing"}

ASSUME NamesAssumption == {BaseImage, Outside} \cap Images = {} /\ BaseImage # Outside
ASSUME RequestsAssumption == Requests # {} /\ \A r \in Requests : IsRequest(r)
ASSUME CommandsAssumption == MaxCommands \in Nat

VARIABLES
    req,                \* the command line being executed
    pc,                 \* where take_action is; "idle" between commands
    commands,           \* how many commands were given
    identified_images,  \* Build.identified_images
    image_parents,      \* Build.image_parents
    image_levels,       \* Build.image_levels
    todo,               \* images process_images has still to process
    prepared,           \* keys of _image_configs
    tcib_from,          \* tcib_inventory: what the Containerfiles will be FROM
    cont_map,           \* images with a Containerfile in work_dir
    excludes,           \* what is handed to BuildahBuilder as excludes
    result              \* how the last command ended

classVars == <<identified_images, image_parents, image_levels>>
imgVars == <<req, pc, commands, classVars, todo, prepared, tcib_from, cont_map, excludes, result>>

Depth(l, m) == Len(l.path[m])

\* the images a directory lies below, with a config of their own or not
DirsAbove(l, m) == {l.path[m][i] : i \in 1..(Depth(l, m) - 1)}

\* index_images: the directories that hold a YAML file
Identified(l) == {m \in Images : l.files[m] > 0}

ConfiguredAbove(l, m) == DirsAbove(l, m) \cap Identified(l)

\* an image and the configured images above it
Chain(l, m) == {m} \cup ConfiguredAbove(l, m)

\* find_image returns something for the image
HasConfig(l, m) == l.files[m] > 0 /\ m \notin l.empty

----------------------------------------------------------------------------
(* find_image *)

\* the nearest configured directory above an image, or the base image
\* (mutated form: the nearest directory, configured or not)
M_Nearest(l, c) ==
    IF DirsAbove(l, c) = {} THEN BaseImage ELSE l.path[c][Depth(l, c) - 1]
Nearest(l, c) ==
    IF ConfiguredAbove(l, c) = {} THEN BaseImage
    ELSE CHOOSE a \in ConfiguredAbove(l, c) :
            \A b \in ConfiguredAbove(l, c) : Depth(l, b) <= Depth(l, a)

\* What it records in image_parents, for the image and every configured one
\* above it.
\* (mutated form: only for the image itself)
M_NewParents(l, m) == [c \in {m} |-> Nearest(l, c)]
NewParents(l, m) == [c \in Chain(l, m) |-> Nearest(l, c)]

\* What it records in image_levels: the image's depth, then one less for
\* every configured image on the way up.  The counter is not reset between
\* the YAML files of the directory, and the last file's values stay.
\* (mutated form: the level is not counted down)
M_NewLevels(l, m) == [c \in Chain(l, m) |-> Depth(l, m)]
NewLevels(l, m) ==
    LET start == Depth(l, m) - (l.files[m] - 1) * Cardinality(ConfiguredAbove(l, m))
    IN  [c \in Chain(l, m) |->
            start - Cardinality({a \in Chain(l, m) : Depth(l, a) > Depth(l, c)})]

\* a dictionary with the entries of another set in it
Updated(dict, new) ==
    [k \in DOMAIN dict \cup DOMAIN new |-> IF k \in DOMAIN new THEN new[k] ELSE dict[k]]

FindImage(m) ==
    IF req.layout.files[m] = 0 THEN UNCHANGED <<image_parents, image_levels>>
    ELSE /\ image_parents' = Updated(image_parents, NewParents(req.layout, m))
         /\ image_levels' = Updated(image_levels, NewLevels(req.layout, m))

----------------------------------------------------------------------------
(* take_action *)

NoDict == [x \in {} |-> x]

Init ==
    /\ req = CHOOSE r \in Requests : TRUE   \* none yet
    /\ pc = "idle"
    /\ commands = 0
    /\ identified_images = {}
    /\ image_parents = NoDict
    /\ image_levels = NoDict
    /\ todo = {}
    /\ prepared = {}
    /\ tcib_from = NoDict
    /\ cont_map = {}
    /\ excludes = {}
    /\ result = "none"

\* index_images, then the images to prepare: those of the config file that
\* the user did not exclude, or all identified ones.
Begin(r) ==
    /\ pc = "idle"
    /\ commands < MaxCommands
    /\ commands' = commands + 1
    /\ req' = r
    /\ identified_images' = identified_images \cup Identified(r.layout)
    /\ todo' = IF r.hasFile THEN r.config \ r.user ELSE identified_images'
    /\ prepared' = {}
    /\ tcib_from' = NoDict
    /\ cont_map' = {}
    /\ excludes' = {}
    /\ result' = "none"
    /\ pc' = "pass1"
    /\ UNCHANGED <<image_parents, image_levels>>

\* the command raises; what it recorded in the class stays
Raise(error) ==
    /\ result' = error
    /\ pc' = "idle"
    /\ todo' = {}

\* process_images, one image
ProcessImage(m) ==
    /\ pc \in {"pass1", "pass2"}
    /\ m \in todo
    /\ HasConfig(req.layout, m)
    /\ FindImage(m)
    /\ prepared' = prepared \cup {m}
    /\ todo' = todo \ {m}
    /\ UNCHANGED <<req, pc, commands, identified_images, tcib_from, cont_map, excludes, result>>

ConfigMissing(m) ==
    /\ pc \in {"pass1", "pass2"}
    /\ m \in todo
    /\ ~HasConfig(req.layout, m)
    /\ FindImage(m)
    /\ Raise("NoConfig")
    /\ UNCHANGED <<req, commands, identified_images, prepared, tcib_from, cont_map, excludes>>

\* the second pass processes whatever is a parent by now
\* (mutated form: the base image is not skipped)
M_SecondPass ==
    /\ pc = "pass1"
    /\ todo = {}
    /\ todo' = {image_parents[c] : c \in DOMAIN image_parents}
    /\ pc' = "pass2"
    /\ UNCHANGED <<req, commands, classVars, prepared, tcib_from, cont_map, excludes, result>>
SecondPass ==
    /\ pc = "pass1"
    /\ todo = {}
    /\ todo' = {image_parents[c] : c \in DOMAIN image_parents} \ {BaseImage}
    /\ pc' = "pass2"
    /\ UNCHANGED <<req, commands, classVars, prepared, tcib_from, cont_map, excludes, result>>

\* What the Containerfile of an image is FROM, unless its tcib_from is given:
\* only for `base' is it --base; it is <prefix>-<parent> for any other, and
\* <prefix>-<base> is not the name of an image that is built.
From(m) ==
    IF m \in req.layout.from THEN Outside
    ELSE IF m = Base THEN BaseImage
    ELSE LET image_name == IF m \in DOMAIN image_parents THEN image_parents[m] ELSE m
         IN  IF image_name = BaseImage THEN Outside ELSE image_name

\* the inventory, one host per prepared image; the options are parsed again
\* for every image, and not at all when there is none
Inventory ==
    /\ pc = "pass2"
    /\ todo = {}
    /\ req.optionsOk \/ prepared = {}
    /\ tcib_from' = [m \in prepared |-> From(m)]
    /\ pc' = "generate"
    /\ UNCHANGED <<req, commands, classVars, todo, prepared, cont_map, excludes, result>>

BadOption ==
    /\ pc = "pass2"
    /\ todo = {}
    /\ ~req.optionsOk
    /\ prepared # {}
    /\ Raise("BadOption")
    /\ UNCHANGED <<req, commands, classVars, prepared, tcib_from, cont_map, excludes>>

\* the playbook writes a Containerfile for every host, or fails on the way
Generate ==
    /\ pc = "generate"
    /\ cont_map' = prepared
    /\ pc' = "exclude"
    /\ UNCHANGED <<req, commands, classVars, todo, prepared, tcib_from, excludes, result>>

GenerateFails ==
    /\ pc = "generate"
    /\ \E some \in SUBSET prepared : cont_map' = some
    /\ Raise("GenerateFailed")
    /\ UNCHANGED <<req, commands, classVars, prepared, tcib_from, excludes>>

\* rectify_excludes
\* (mutated form: looks at the images asked for, not at those prepared)
M_Unprepared == identified_images \ (req.config \ req.user)
Unprepared == identified_images \ prepared

\* excludes for BuildahBuilder: one of redis and valkey always goes
\* (mutated form: what was not prepared is not excluded)
M_Exclude ==
    /\ pc = "exclude"
    /\ excludes' = req.user \cup
                   {IF req.release10 /\ Redis \notin req.user THEN Redis ELSE Valkey}
    /\ pc' = IF req.skip THEN "idle" ELSE "handover"
    /\ result' = IF req.skip THEN "skipped" ELSE result
    /\ UNCHANGED <<req, commands, classVars, todo, prepared, tcib_from, cont_map>>
Exclude ==
    /\ pc = "exclude"
    /\ LET unwanted == req.user \cup Unprepared
       IN  excludes' = unwanted \cup
               {IF req.release10 /\ Redis \notin unwanted THEN Redis ELSE Valkey}
    /\ pc' = IF req.skip THEN "idle" ELSE "handover"
    /\ result' = IF req.skip THEN "skipped" ELSE result
    /\ UNCHANGED <<req, commands, classVars, todo, prepared, tcib_from, cont_map>>

\* build_all returns or raises (module BuildahBuilder); SystemError is
\* caught, logged and raised again
BuildAll ==
    /\ pc = "handover"
    /\ result' \in {"built", "RuntimeError", "SystemError"}
    /\ pc' = "idle"
    /\ UNCHANGED <<req, commands, classVars, todo, prepared, tcib_from, cont_map, excludes>>

\* the shell waits for the next command
Waiting == pc = "idle" /\ UNCHANGED imgVars

Next ==
    \/ \E r \in Requests : Begin(r)
    \/ \E m \in Images : ProcessImage(m) \/ ConfigMissing(m)
    \/ SecondPass \/ Inventory \/ BadOption \/ Generate \/ GenerateFails
    \/ Exclude \/ BuildAll
    \/ Waiting

Spec == Init /\ [][Next]_imgVars

----------------------------------------------------------------------------
(* Properties *)

TypeOK ==
    /\ req \in Requests
    /\ pc \in {"idle", "pass1", "pass2", "generate", "exclude", "handover"}
    /\ commands \in 0..MaxCommands
    /\ identified_images \subseteq Images
    /\ DOMAIN image_parents \subseteq Images
    /\ \A m \in DOMAIN image_parents : image_parents[m] \in Images \cup {BaseImage}
    /\ DOMAIN image_levels = DOMAIN image_parents
    /\ \A m \in DOMAIN image_levels : image_levels[m] \in Int
    /\ todo \subseteq Images
    /\ prepared \subseteq Images
    /\ DOMAIN tcib_from \subseteq prepared
    /\ \A m \in DOMAIN tcib_from : tcib_from[m] \in Images \cup {BaseImage, Outside}
    /\ cont_map \subseteq Images
    /\ excludes \subseteq Images \cup {Redis, Valkey}
    /\ result \in {"none", "NoConfig", "BadOption", "GenerateFailed", "skipped",
                   "built", "RuntimeError", "SystemError"}

\* the images the command line asks for, with the images they depend on
Intended ==
    LET asked == IF req.hasFile THEN req.config \ req.user
                 ELSE Identified(req.layout)
    IN  UNION {Chain(req.layout, m) : m \in asked}

\* every directory holds exactly one YAML file, as in the repository
PlainLayout == \A m \in Images : req.layout.files[m] = 1

(***************************************************************************)
(* The two passes of process_images (container_image.py:562-573) prepare   *)
(* every requested image and every image one of them depends on, at any    *)
(* depth; the first command of a process prepares no other.                *)
(***************************************************************************)
PreparedIsClosed ==
    pc = "generate" =>
        /\ Intended \subseteq prepared
        /\ commands = 1 => prepared \subseteq Intended

(***************************************************************************)
(* Every directory BuildahBuilder will build, being in the tree and not    *)
(* excluded, has a Containerfile (container_image.py:734-768), whatever    *)
(* the process did before; unless directories without a config are used    *)
(* for grouping, see NotIntendedExcluded.                                  *)
(***************************************************************************)
BuiltHasContainerfile ==
    pc = "handover" /\ Identified(req.layout) = Images => Images \ excludes \subseteq cont_map

\* the image is FROM another one of the tree
FromTree(l, m) == m # Base /\ m \notin l.from /\ ConfiguredAbove(l, m) # {}

(***************************************************************************)
(* What the Containerfile of an intended image is FROM                     *)
(* (container_image.py:593-607, 672-674): --base for `base'; a directory   *)
(* above it, hence built in an earlier batch, for any other that lies      *)
(* below a config; and an image that this command does not build for the   *)
(* rest.  The directory's image is built, too, unless the user or the      *)
(* choice between redis and valkey excludes it.  What earlier commands     *)
(* recorded does not matter; but an image that only they make this command *)
(* build may be FROM one that it does not build.                           *)
(***************************************************************************)
FromIsBuilt ==
    pc = "handover" =>
        \A m \in (cont_map \cap Intended) \ excludes :
            /\ tcib_from[m] = BaseImage <=> m = Base /\ m \notin req.layout.from
            /\ IF FromTree(req.layout, m)
               THEN /\ tcib_from[m] \in DirsAbove(req.layout, m)
                    /\ \/ tcib_from[m] \in cont_map \ excludes
                       \/ tcib_from[m] \in req.user \cup {Redis, Valkey}
               ELSE tcib_from[m] \notin Images

(***************************************************************************)
(* In a layout like the repository's, sorting by image_levels              *)
(* (container_image.py:576-581) puts the images of a lower depth first,    *)
(* although the levels are overwritten from every descendant.              *)
(***************************************************************************)
SortedByDepth ==
    pc = "generate" /\ PlainLayout =>
        \A m, n \in prepared :
            Depth(req.layout, m) < Depth(req.layout, n) <=> image_levels[m] < image_levels[n]

(***************************************************************************)
(* The first command of a process fails for want of a config               *)
(* (container_image.py:449-457) only when an image it was asked for, or    *)
(* one that image depends on, has none.                                    *)
(***************************************************************************)
FailsForCause ==
    commands = 1 /\ result = "NoConfig" =>
        \E m \in Intended : ~HasConfig(req.layout, m)

(***************************************************************************)
(* container_image.py:734: "Ensure anything not intended to be built is    *)
(* excluded".                                                              *)
(***************************************************************************)
NotIntendedExcluded == pc = "handover" => Images \ Intended \subseteq excludes

(***************************************************************************)
(* container_image.py:736: "For EL10, Put redis under exclude list to      *)
(* build valkey".                                                          *)
(***************************************************************************)
ValkeyOnEL10 ==
    pc = "handover" /\ req.release10 /\ Valkey \in Intended \ req.user => Valkey \notin excludes
=============================================================================
