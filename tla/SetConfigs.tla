----------------------------- MODULE SetConfigs -----------------------------
(***************************************************************************)
(* kolla_set_configs and kolla_start (container-images/kolla/base,         *)
(* set_configs.py and start.sh): at every start of a container the         *)
(* configuration files are copied to where the service reads them and the  *)
(* command of the service is written to /run_command, which start.sh reads *)
(* and executes.  With KOLLA_CONFIG_STRATEGY=COPY_ONCE the file            *)
(* /configured makes later starts skip the copying.                        *)
(*                                                                         *)
(* The container may be killed between any two steps and is started again  *)
(* with the files as they were left; an error of the operating system      *)
(* during a copy ends the start in the same way.  The mounted sources may  *)
(* change at any time, also between the steps of one copy: glob finds a    *)
(* source, the destination is deleted, os.listdir lists the source, and    *)
(* its files are copied one by one.                                        *)
(***************************************************************************)
EXTENDS Integers, Sequences, FiniteSets

CONSTANTS
    Files,       \* names of the files in a source directory
    Versions,    \* versions of the content of a source file
    Configs,     \* the lists config_files considered, of ConfigEntry
    Strategies,  \* the values of KOLLA_CONFIG_STRATEGY considered
    MaxCrashes,  \* bound on crashes
    MaxChanges   \* bound on changes of the sources

Absent  == 0    \* no such file
Partial == -1   \* a file that was being written when the container was killed

(***************************************************************************)
(* An entry of config_files.  Its source is a directory, or, when dir is   *)
(* FALSE, a file.  perm is "octal" for a permission like 0600 (or 0o600),  *)
(* "decimal" for one of another length, 600, which int(perm, base=0) reads *)
(* as a decimal number, and "special" for one like 1777, which becomes     *)
(* 1o777 and raises ValueError.  Every entry has a destination of its own. *)
(***************************************************************************)
ConfigEntry ==
    [dir : BOOLEAN, optional : BOOLEAN, merge : BOOLEAN, preserve : BOOLEAN,
     perm : {"octal", "decimal", "special"}]

ASSUME FilesAssumption == IsFiniteSet(Files)
ASSUME ValuesAssumption == Versions \subseteq Nat \ {0}
ASSUME ConfigsAssumption == Configs \subseteq Seq(ConfigEntry)
ASSUME CfgBoundsAssumption == MaxCrashes \in Nat /\ MaxChanges \in Nat

VARIABLES
    config,       \* config_files of config.json, never changed
    strategy,     \* KOLLA_CONFIG_STRATEGY, never changed
    mounted,      \* the entries whose source exists
    src,          \* src[i][f]: the version of file f in the source of entry i
    dst,          \* dst[i][f]: what is at its destination
    props,        \* props[i][f]: owner and mode there: "new", "wanted", "other"
    run_command,  \* the file /run_command: "missing", "empty" or "whole"
    configured,   \* the file /configured exists
    pc,           \* where the start of the container is
    entry,        \* the entry being copied
    todo,         \* files os.listdir returned and that are not copied yet
    open,         \* the file being copied and the version that was opened
    found,        \* the entries whose source the last copying start found
    listed,       \* listed[i]: the files it listed there
    seen,         \* seen[i][f]: what it read
    crashes,      \* how often the container was killed
    changes       \* how often the sources changed

inputVars == <<config, strategy>>
srcVars   == <<mounted, src>>
diskVars  == <<dst, props, run_command, configured>>
copyVars  == <<entry, todo, open>>
readVars  == <<found, listed, seen>>
cfgVars   == <<inputVars, srcVars, diskVars, pc, copyVars, readVars, crashes, changes>>

Entries == 1..Len(config)

Nothing == [f \in Files |-> Absent]

Present(i) == {f \in Files : src[i][f] # Absent}

(***************************************************************************)
(* What a source holds: nothing when it does not exist, any files when it  *)
(* is a directory, also none, and just the one file when it is a file.     *)
(***************************************************************************)
Contents(e, here) ==
    {s \in [Files -> Versions \cup {Absent}] :
        /\ ~here => s = Nothing
        /\ here /\ ~e.dir => s # Nothing
        /\ ~e.dir => \A f \in Files : s[f] # Absent => f = CHOOSE g \in Files : TRUE}

Init ==
    /\ config \in Configs
    /\ strategy \in Strategies
    /\ mounted \in SUBSET Entries
    /\ src \in [Entries -> [Files -> Versions \cup {Absent}]]
    /\ \A i \in Entries : src[i] \in Contents(config[i], i \in mounted)
    /\ dst = [i \in Entries |-> Nothing]
    /\ props = [i \in Entries |-> [f \in Files |-> "new"]]
    /\ run_command = "missing"
    /\ configured = FALSE
    /\ pc = "down"
    /\ entry = 1
    /\ todo = {}
    /\ open = <<>>
    /\ found = {}
    /\ listed = [i \in Entries |-> {}]
    /\ seen = [i \in Entries |-> Nothing]
    /\ crashes = 0
    /\ changes = 0

----------------------------------------------------------------------------
(* set_configs.py *)

\* execute_config_strategy (mutated form: /configured is not looked at)
M_Begin ==
    /\ pc = "down"
    /\ pc' = "copy"
    /\ entry' = 1
    /\ found' = {}
    /\ listed' = [i \in Entries |-> {}]
    /\ seen' = [i \in Entries |-> Nothing]
    /\ UNCHANGED <<inputVars, srcVars, diskVars, todo, open, crashes, changes>>
Begin ==
    /\ pc = "down"
    /\ strategy \in {"COPY_ALWAYS", "COPY_ONCE"}
    /\ ~(strategy = "COPY_ONCE" /\ configured)
    /\ pc' = "copy"
    /\ entry' = 1
    /\ found' = {}
    /\ listed' = [i \in Entries |-> {}]
    /\ seen' = [i \in Entries |-> Nothing]
    /\ UNCHANGED <<inputVars, srcVars, diskVars, todo, open, crashes, changes>>

\* an exception: the exit code is not 0 and errexit ends start.sh
Fail == pc' = "down" /\ todo' = {} /\ open' = <<>>

\* ImmutableConfig carries the exit code 0, so start.sh goes on
\* (mutated form: it carries the default, 1)
M_AlreadyConfigured ==
    /\ pc = "down"
    /\ strategy = "COPY_ONCE"
    /\ configured
    /\ Fail
    /\ UNCHANGED <<inputVars, srcVars, diskVars, entry, readVars, crashes, changes>>
AlreadyConfigured ==
    /\ pc = "down"
    /\ strategy = "COPY_ONCE"
    /\ configured
    /\ pc' = "shell"
    /\ UNCHANGED <<inputVars, srcVars, diskVars, copyVars, readVars, crashes, changes>>

NoStrategy ==
    /\ pc = "down"
    /\ strategy \notin {"COPY_ALWAYS", "COPY_ONCE"}
    /\ Fail
    /\ UNCHANGED <<inputVars, srcVars, diskVars, entry, readVars, crashes, changes>>

\* copy(): glob.glob finds no source
MissingSource ==
    /\ pc = "copy"
    /\ entry \in Entries \ mounted
    /\ ~config[entry].optional
    /\ Fail
    /\ UNCHANGED <<inputVars, srcVars, diskVars, entry, readVars, crashes, changes>>

SkipOptional ==
    /\ pc = "copy"
    /\ entry \in Entries \ mounted
    /\ config[entry].optional
    /\ entry' = entry + 1
    /\ UNCHANGED <<inputVars, srcVars, diskVars, pc, todo, open, readVars, crashes, changes>>

\* it finds one, an empty directory included
FindSource ==
    /\ pc = "copy"
    /\ entry \in Entries \cap mounted
    /\ found' = found \cup {entry}
    /\ pc' = "found"
    /\ UNCHANGED <<inputVars, srcVars, diskVars, copyVars, listed, seen, crashes, changes>>

\* _delete_path of the destination, unless merging, file by file
DeleteOld(f) ==
    /\ pc = "found"
    /\ ~config[entry].merge
    /\ dst[entry][f] # Absent
    /\ dst' = [dst EXCEPT ![entry][f] = Absent]
    /\ UNCHANGED <<inputVars, srcVars, props, run_command, configured, pc, copyVars,
                   readVars, crashes, changes>>

\* (mutated form: the destination need not be deleted)
M_Cleared == TRUE
Cleared == config[entry].merge \/ dst[entry] = Nothing

PermissionOk(e) == e.preserve \/ e.perm # "special"

\* _merge_directories makes the directory, sets its properties and lists the
\* source; what is listed now will be copied, or a source that is a file
ListSource ==
    /\ pc = "found"
    /\ Cleared
    /\ entry \in mounted
    /\ config[entry].dir => PermissionOk(config[entry])
    /\ todo' = Present(entry)
    /\ listed' = [listed EXCEPT ![entry] = Present(entry)]
    /\ pc' = "files"
    /\ UNCHANGED <<inputVars, srcVars, diskVars, entry, open, found, seen, crashes, changes>>

\* The source vanished since glob.  Where isdir still found a directory,
\* copystat or listdir raises OSError; otherwise shutil.copy does, after the
\* destination was deleted, whether merging or not.
SourceVanished ==
    /\ pc = "found"
    /\ Cleared
    /\ entry \notin mounted
    /\ \/ dst' = [dst EXCEPT ![entry] = Nothing]
       \/ config[entry].dir /\ UNCHANGED dst
    /\ Fail
    /\ UNCHANGED <<inputVars, srcVars, props, run_command, configured, entry, readVars,
                   crashes, changes>>

\* _copy_file deletes the old file and opens both
\* (mutated form: the whole destination is deleted)
M_OpenFile(f) ==
    /\ pc = "files"
    /\ open = <<>>
    /\ f \in todo
    /\ src[entry][f] # Absent
    /\ open' = <<f, src[entry][f]>>
    /\ dst' = [dst EXCEPT ![entry] = [Nothing EXCEPT ![f] = Partial]]
    /\ props' = [props EXCEPT ![entry][f] = "new"]
    /\ UNCHANGED <<inputVars, srcVars, run_command, configured, pc, entry, todo, readVars,
                   crashes, changes>>
OpenFile(f) ==
    /\ pc = "files"
    /\ open = <<>>
    /\ f \in todo
    /\ src[entry][f] # Absent
    /\ open' = <<f, src[entry][f]>>
    /\ dst' = [dst EXCEPT ![entry][f] = Partial]
    /\ props' = [props EXCEPT ![entry][f] = "new"]
    /\ UNCHANGED <<inputVars, srcVars, run_command, configured, pc, entry, todo, readVars,
                   crashes, changes>>

\* ... the source vanished since os.listdir: OSError, logged and raised
FileVanished(f) ==
    /\ pc = "files"
    /\ open = <<>>
    /\ f \in todo
    /\ src[entry][f] = Absent
    /\ dst' = [dst EXCEPT ![entry][f] = Absent]
    /\ Fail
    /\ UNCHANGED <<inputVars, srcVars, props, run_command, configured, entry, readVars,
                   crashes, changes>>

FinishFile ==
    /\ pc = "files"
    /\ open # <<>>
    /\ dst' = [dst EXCEPT ![entry][open[1]] = open[2]]
    /\ seen' = [seen EXCEPT ![entry][open[1]] = open[2]]
    /\ pc' = "props"
    /\ UNCHANGED <<inputVars, srcVars, props, run_command, configured, copyVars,
                   found, listed, crashes, changes>>

\* _set_properties: an OSError of chown or chmod is logged and ignored,
\* unless the properties are those of the source
SetProps ==
    /\ pc = "props"
    /\ PermissionOk(config[entry])
    /\ \E p \in IF config[entry].preserve THEN {"wanted"}
                ELSE IF config[entry].perm = "octal" THEN {"wanted", "other"} ELSE {"other"} :
          props' = [props EXCEPT ![entry][open[1]] = p]
    /\ todo' = todo \ {open[1]}
    /\ open' = <<>>
    /\ pc' = "files"
    /\ UNCHANGED <<inputVars, srcVars, dst, run_command, configured, entry, readVars, crashes, changes>>

\* ValueError from int(perm, base=0), for a directory before it is listed
BadPermission ==
    /\ \/ pc = "found" /\ Cleared /\ entry \in mounted /\ config[entry].dir
       \/ pc = "props"
    /\ ~PermissionOk(config[entry])
    /\ Fail
    /\ UNCHANGED <<inputVars, srcVars, diskVars, entry, readVars, crashes, changes>>

EndEntry ==
    /\ pc = "files"
    /\ open = <<>>
    /\ todo = {}
    /\ entry' = entry + 1
    /\ pc' = "copy"
    /\ UNCHANGED <<inputVars, srcVars, diskVars, todo, open, readVars, crashes, changes>>

\* opening /run_command truncates it
\* (mutated form: /configured is created before the command is written)
M_TruncateCommand ==
    /\ pc = "copy"
    /\ entry = Len(config) + 1
    /\ run_command' = "empty"
    /\ configured' = (strategy = "COPY_ONCE")
    /\ pc' = "write"
    /\ UNCHANGED <<inputVars, srcVars, dst, props, copyVars, readVars, crashes, changes>>
TruncateCommand ==
    /\ pc = "copy"
    /\ entry = Len(config) + 1
    /\ run_command' = "empty"
    /\ pc' = "write"
    /\ UNCHANGED <<inputVars, srcVars, dst, props, configured, copyVars, readVars, crashes, changes>>

WriteCommand ==
    /\ pc = "write"
    /\ run_command' = "whole"
    /\ pc' = "mark"
    /\ UNCHANGED <<inputVars, srcVars, dst, props, configured, copyVars, readVars, crashes, changes>>

\* handle_permissions, then /configured for COPY_ONCE
Mark ==
    /\ pc = "mark"
    /\ configured' = (configured \/ strategy = "COPY_ONCE")
    /\ pc' = "shell"
    /\ UNCHANGED <<inputVars, srcVars, dst, props, run_command, copyVars, readVars, crashes, changes>>

----------------------------------------------------------------------------
(* start.sh and the world around *)

\* CMD=$(cat /run_command); exec of the command.  Without a command there is
\* nothing to execute and the script ends.
Exec ==
    /\ pc = "shell"
    /\ pc' = IF run_command = "whole" THEN "running" ELSE "down"
    /\ UNCHANGED <<inputVars, srcVars, diskVars, copyVars, readVars, crashes, changes>>

\* the container is killed, in the middle of a start or later
Crash ==
    /\ pc # "down"
    /\ crashes < MaxCrashes
    /\ crashes' = crashes + 1
    /\ Fail
    /\ UNCHANGED <<inputVars, srcVars, diskVars, entry, readVars, changes>>

\* somebody changes what is mounted as a source
ChangeSource(i) ==
    /\ changes < MaxChanges
    /\ changes' = changes + 1
    /\ \E here \in BOOLEAN : \E s \in Contents(config[i], here) :
          /\ mounted' = IF here THEN mounted \cup {i} ELSE mounted \ {i}
          /\ src' = [src EXCEPT ![i] = s]
    /\ srcVars' # srcVars
    /\ UNCHANGED <<inputVars, diskVars, pc, copyVars, readVars, crashes>>

Running == pc = "running" /\ UNCHANGED cfgVars

\* a step of the container's start
Step ==
    \/ Begin \/ AlreadyConfigured \/ NoStrategy
    \/ MissingSource \/ SkipOptional \/ FindSource
    \/ ListSource \/ SourceVanished
    \/ (\E f \in Files : DeleteOld(f) \/ OpenFile(f) \/ FileVanished(f))
    \/ FinishFile \/ SetProps \/ BadPermission \/ EndEntry
    \/ TruncateCommand \/ WriteCommand \/ Mark
    \/ Exec

Next == Step \/ Crash \/ (\E i \in Entries : ChangeSource(i)) \/ Running

Spec == Init /\ [][Next]_cfgVars

\* the script is scheduled, and a dead container is started again
FairSpec == Spec /\ WF_cfgVars(Step)

----------------------------------------------------------------------------
(* Properties *)

TypeOK ==
    /\ config \in Configs
    /\ strategy \in Strategies
    /\ mounted \subseteq Entries
    /\ src \in [Entries -> [Files -> Versions \cup {Absent}]]
    /\ \A i \in Entries : src[i] \in Contents(config[i], i \in mounted)
    /\ dst \in [Entries -> [Files -> Versions \cup {Absent, Partial}]]
    /\ props \in [Entries -> [Files -> {"new", "wanted", "other"}]]
    /\ run_command \in {"missing", "empty", "whole"}
    /\ configured \in BOOLEAN
    /\ pc \in {"down", "copy", "found", "files", "props", "write", "mark", "shell", "running"}
    /\ entry \in 1..(Len(config) + 1)
    /\ todo \subseteq Files
    /\ open = <<>> \/ open \in Files \X Versions
    /\ found \subseteq Entries
    /\ listed \in [Entries -> SUBSET Files]
    /\ seen \in [Entries -> [Files -> Versions \cup {Absent}]]
    /\ crashes \in 0..MaxCrashes
    /\ changes \in 0..MaxChanges

(***************************************************************************)
(* The last copying start found the source of entry i, or the entry is     *)
(* optional; what it listed there was copied whole and has its properties  *)
(* set; and unless merging, nothing else is at the destination.  A source  *)
(* directory that is empty, or is emptied just before it is listed, is     *)
(* found, and leaves an empty destination, required or not.                *)
(***************************************************************************)
Complete(i) ==
    /\ config[i].optional \/ i \in found
    /\ \A f \in listed[i] :
          seen[i][f] # Absent /\ dst[i][f] = seen[i][f] /\ props[i][f] # "new"
    /\ ~config[i].merge /\ i \in found =>
          \A f \in Files \ listed[i] : dst[i][f] = Absent

(***************************************************************************)
(* A running service has a complete configuration (start.sh:8-9): its      *)
(* command, and of every entry, unless it is optional and without a        *)
(* source, all the files that one listing of its source returned, none of  *)
(* them cut off by an earlier crash, and none left from an earlier copy    *)
(* unless merging, whatever happened to the source between the steps.      *)
(* This holds for starts that found /configured as well.                   *)
(***************************************************************************)
RunsComplete ==
    pc = "running" => run_command = "whole" /\ \A i \in Entries : Complete(i)

(***************************************************************************)
(* /configured appears only when everything it stands for is on disk       *)
(* (set_configs.py:382-384), so that a crash right before or after it      *)
(* neither loses nor freezes half a configuration.                         *)
(***************************************************************************)
ConfiguredIsComplete ==
    configured => /\ strategy = "COPY_ONCE"
                  /\ run_command = "whole"
                  /\ \A i \in Entries : Complete(i)

(***************************************************************************)
(* With COPY_ONCE nothing at a destination, nor the command, changes any   *)
(* more once /configured exists (set_configs.py:378-381), whatever happens *)
(* to the sources and however often the container is started again.        *)
(***************************************************************************)
CopiedOnce == [][configured => UNCHANGED diskVars]_cfgVars

(***************************************************************************)
(* The inductive invariant: how far the copying start of set_configs.py    *)
(* (293-384) has come, and what it may rely on at each point.              *)
(***************************************************************************)
Copying == pc \in {"copy", "found", "files", "props", "write", "mark"}

\* the entry being copied: what was listed is there or still to be copied;
\* unless merging, nothing else is there
CurrentEntry ==
    /\ entry \in found
    /\ todo \subseteq listed[entry]
    /\ \A f \in listed[entry] \ todo :
          seen[entry][f] # Absent /\ dst[entry][f] = seen[entry][f] /\ props[entry][f] # "new"
    /\ ~config[entry].merge => \A f \in Files \ listed[entry] : dst[entry][f] = Absent

Untouched(i) == i \notin found /\ listed[i] = {}

CfgInv ==
    /\ TypeOK
    /\ Copying => /\ ~configured
                  /\ strategy \in {"COPY_ALWAYS", "COPY_ONCE"}
                  /\ \A i \in Entries : i < entry => Complete(i)
                  /\ \A i \in Entries : i > entry => Untouched(i)
    /\ pc = "copy" => \A i \in Entries : i = entry => Untouched(i)
    /\ pc = "found" => entry \in Entries \cap found
    /\ pc \in {"files", "props"} => entry \in Entries /\ CurrentEntry
    /\ open # <<>> => pc \in {"files", "props"} /\ open[1] \in todo
    /\ pc = "props" => /\ open # <<>>
                       /\ seen[entry][open[1]] = open[2] /\ dst[entry][open[1]] = open[2]
    /\ pc \in {"write", "mark"} => entry = Len(config) + 1
    /\ pc \in {"mark", "shell", "running"} => run_command = "whole"
    /\ pc \in {"shell", "running"} => \A i \in Entries : Complete(i)
    /\ ConfiguredIsComplete

\* nothing in the configuration keeps the container from starting
Startable ==
    /\ strategy \in {"COPY_ALWAYS", "COPY_ONCE"}
    /\ \A i \in Entries : /\ config[i].optional \/ i \in mounted
                          /\ PermissionOk(config[i])

(***************************************************************************)
(* Once the sources are there for good and crashes have ended, the service *)
(* comes up and stays up (start.sh:8-22), in whatever state a killed start *)
(* left the files; finding /configured is not an error (line 381).         *)
(***************************************************************************)
ServiceStarts == <>[]Startable => <>[](pc = "running")

(***************************************************************************)
(* A start is undisturbed while its container is startable and the source  *)
(* that glob found, and then the files that os.listdir returned, are there.*)
(* The steps it takes at most to the running service: for a file one to    *)
(* delete it and three to copy it, three for an entry, and five more.      *)
(***************************************************************************)
Undisturbed ==
    /\ Startable
    /\ pc = "found" => entry \in mounted
    /\ pc \in {"files", "props"} => todo \subseteq Present(entry)

Old(i) == {f \in Files : dst[i][f] # Absent}

PerEntry == 4 * Cardinality(Files) + 3

StepsLeft ==
    CASE pc = "down"    -> Len(config) * PerEntry + 5
      [] pc = "copy"    -> (Len(config) + 1 - entry) * PerEntry + 4
      [] pc = "found"   -> (Len(config) - entry) * PerEntry + Cardinality(Old(entry))
                           + 3 * Cardinality(Files) + 6
      [] pc = "files"   -> (Len(config) - entry) * PerEntry + 3 * Cardinality(todo)
                           + (IF open = <<>> THEN 5 ELSE 4)
      [] pc = "props"   -> (Len(config) - entry) * PerEntry + 3 * Cardinality(todo) + 3
      [] pc = "write"   -> 3
      [] pc = "mark"    -> 2
      [] pc = "shell"   -> 1
      [] pc = "running" -> 0

\* What `kolla_set_configs --check' finds for an entry: for a directory
\* _cmp_dir takes relpath from the wrong side and opens the parent of the
\* destination, and a copy with the properties of its source has no perm to
\* compare with.
CheckPasses(i) ==
    IF i \notin mounted THEN config[i].optional
    ELSE /\ ~config[i].dir
         /\ dst[i] = src[i]
         /\ ~config[i].preserve
         /\ \A f \in Present(i) : props[i][f] = "wanted"

\* everything is at its destination just as the configuration says
Unchanged ==
    \A i \in Entries : /\ i \in mounted
                        /\ dst[i] = src[i]
                        /\ \A f \in Present(i) : props[i][f] = "wanted"

(***************************************************************************)
(* set_configs.py:401, the help of --check: "Check whether the configs     *)
(* changed".  While nothing changed the check passes.                      *)
(***************************************************************************)
CheckNoticesOnlyChanges ==
    pc = "running" /\ Unchanged => \A i \in Entries : CheckPasses(i)
=============================================================================
