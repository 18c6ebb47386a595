---------------------------- MODULE HorizonStart ----------------------------
(***************************************************************************)
(* The start of the horizon container (container-images/kolla/horizon/     *)
(* extend_start.sh, sourced by start.sh under errexit): the plugins of the *)
(* dashboards are enabled or disabled as the environment says, then the    *)
(* compressed javascript and css are generated again, but only if that     *)
(* changed something or the settings do not match the checksum of the last *)
(* generation.                                                             *)
(*                                                                         *)
(* A behaviour is the life of one container: its environment stays, its    *)
(* disk survives a restart.  It may be killed between any two steps; a     *)
(* command of the script that fails ends the start in the same way.  The   *)
(* settings change between two starts, when kolla_set_configs copies them. *)
(***************************************************************************)
EXTENDS Integers

CONSTANTS
    LastPlugin,   \* number of plugin files that config_dashboard is called for
    Revert,       \* TRUE: earlier settings may come back
    MaxVersions,  \* bound on the versions of the settings
    MaxChanges,   \* bound on the changes of the settings
    MaxCrashes    \* bound on crashes

ASSUME HorizonAssumption ==
    /\ LastPlugin \in Nat
    /\ Revert \in BOOLEAN
    /\ MaxVersions \in Nat \ {0}
    /\ MaxChanges \in Nat
    /\ MaxCrashes \in Nat

Plugins == 1..LastPlugin
Versions == 1..MaxVersions

\* what is at a path: no file, one whose copy was cut off, all of it
Absent  == "absent"
Partial == "partial"
Whole   == "whole"

\* no checksum file, and one that was opened but not written
NoHash    == 0
EmptyHash == -1

VARIABLES
    enable,     \* the plugins whose ENABLE_... is yes
    shipped,    \* the plugins whose file SRC exists
    force_env,  \* FORCE_GENERATE=yes in the environment
    settings,   \* version of what settings_bundle packs
    enabled,    \* enabled[p]: what is at DEST
    static,     \* what was generated last: [settings, enabled] it was made of,
                \* or <<>> when it is cleared
    hash,       \* the settings whose checksum is in HASH_PATH
    force,      \* FORCE_GENERATE of this start
    pc,         \* where the start is
    next,       \* the plugin whose turn it is
    changes,    \* how often the settings changed
    crashes     \* how often the container was killed

envVars     == <<enable, shipped, force_env>>
diskVars    == <<enabled, static, hash>>
boundVars   == <<changes, crashes>>
horizonVars == <<envVars, settings, diskVars, force, pc, next, boundVars>>

\* a new container: nothing was generated in it yet
Init ==
    /\ enable \in SUBSET Plugins
    /\ shipped \in SUBSET Plugins
    /\ force_env \in BOOLEAN
    /\ settings = 1
    /\ enabled \in [Plugins -> {Absent, Whole}]
    /\ static = <<>>
    /\ hash = NoHash
    /\ force = force_env
    /\ pc = "down"
    /\ next = 1
    /\ changes = 0
    /\ crashes = 0

----------------------------------------------------------------------------
(* extend_start.sh *)

Start ==
    /\ pc = "down"
    /\ force' = force_env
    /\ next' = 1
    /\ pc' = "plugins"
    /\ UNCHANGED <<envVars, settings, diskVars, boundVars>>

\* config_dashboard: nothing to do for this plugin
ToEnable(p)  == p \in shipped /\ p \in enable /\ enabled[p] = Absent
ToDisable(p) == p \in shipped /\ p \notin enable /\ enabled[p] # Absent

AsItShouldBe ==
    /\ pc = "plugins"
    /\ next \in Plugins
    /\ ~ToEnable(next) /\ ~ToDisable(next)
    /\ next' = next + 1
    /\ UNCHANGED <<envVars, settings, diskVars, force, pc, boundVars>>

\* cp -a creates the file and then fills it
\* (mutated form: it is copied whatever is there)
M_BeginCopy ==
    /\ pc = "plugins"
    /\ next \in Plugins
    /\ next \in shipped /\ next \in enable
    /\ enabled' = [enabled EXCEPT ![next] = Partial]
    /\ pc' = "copy"
    /\ UNCHANGED <<envVars, settings, static, hash, force, next, boundVars>>
BeginCopy ==
    /\ pc = "plugins"
    /\ next \in Plugins
    /\ ToEnable(next)
    /\ enabled' = [enabled EXCEPT ![next] = Partial]
    /\ pc' = "copy"
    /\ UNCHANGED <<envVars, settings, static, hash, force, next, boundVars>>

EndCopy ==
    /\ pc = "copy"
    /\ enabled' = [enabled EXCEPT ![next] = Whole]
    /\ force' = TRUE
    /\ next' = next + 1
    /\ pc' = "plugins"
    /\ UNCHANGED <<envVars, settings, static, hash, boundVars>>

\* (mutated form: the file stays)
M_Disable ==
    /\ pc = "plugins"
    /\ next \in Plugins
    /\ ToDisable(next)
    /\ force' = TRUE
    /\ next' = next + 1
    /\ UNCHANGED <<envVars, settings, diskVars, pc, boundVars>>
Disable ==
    /\ pc = "plugins"
    /\ next \in Plugins
    /\ ToDisable(next)
    /\ enabled' = [enabled EXCEPT ![next] = Absent]
    /\ force' = TRUE
    /\ next' = next + 1
    /\ UNCHANGED <<envVars, settings, static, hash, pc, boundVars>>

\* if settings_changed.  An empty checksum file matches nothing.
settings_changed == hash = NoHash \/ hash # settings \/ force

\* (mutated form: the turn of the last plugin is skipped)
M_Check ==
    /\ pc = "plugins"
    /\ next >= LastPlugin
    /\ pc' = IF settings_changed THEN "collect" ELSE "up"
    /\ UNCHANGED <<envVars, settings, diskVars, force, next, boundVars>>
Check ==
    /\ pc = "plugins"
    /\ next \notin Plugins
    /\ pc' = IF settings_changed THEN "collect" ELSE "up"
    /\ UNCHANGED <<envVars, settings, diskVars, force, next, boundVars>>

\* collectstatic --clear
\* (mutated form: the checksum is written first)
M_CollectStatic ==
    /\ pc = "collect"
    /\ static' = <<>>
    /\ hash' = settings
    /\ pc' = "compress"
    /\ UNCHANGED <<envVars, settings, enabled, force, next, boundVars>>
CollectStatic ==
    /\ pc = "collect"
    /\ static' = <<>>
    /\ pc' = "compress"
    /\ UNCHANGED <<envVars, settings, enabled, hash, force, next, boundVars>>

\* compress --force
Compress ==
    /\ pc = "compress"
    /\ static' = [settings |-> settings, enabled |-> enabled]
    /\ pc' = "checksum"
    /\ UNCHANGED <<envVars, settings, enabled, hash, force, next, boundVars>>

\* settings_bundle | md5sum > $HASH_PATH: the shell truncates the file first
TruncateHash ==
    /\ pc = "checksum"
    /\ hash' = EmptyHash
    /\ pc' = "md5sum"
    /\ UNCHANGED <<envVars, settings, enabled, static, force, next, boundVars>>

WriteHash ==
    /\ pc = "md5sum"
    /\ hash' = settings
    /\ pc' = "up"
    /\ UNCHANGED <<envVars, settings, enabled, static, force, next, boundVars>>

----------------------------------------------------------------------------
(* The world around *)

\* the container stops: it is killed, or a command of the script fails
Stop ==
    /\ pc # "down"
    /\ crashes < MaxCrashes
    /\ crashes' = crashes + 1
    /\ pc' = "down"
    /\ UNCHANGED <<envVars, settings, diskVars, force, next, changes>>

ChangeSettings ==
    /\ pc = "down"
    /\ changes < MaxChanges
    /\ changes' = changes + 1
    /\ settings' \in Versions \ {settings}
    /\ Revert \/ settings' > settings
    /\ UNCHANGED <<envVars, diskVars, force, pc, next, crashes>>

Serve == pc = "up" /\ UNCHANGED horizonVars

Next ==
    \/ Start
    \/ AsItShouldBe \/ BeginCopy \/ EndCopy \/ Disable
    \/ Check \/ CollectStatic \/ Compress \/ TruncateHash \/ WriteHash
    \/ Stop \/ ChangeSettings \/ Serve

Spec == Init /\ [][Next]_horizonVars

----------------------------------------------------------------------------
(* Properties *)

TypeOK ==
    /\ enable \subseteq Plugins /\ shipped \subseteq Plugins
    /\ force_env \in BOOLEAN /\ force \in BOOLEAN
    /\ settings \in Versions
    /\ enabled \in [Plugins -> {Absent, Partial, Whole}]
    /\ static \in [settings : Versions, enabled : [Plugins -> {Absent, Partial, Whole}]]
                  \cup {<<>>}
    /\ hash \in Versions \cup {NoHash, EmptyHash}
    /\ pc \in {"down", "plugins", "copy", "collect", "compress", "checksum", "md5sum", "up"}
    /\ next \in 1..(LastPlugin + 1)
    /\ changes \in 0..MaxChanges /\ crashes \in 0..MaxCrashes

AsEnabled(p) == p \in shipped => (enabled[p] # Absent <=> p \in enable)

(***************************************************************************)
(* A dashboard that is served was generated from the present settings and  *)
(* the present plugins (extend_start.sh:109, "Regenerate the compressed    *)
(* javascript and css if any configuration files have changed"), wherever  *)
(* earlier starts were cut off.                                            *)
(***************************************************************************)
CompressedIsCurrent ==
    pc = "up" => static = [settings |-> settings, enabled |-> enabled]

(***************************************************************************)
(* A dashboard that is served has the plugins that the environment enables *)
(* and no other (extend_start.sh:33-42), of those whose file exists.       *)
(***************************************************************************)
PluginsAsEnabled == pc = "up" => \A p \in Plugins : AsEnabled(p)

(***************************************************************************)
(* Once the checksum matches, restarts generate nothing until the settings *)
(* change, unless the environment asks for it (extend_start.sh:122): none  *)
(* of them finds a plugin to copy or to remove any more.                   *)
(***************************************************************************)
GeneratedOnce == [][hash = settings /\ ~force_env => static' = static]_horizonVars

(***************************************************************************)
(* The inductive invariant.  Whatever the settings do: a checksum is       *)
(* written only once all plugins are as they should be, so only the        *)
(* environment forces anything after that; and something is generated only *)
(* while the checksum does not match, or by force of the environment.      *)
(***************************************************************************)
Generating == pc \in {"collect", "compress", "checksum", "md5sum"}

Current == static = [settings |-> settings, enabled |-> enabled]

StartInv ==
    /\ TypeOK
    /\ hash # NoHash => \A p \in Plugins : AsEnabled(p)
    /\ Generating \/ pc = "up" => \A p \in Plugins : AsEnabled(p)
    /\ pc \in {"plugins", "copy"} => \A p \in Plugins : p < next => AsEnabled(p)
    /\ pc = "copy" => next \in enable /\ hash = NoHash
    /\ pc = "plugins" /\ hash # NoHash => force = force_env
    /\ pc \in {"plugins", "copy"} => (force_env => force)
    /\ pc \in {"checksum", "md5sum"} => Current
    /\ pc = "md5sum" => hash = EmptyHash
    /\ Generating => hash # settings \/ force_env

(***************************************************************************)
(* When settings do not come back: a checksum is at most as new as the     *)
(* settings, and while it matches, what was generated is current or is     *)
(* about to be generated again by force.                                   *)
(***************************************************************************)
HorizonInv ==
    /\ StartInv
    /\ hash \in Versions => hash <= settings
    /\ hash = settings /\ ~force_env => Current
    /\ CompressedIsCurrent

(***************************************************************************)
(* When no start is cut off between `collectstatic --clear' and the        *)
(* checksum: what is there was generated from what the checksum stands     *)
(* for.                                                                    *)
(***************************************************************************)
KeptInv ==
    /\ StartInv
    /\ hash \in Versions /\ pc \notin {"compress", "checksum"} =>
          static = [settings |-> hash, enabled |-> enabled]
    /\ CompressedIsCurrent

\* two restrictions of a behaviour, under each of which CompressedIsCurrent
\* holds: the settings never go back; a start that has cleared the static
\* files goes on until their checksum is no longer that of earlier ones
NeverBack  == [][settings' >= settings]_horizonVars
NoneCutOff == [][pc' = "down" => pc \notin {"compress", "checksum"}]_horizonVars
=============================================================================
