# A verification project for tcib

tcib builds the container images of an OpenStack deployment. The command
`openstack tcib container image build` reads a directory of image definitions,
generates a Containerfile for every image it needs, orders the images so that
each comes after the one it is FROM, and runs `buildah` on them in a pool of
threads. The repository also holds the commands HotFix and Update, the scripts
that run inside the images, two Ansible roles and a conversion tool.

This directory holds TLA+ modules that model the program, TLC configurations
that check them on small instances, and TLAPS proofs for every value of the
constants. `PROJECT.json` lists the runs, the source lines every definition
stands for, the hazards of the code and the theorems.

## 1. The system's parts

| Part | State | Operations | Interacts with |
|---|---|---|---|
| `Build` command (`tcib/client/container_image.py`) | `identified_images`, `image_parents`, `image_levels`, `image_paths`, attributes of the class; configs, work directory, excludes of one call | `index_images`, `find_image`, `process_images`, `rectify_excludes`, `take_action` | hands tree, excludes and work directory to `BuildahBuilder`; runs a playbook |
| `BuildahBuilder` (`tcib/builder/buildah.py`) | `deps`, `excludes`, `cont_map`; futures of a batch | `_generate_deps`, `build_all`, `_multi_build`, `_generate_container`, `build`, `push` | thread pool, `sudo buildah`, the registry |
| `HotFix`, `Update` (`container_image.py`) | temporary directory, playbook | `take_action` | Ansible runner, role `modify_container_image` |
| Ansible runner (`tcib/client/utils.py`) | current directory, `os.environ`, artifacts, a script to rerun a command | `run_ansible_playbook`, `TempDirs`, `Pushd` | ansible-runner |
| Roles | facts of the host, buildah working containers | tasks with retries and a rescue | buildah |
| `set_configs.py`, `start.sh` | copied files, `/run_command`, `/configured` | `copy_config`, `handle_permissions`, `check` | container restarts, the service |
| `uid_gid_manage.sh`, service start scripts | users, groups; `horizon`'s checksum of its settings | | container build and start |
| Test runners (`run_tempest.sh`, `run_horizontest.sh`, ...) | return value, list of failed tests, resources of the cloud | run, rerun, expected failures, retries | stestr, git, the cloud |
| `containerfile-converter.py` | the map of collected directives | `line_reader`, `package_parse`, ... | |

What is hard about them: the builder is concurrent, its jobs fail and are
retried, a timeout races with them and its input ordering rests on lists that
are shared and grow later; the Build command keeps state in a class from one
command to the next; `set_configs.py` and the start scripts are killed and
restarted in the middle; the shell scripts carry variables from one step to the
next. `hazards` in `PROJECT.json` lists each place by line.

What makes each part correct:

* **Build**: exactly the requested images and what they depend on are prepared;
  whatever is built has a Containerfile; and if it is FROM an image of the tree,
  that one is built before it.
* **BuildahBuilder**: every image is built once, after its parent; a failure,
  whenever it happens, is neither lost nor followed by images that need the
  failed one; nothing runs once the build is over; the build ends.
* **Ansible runner**: the temporary directory lives as long as something needs
  it; a failure leaves what its message promises.
* **set_configs**: after any number of crashes and restarts the service starts
  only when all required sources were found and what was listed in them is copied
  whole; COPY_ONCE copies once.
* **Start scripts and test runners**: a restart or a rerun neither loses nor
  hides what an earlier step found.
* **Converter**: no directive of the input is lost.

## 2. Modules

    OrderedBuild      abstract promise of build_all
        ^ implemented by
    BuildahBuilder    threads, retries, timeout   --EXTENDS-->  BuildahDeps
    BuildahDeps       batches of a tree           --EXTENDS-->  ImageTree
    ContainerImage    Build: the choice of images
    AnsibleRunner     temporary directories and the run of a playbook
    TcibShell         the commands of a process:
                      ContainerImage + AnsibleRunner + OrderedBuild + ImageTree
    SetConfigs        the start of a container made from such an image
    HorizonStart      what the start of the horizon container does after that
    TempestRun        what the tempest container runs

* **ImageTree** has the tree of images that `Build.build_tree` makes and
  `_generate_deps` is given: for every list its strings (`leaves`) and the keys
  of its dictionaries (`groups`), in list order. `IsTree` says what a tree is.
* **BuildahDeps** models `_generate_deps`. The variable `stack` is the Python
  call stack, `containers` the result. The actions are `DictItem` (a dictionary
  of the list in progress: its key joins a batch, its list is entered) and
  `Return`. The code keeps extending a list that is already an element of the
  result; a frame holds the index of that element (`prio`), so that the
  aliasing is in the model.
* **BuildahBuilder** models `build_all` and what it calls. The main thread is
  the variable `pc`: `loop` (between batches), `wait` (in `futures.wait`),
  `woken`, `shutdown` (leaving the `with` block), `end`. The wake-up, the
  collection of the finished jobs and the end of the pool are separate actions
  (`WaitWakes`, `WaitReturns`, `CheckJobs`) because jobs go on in between. A
  job goes from `unsubmitted` over `pending`, `building` and `pushing` to
  `finished` or `raised`. `BuildSucceeds`, `BuildFails`, `PushSucceeds` and
  `PushFails` are the ways a buildah command may end; a failed push may have
  reached the registry. An image without a Containerfile never builds.
* **OrderedBuild** states, without threads, batches or retries, what a caller
  may rely on; `BuildahBuilder` implements it under the refinement mapping
  `AbsStatus`, `AbsVerdict`.
* **ContainerImage** models the part of `Build.take_action` that chooses. A
  behaviour is a process that is given up to `MaxCommands` commands, because
  the class attributes outlive a command in an interactive `openstack` shell;
  one command is a plain command line. `Begin` is the start of a command up to
  the list of images, `ProcessImage` and `ConfigMissing` one round of
  `process_images`, `SecondPass` the walk back over `image_parents`, then the
  inventory, the playbook, the excludes and the call of the builder. The
  directory structure is a function from images to paths. What `find_image`
  records is written in closed form (`NewParents`, `NewLevels`), with the
  counter that is not reset between two files. `From` is what a Containerfile is
  FROM: `--base` for the image `base` alone; `<prefix>-<parent>` for any other
  image that lies below a configured directory; and for the rest
  `<prefix>-<base>`, which this command never builds (`Outside`). The images in
  `layout.from` get their `tcib_from` from their config, or all of them from
  `--tcib-extras`. It is taken to name an image that this command does not build:
  if it named one of the tree, nothing in the code would build that one first.
* **AnsibleRunner** models `TempDirs`, `Pushd`, `run_ansible_playbook` and the
  commands HotFix and Update, which do nothing else. `at` is where the command
  is, `blocks` the stack of `TempDirs` blocks it is in, `disk` the temporary
  directories with the files in them, `cwd` the current directory of the
  process, `error` what is being raised. `Fail` is an exception in any step that
  writes, after any part of its files. `LeaveArtifacts` and `Return` are the
  ends of the two blocks, which run whatever is raised.
* **TcibShell** puts a process together. `BeginBuild` and `Choose` are steps of
  `ContainerImage`; `CallPlaybook` enters the runner, and when it returns
  (`PlaybookDone`, `PlaybookFailed`) Build goes on or ends with what the runner
  raised. `HandOver` makes a `BuildahBuilder` from the tree of all directories
  (`TreeParent`; `IsBuildTree` is the whole of it, with the lists) and the excludes, `BuildStep` and `Decide` are steps of
  `OrderedBuild`, which `BuildahBuilder` is shown to implement. `--extra-config`
  is looked for in the current directory (`ExtraConfigFound`), which the runner
  has changed. Hotfix and update may come before, between and after builds.
* **SetConfigs** models `set_configs.py` and `start.sh`. A behaviour is the life
  of one container: `pc` is `down` until it is started, goes through the copies
  of `copy_config` (`copy`: between two entries, `found`: glob has found the
  source, `files`: it is listed, `props`: a file is copied and waits for its
  owner and mode), `write` and `mark`, returns to the `shell` of `start.sh` and
  ends in `running`. Every system call that a crash can separate from the next is
  an action of its own: the source is found (`FindSource`), the destination is
  deleted file by file (`DeleteOld`), the source is listed (`ListSource`), a file
  is deleted and opened (`OpenFile`), then whole (`FinishFile`), then has its
  properties (`SetProps`); `/run_command` is truncated, then written.
  `Crash` throws away what the process knew and keeps the disk (`dst`, `props`,
  `run_command`, `configured`). `ChangeSource` changes a mounted source between
  any two steps: it may appear (`mounted`), vanish, change, or be emptied, so
  what glob found may be gone when it is listed (`SourceVanished`), and what
  `os.listdir` returned (`todo`) when it is copied (`FileVanished`). `found`,
  `listed` and `seen` are history variables: which sources the last copying start
  found, what it listed there and what it read.
* **HorizonStart** models horizon's `extend_start.sh`. A behaviour is again the
  life of one container: its environment (`enable`, `shipped`, `force_env`) is
  fixed, its disk (`enabled`, `static`, `hash`) survives `Stop`, the shell
  variable FORCE_GENERATE (`force`) does not. `config_dashboard` is
  `AsItShouldBe`, `BeginCopy` and `EndCopy`, or `Disable`, for one plugin after
  the other; then `Check`, and, if something changed, `CollectStatic`,
  `Compress` and the two steps of `> $HASH_PATH`. `static` records what was
  generated from what. `ChangeSettings` happens between two starts, where
  `kolla_set_configs` copies the settings; `Revert` says whether earlier
  settings may come back.
* **TempestRun** models `run_tempest.sh`: three attempts at each download
  (`Fetched`, `FetchFails`), an uploaded image that never becomes active
  (`NeverActive`), the configuration (`Discover`), `RunTests`, the list of
  failed tests (`GenerateTestResults`), `Rerun` and `CheckExpectedFailures`.
  `runs` is what stestr has recorded; a run of tempest may end without
  recording anything, and the list of failures is then that of the run before.
* **MCBuildahDeps**, **MCBuildahBuilder**, **MCTcibShell**, **MCSetConfigs**
  define the instances for TLC; the others take theirs from the .cfg.
* **BuildahDepsProofs**, **BuildahBuilderProofs**, **ContainerImageProofs**,
  **AnsibleRunnerProofs**, **TcibShellProofs**, **SetConfigsProofs**,
  **HorizonStartProofs**, **TempestRunProofs** hold the theorems.

Definitions named `M_...` are mutated forms of the definition that follows
them, the way a plausible bug would change it; the mutants in `PROJECT.json`
put them in its place, and the property named there is then violated.

## 3. Runs

| Run | Question | Bounds |
|---|---|---|
| `deps` | Do the batches hold each image once, after its parent, and does the recursion end? | all ordered trees of 5 images |
| `builder` | Do the main thread, workers, failures and timer keep the safety properties, is this `OrderedBuild`, can the threads never wait for each other (`NeverStuck`), does every step use something up (`EveryStepCounts`), and does the build end (fairness as below)? | all trees of 3 images, 2 attempts each, at most one image excluded and one without a Containerfile, with and without push |
| `shell` | Are the right images prepared and built, each after what it is FROM, with other commands of the process before, and is nothing left behind when a step raises? | all layouts of 3 directories (`base`, `redis`, `valkey`), at most one without a config or with an empty one, or one, or all, with a `tcib_from`, all config files, some excludes, both releases, for the first build; 2 commands, the second over 8 layouts; 3 temporary directories |
| `set_configs` | Does a service run only when every required source was found and what was listed there is copied whole, does COPY_ONCE copy once, and does the service come up once crashes and changes end (fairness as below)? | 8 lists of at most 2 entries, of 2 files in 2 versions each; 2 crashes, 1 change of the sources |
| `horizon` | Is the dashboard that is served made of the present settings and plugins, wherever earlier starts were cut off, and made only when needed? | 2 plugins, every environment, 3 versions of the settings that do not come back, 3 stops |
| `tempest` | Does the script succeed only after a run whose failures were all expected, whatever fails on the way? | 3 tests, 2 downloads, every setting, a list of failures left from before |
| `timeout`, `job_failure`, `stale_parents`, `valkey`, `check_dir`, `horizon_revert` | Does the code do what its comments, messages and help say? It does not; see section 6 | as above |

The bounds are enough for the interesting cases to happen. Five images hold a
batch that grows after a later one was appended and then serves as parent of
another. With three images a batch can have two jobs while a third image waits
for one of them; with two attempts a job can fail and recover as well as fail
for good. The number of workers is at least two whatever the machine has, so
`WorkerCount = 1` is enough for two jobs at a time. Three directories hold a
chain, siblings, and a configured image above and below one without a config,
with `base` at the top, at the bottom or beside the others, so that all three
cases of what an image is FROM occur;
the second command of a process may have another configuration directory.
Three temporary directories are the two blocks of a command and what an update
before it kept. Three tests are an expected failure and two others, so the second
run can fail with another set than the first; of two downloads the second can
fail after attempts of the first.
With two crashes a start meets what a killed restart left of what a killed
start left; two files and one change let a source vanish, change or be emptied
behind glob or behind `os.listdir`, and leave a file at the destination that its
source has no more.
For horizon, three stops and two changes let a generation be cut off after a
complete one and again after the next; two plugins let a start be cut off
between them.

`CHECK_DEADLOCK FALSE` appears only for `deps`, where the recursion ends and
nothing follows. The builder and the command have an explicit idle step, as have
the running containers.

## 4. Fairness

`FairSpec` assumes that Python schedules its threads (`Scheduling`: the main
thread and a worker that can take a job are not passed over for ever) and that
a buildah command returns (`CommandsReturn`). The second is an assumption about
an external program; the code has no timeout for a single command. `HangSpec`
drops it, and run `timeout` shows what is lost. `DepsSpec` has weak fairness of
its single thread. `FairSpec` of `SetConfigs` assumes that the start script is
scheduled and that a dead container is started again, which is the container
manager's restart policy; crashes and changes of the sources are bounded and
have no fairness, and `ServiceStarts` promises nothing unless the configuration
is one that can be applied (`Startable`). The runs that check
only safety assume no fairness; the safety properties of the others do not
depend on it.

## 5. What is proved

The proofs use only the named assumptions of the modules: `RootAssumption`,
`TreesAssumption` (every input is a tree), `InputsAssumption`,
`BoundsAssumption`; `NamesAssumption` (the base image and `Outside` differ and are not among the
images),
`RequestsAssumption` (every request is one, `IsRequest`), `CommandsAssumption`,
`RepeatedAssumption`, `HomeAssumption` (the process is not started in a directory
that has the name of a temporary one); for `SetConfigs` `FilesAssumption` (a
source has finitely many files), `ValuesAssumption` (versions are positive
numbers), `ConfigsAssumption` (a configuration is a sequence of entries) and
`CfgBoundsAssumption`; for `HorizonStart` `HorizonAssumption`. `AnsibleRunner`
and `TempestRun` need none.

* `BuildahDepsProofs`: `DepsInvariance` shows `DepsInv` inductive.
  `ParentPlacedEarlier` and `PlacedOnce` are not inductive alone: that a key
  joins a batch after the batch of its own parent needs to know, for every
  frame of the stack, that the node of the frame is placed in a batch before
  `prio` (`FrameNode`), and that what the frame has still to visit is not
  placed (`FrameTodo`); that nothing is lost at the end needs `NothingLost`.
  `DepsCompleteness` uses the last clause of `IsTree`: what is placed, with the
  root, is closed under `Below`, so it is everything. `RecursionCounts` shows
  that every step lowers `DepsLeft` of some node and raises it of none: a node
  is either still to be entered, on the stack, or done with. `ParentsPlacedEarlier`,
  `ImagesPlacedOnce` and `BatchesNotEmpty` state the parts of `DepsInv`.
* `BuildahBuilderProofs`: `BuildInvariance` shows `BuildInv`, which says how
  batches, the main thread's `pc` and the state of each job go together. The
  safety properties `ParentAvailable`, `SuccessMeansAllBuilt`,
  `NoJobLeftBehind`, `EarlierBatchesFinished` (`Failures`), `RegistryClosed` and
  the action property `NoRebuild` (`JobsRunOnce`) follow from it.
  `FailuresRaiseRuntimeError` says what the code does where the comment of
  `job_failure` promises SystemError: a failed job makes `build_all` raise
  RuntimeError, unless the timer of the batch has expired. `Refinement` shows that every step maps to a
  step of `OrderedBuild` or to a stuttering step. `SomeThreadGoesOn` shows
  `NeverStuck`: when the main thread waits at the end of the pool and no job
  runs, the first pending job of the batch is one a worker takes, because the
  pool has one and the jobs before it are over (`LeastIndex`). `StepsCount`
  shows `EveryStepCounts`, one lemma per action: what is left to do about an
  image, `Left`, counts what the recursion, the workers with their attempts and
  the main thread with its batch have still to do, and `LeftBounded` bounds it by
  the attempts alone. These are the two halves of `Termination` that need no
  fairness: some thread can always go on, and not for ever.
* `SetConfigsProofs`: `CfgInvariance` shows `CfgInv`. `RunsComplete` is not
  inductive: that the entry just finished is complete needs to know, while it is
  copied, that its source was found, that each file that was listed is there or
  still in `todo`, and that nothing else is there unless merging
  (`CurrentEntry`); that the sources of entries to come were not looked at yet
  (`Untouched`); and that `/configured` does not exist during a copying start. `StartIsComplete`,
  `ConfiguredStaysComplete` and the action property `CopiesOnce` follow.
  `StartSucceeds` is the part of `ServiceStarts` that needs no fairness: while a
  start is undisturbed, that is, its configuration can be applied and the source
  that glob found, and then the files `os.listdir` returned, are there, none of its failing steps is possible and each
  step lowers `StepsLeft`, which counts the files to delete and to copy, whatever a
  killed start left; only a change of the sources disturbs a start. `StartIsBounded` bounds `StepsLeft`.
* `HorizonStartProofs`: the invariant is in two parts. `StartInv` holds of every
  behaviour (`StartInvariance`), also when settings come back: a checksum is at
  most as new as the settings were, and exists only once every plugin is as it
  should be, so that a plugin is never changed under a checksum that matches.
  `ServedPlugins` and `GeneratesOnce` follow from it. `CompressedIsCurrent` needs
  more, `HorizonInv`: the checksum does not match while the generation goes on,
  unless FORCE_GENERATE comes from the environment and the next start is forced
  as well. That part is preserved only by steps that do not bring settings back.
  `CurrentIfNeverBack` states it so; `HorizonInvariance` and `ServedIsCurrent`
  are the case `~Revert`, in which no step does. In general the property is
  false, see `horizon_revert`. `CurrentIfNoneCutOff` says that what that run
  shows is the only way: if no start ends between `collectstatic --clear` and
  the new checksum, the property holds whatever the settings do (`KeptInv`).
* `ContainerImageProofs`: the invariant `ImgInv` says what the command has
  recorded of the images it processed (`Recorded`), what is processed or still
  in `todo` (`Covered`), and that a first command finds nothing recorded
  (`FirstCommand`). That one pass over the parents is enough rests on
  `NearestOfChain`: every configured directory above an image is the nearest one
  of some image between them, so the first pass has recorded it as a parent. The
  `FromImagesBuilt` then says for every layout which of the three an image is FROM
  (`FromFacts`), and that what it is FROM is built if it is of the tree. The
  nearest one exists because a set of numbers has a least member, which is a
  well-founded relation's (`Least`, `Greatest`). `LevelFacts` counts the
  directories between an image and one above it. `FirstCommandExcludesTheRest`
  and `ValkeyIfRedisIntended` say where two comments about the excludes are
  true although the runs `stale_parents` and `valkey` refute them in general:
  for the first command of a process where every directory has a config, and
  for every command that builds redis, too.
* `AnsibleRunnerProofs`: `RunnerInv` says which blocks each place of a command
  has open and what is written, returned and raised there. That leaving a block
  gives back the directory the process was started in needs to know that the
  inner block, of the artifacts, never changed it; that a reported failure has
  its files on disk needs to follow them from the step that writes each.
* `TcibShellProofs`: `ShellChoosesImages` and `ShellRunsPlaybooks` show that a
  process implements `ContainerImage` and `AnsibleRunner`, so their theorems
  hold of it (`ShellChoosesWell`, `ShellLeavesNothing`, `ShellReports`).
  `Ordered` adds what the builder does: no image is looked at before all
  directories above it are settled, and only excluded ones are skipped. Since
  what an intended image is FROM, if it is of the tree, is one of those and not
  excluded unless on purpose,
  `ShellBuildsFromFirst` and `ShellBuildsAllIntended` follow. `BuildTreeIsTree`
  shows that what `build_tree` makes of any directories is a tree, so that
  `TreesAssumption`, from which everything about the builder is proved, is what
  the command provides: a set with the root in it that is closed under `Below`
  has no least deep directory outside. `BuildTreeExists` shows that there is such
  a tree. `ExtraConfigNeedsFullPath` is about `--extra-config`, see section 6: a
  build that was given a relative path never reaches its playbook, and no other
  build raises IOError for a file that exists.
* `TempestRunProofs`: `Earned` says that a return value of 0 is owed, at each
  place of the script, to a last run without a failure.

Only model-checked: the liveness properties `DepsReturns`, `Termination` and
`ServiceStarts`, which are beyond the prover; what they rest on without fairness
is proved (`RecursionCounts`, `SomeThreadGoesOn` and `StepsCount`,
`StartSucceeds`). That something of `Left` is used up in every step is proved
node by node; that the sum over all nodes falls, and hence the number of steps
is bounded, is an induction over the finite set of nodes that is left to the
reader. Every other property of a run that
passes is the statement, or a part of the statement, of a theorem.

## 6. Where the code and its comments disagree

* `--build-timeout` does not end a build whose command hangs (`timeout`).
* A failed job raises RuntimeError, although the NOTE at `buildah.py:347-351`
  says that any failed job raises SystemError (`job_failure`). The handler around
  `build_all` in `take_action` catches SystemError only, which is what jobs that
  were not done at the timeout make.
* In an interactive shell a second command also builds the parents of what the
  first one built (`stale_parents`). With another configuration directory such
  an image may be FROM one the second command does not build, which is why
  `FromIsBuilt` and `FromBuiltFirst` speak of the intended images.
* With release 10, excluding redis excludes valkey as well (`valkey`).
* `kolla_set_configs --check` fails for every directory, changed or not: the
  arguments of `relpath` in `_cmp_dir` are swapped, and `check` opens the
  directory as a file afterwards (`check_dir`).
* When a start of horizon fails while it generates, and the settings are taken
  back to those before, the checksum of the last generation matches again, and
  the dashboard is served with the static files deleted (`horizon_revert`). The
  comment promises a generation whenever a configuration file has changed.

Without a run of its own: a relative path given to `--extra-config` is looked
for in the temporary directory (`utils.py:105`), so an existing file is said not
to exist (`container_image.py:707-711`); `ExtraConfigMissing` is what the message
says, and `ExtraConfigNeedsFullPath` proves when it is wrong. An image at the top
of the tree that is not `base` is FROM `<prefix>-<base>`, which nothing builds
(`FromIsBuilt` states it). A required source that is a directory and empty, also
one emptied between glob and `os.listdir`, is found: its destination is deleted
and the service starts with nothing of it. `MissingRequiredSource` is raised only
for a source that does not exist, so `RunsComplete` and `ConfiguredIsComplete`
speak of what one listing of the source returned, not of a source that has
something in it.

Noticed while modelling: the script that the message of a failed playbook names
(`utils.py:542`) is in the directory that Build and HotFix remove right after;
a second run of tempest that passes counts only with
TEMPEST_RERUN_OVERRIDE_STATUS, but when it is not set and all that still fails
is expected, the script succeeds although the first run's failures were not.

## 7. What is not modelled

In the modelled parts: the command lines of buildah, wording and logs, the
content of image configs and templates, `imagename_to_regex`, the exact
delays between attempts, REGISTRY_AUTH_FILE. Directory names are taken to be
unique, the base image to be the same for all commands of a process. The work
directory is found again by the builder: with a relative `--work-dir`, the
playbook writes the Containerfiles from inside the temporary directory.
In `AnsibleRunner` `rmtree` succeeds and a directory's name is new; the options
of `run_ansible_playbook` that no command gives (a timeout, several playbooks,
reproduction by hand) and the environment of Ansible are left out.
In `TempestRun` the debug mode, the cleanup of what a test leaves in the cloud
and the copies of logs are left out.
In `SetConfigs` an entry has one source and a destination of its own; the list
`permissions`, the validation of `config.json`, wildcards, directories below a
source directory, symbolic links, `kolla_copy_cacerts` and `kolla_extend_start`
are left out. `Complete` speaks of what the last copying start read; what an earlier
copy left of an optional source that is gone, or beside a merged one, is not
covered, because the code promises nothing about it.
In `HorizonStart` the settings do not change during a start, as they could if
they were mounted in place; KOLLA_BOOTSTRAP, the link to the custom settings,
the owner of the secret key and `kolla_httpd_setup` are left out. A plugin file
whose copy was cut off counts as there, as it does for the script.
`ContainerImage` has layouts with several YAML files in a directory, and with
directories that only group others; the runs use the second, the repository has
neither. `SortedByDepth` says nothing of several files in a directory, where the
levels need not be depths. `FailsForCause` speaks of the first command of a
process: a later one may fail over what an earlier one recorded. `OutcomeReported`
looks at the directory when the message about a failed playbook is made; of the
three commands only Update keeps it afterwards. A `tcib_from` that names an image
of the same tree is left out, see section 2.
The forms of `deps` other than a list are not modelled: the program passes a
list.

Whole parts without a module: the roles, whose tasks are Ansible's to execute
(`AnsibleRunner` has their outcome); `uid_gid_manage.sh`, `httpd_setup.sh` and
the short start scripts, which set each variable before they use it and run once
or are repeated whole; `containerfile-converter.py`, a sequential conversion of
text whose results are wording and layout; the other test runners, which are
shorter forms of `run_tempest.sh`; the plugin hooks and the data files, which
have no behaviour of their own.

## 8. What is left

1. **TcibShell** with `BuildahBuilder` in place of `OrderedBuild`, for the
   properties of the registry; the refinement proved makes it a matter of
   instances, which are large.
2. A relative `--work-dir`, once it is settled which directory Ansible resolves
   it against.
3. `SetConfigs`: the list `permissions` and directories below a source
   directory.
4. **HorizonTestRun**: the resources of the cloud that a run creates, and
   removes also when it fails.
