---------------------------- MODULE AnsibleRunner ----------------------------
(***************************************************************************)
(* How a command runs a playbook (tcib/client/utils.py): in a temporary    *)
(* directory of its own, which is the current directory of the process     *)
(* meanwhile (TempDirs, Pushd), by run_ansible_playbook, which opens a     *)
(* second one for ansible-runner's artifacts.  HotFix and Update           *)
(* (tcib/client/container_image.py) do nothing else; Build runs a playbook *)
(* halfway through, see TcibShell.                                         *)
(*                                                                         *)
(* Any step may raise an exception (a full disk, a configuration           *)
(* ansible-runner refuses); the `with' blocks are left all the same.       *)
(***************************************************************************)
EXTENDS Integers, Sequences, FiniteSets

CONSTANTS
    Home,         \* the directory the process was started in
    TempNames     \* what mkdtemp chooses from

VARIABLES
    caller,   \* the command: "hotfix", "update", "build"; or "none"
    at,       \* where it is; "idle" outside of such a call
    cwd,      \* the current directory of the process
    blocks,   \* the TempDirs blocks it is in, the innermost last
    disk,     \* the temporary directories that exist, and the files in each
    kept,     \* those the log said would not be cleaned
    rc,       \* how the playbook ended
    error     \* what is being raised

runnerVars == <<caller, at, cwd, blocks, disk, kept, rc, error>>

Commands == {"build", "hotfix", "update"}

\* of Runner.run: an exception leaves no return code
NoCode == -1
ReturnCodes == {0, 2, 4}    \* success, failed, a host is unreachable

\* "nothing": no exception, "exception": one of a step, "IOError": the file
\* of --extra-config, "RuntimeError": the playbook failed
Errors == {"nothing", "exception", "IOError", "RuntimeError"}

Files == {"playbook", "env", "script", "stdout", "status", "rc"}

----------------------------------------------------------------------------
(* TempDirs *)

\* TempDirs(...) and its __enter__
Enter(cleanup, chdir) ==
    \E d \in TempNames \ DOMAIN disk :
        /\ d = CHOOSE t \in TempNames \ DOMAIN disk : TRUE
        /\ disk' = [t \in DOMAIN disk \cup {d} |-> IF t = d THEN {} ELSE disk[t]]
        /\ blocks' = Append(blocks, [dir |-> d, back |-> cwd,
                                     cleanup |-> cleanup, chdir |-> chdir])
        /\ cwd' = IF chdir THEN d ELSE cwd
        /\ UNCHANGED kept

Inner == blocks[Len(blocks)]

\* __exit__ of the innermost block
\* (mutated form: what was raised keeps the directory from being removed)
M_Leave ==
    /\ blocks' = SubSeq(blocks, 1, Len(blocks) - 1)
    /\ disk' = [t \in DOMAIN disk \
                   (IF Inner.cleanup /\ error = "nothing" THEN {Inner.dir} ELSE {}) |-> disk[t]]
    /\ kept' = IF Inner.cleanup THEN kept ELSE kept \cup {Inner.dir}
    /\ cwd' = IF Inner.chdir THEN Inner.back ELSE cwd
Leave ==
    /\ blocks' = SubSeq(blocks, 1, Len(blocks) - 1)
    /\ disk' = [t \in DOMAIN disk \ (IF Inner.cleanup THEN {Inner.dir} ELSE {}) |-> disk[t]]
    /\ kept' = IF Inner.cleanup THEN kept ELSE kept \cup {Inner.dir}
    /\ cwd' = IF Inner.chdir THEN Inner.back ELSE cwd

\* the command's own directory, `workdir' of run_ansible_playbook
WorkDir == blocks[1].dir

\* what a step writes there, in this order; a return code of 0, or none, is
\* not written
Writes ==
    [playbook |-> <<"playbook">>, prepare |-> <<"env">>, artifacts |-> <<>>,
     configure |-> <<"script">>,
     save |-> <<"stdout", "status">> \o IF rc \in {0, NoCode} THEN <<>> ELSE <<"rc">>]

\* the first n of them are written
Write(n) == disk' = [disk EXCEPT ![WorkDir] = @ \cup {Writes[at][i] : i \in 1..n}]

----------------------------------------------------------------------------
(* The commands and run_ansible_playbook *)

Init ==
    /\ caller = "none"
    /\ at = "idle"
    /\ cwd = Home
    /\ blocks = <<>>
    /\ disk = [t \in {} |-> {}]
    /\ kept = {}
    /\ rc = NoCode
    /\ error = "nothing"

\* take_action enters its TempDirs; only Update keeps the directory
Call(command) ==
    /\ at = "idle"
    /\ caller' = command
    /\ Enter(command # "update", TRUE)
    /\ rc' = NoCode
    /\ error' = "nothing"
    /\ at' = "playbook"

\* a step that only writes files of the work directory
WriteStep(from, to) ==
    /\ at = from
    /\ Write(Len(Writes[from]))
    /\ at' = to
    /\ UNCHANGED <<caller, cwd, blocks, kept, rc, error>>

WritePlaybook == WriteStep("playbook", "prepare")

\* Build looks for the file of --extra-config before it writes the playbook
NoExtraConfig ==
    /\ at = "playbook"
    /\ caller = "build"
    /\ error' = "IOError"
    /\ at' = "leave"
    /\ UNCHANGED <<caller, cwd, blocks, disk, kept, rc>>

\* env and ansible.cfg
Prepare == WriteStep("prepare", "artifacts")

EnterArtifacts ==
    /\ at = "artifacts"
    /\ Enter(TRUE, FALSE)
    /\ at' = "configure"
    /\ UNCHANGED <<caller, rc, error>>

\* the inventory, RunnerConfig, and the script to run the playbook again
Configure == WriteStep("configure", "run")

Run(code) ==
    /\ at = "run"
    /\ rc' = code
    /\ at' = "save"
    /\ UNCHANGED <<caller, cwd, blocks, disk, kept, error>>

\* the playbook is run in a `try' whose `finally' saves the output
RunRaises ==
    /\ at = "run"
    /\ error' = "exception"
    /\ at' = "save"
    /\ UNCHANGED <<caller, cwd, blocks, disk, kept, rc>>

Save == WriteStep("save", "leave")

\* an exception in a step, with part of its files written
Fail ==
    /\ at \in DOMAIN Writes
    /\ \E n \in 0..Len(Writes[at]) : Write(n)
    /\ error' = "exception"
    /\ at' = "leave"
    /\ UNCHANGED <<caller, cwd, blocks, kept, rc>>

\* the block of the artifacts is left, then the return code is looked at;
\* ignore_unreachable is never given
\* (mutated form: an unreachable host is ignored)
M_LeaveArtifacts ==
    /\ at = "leave"
    /\ Len(blocks) = 2
    /\ Leave
    /\ error' = IF error = "nothing" /\ rc \notin {0, 4} THEN "RuntimeError" ELSE error
    /\ UNCHANGED <<caller, at, rc>>
LeaveArtifacts ==
    /\ at = "leave"
    /\ Len(blocks) = 2
    /\ Leave
    /\ error' = IF error = "nothing" /\ rc # 0 THEN "RuntimeError" ELSE error
    /\ UNCHANGED <<caller, at, rc>>

\* the command's own block is left, and nothing of the call remains
Return ==
    /\ at = "leave"
    /\ Len(blocks) = 1
    /\ Leave
    /\ at' = "idle"
    /\ caller' = "none"
    /\ rc' = NoCode
    /\ error' = "nothing"

\* the steps of run_ansible_playbook
RunPlaybook ==
    \/ Prepare \/ EnterArtifacts \/ Configure
    \/ \E code \in ReturnCodes : Run(code)
    \/ RunRaises \/ Save \/ LeaveArtifacts

Next ==
    \/ \E command \in Commands : Call(command)
    \/ WritePlaybook \/ NoExtraConfig \/ RunPlaybook \/ Fail \/ Return

Spec == Init /\ [][Next]_runnerVars

----------------------------------------------------------------------------
(* Properties *)

Open == {blocks[i].dir : i \in DOMAIN blocks}

(***************************************************************************)
(* The temporary directories (utils.py:66-117) that exist are those of the *)
(* blocks the process is in and those the log said are kept; and outside   *)
(* of every block the process is back in the directory it was started in,  *)
(* whatever was raised (utils.py:46-55).                                   *)
(***************************************************************************)
NothingLeft ==
    /\ DOMAIN disk = Open \cup kept
    /\ at = "idle" => blocks = <<>> /\ cwd = Home

(***************************************************************************)
(* When a command is about to leave its directory (utils.py:517-553): it   *)
(* goes on only if the playbook ran and succeeded; and if it reports that  *)
(* the playbook failed, the output, the status, the return code and the    *)
(* script the message names are in the directory.                          *)
(***************************************************************************)
OutcomeReported ==
    at = "leave" /\ Len(blocks) = 1 =>
        /\ error = "nothing" => rc = 0
        /\ error = "RuntimeError" =>
              {"script", "stdout", "status", "rc"} \subseteq disk[WorkDir]
        /\ "rc" \in disk[WorkDir] => rc \notin {0, NoCode}
=============================================================================
