------------------------- MODULE AnsibleRunnerProofs -------------------------
(***************************************************************************)
(* The temporary directories and the outcome of a playbook: NothingLeft    *)
(* and OutcomeReported hold for any set of names and any number of calls.  *)
(***************************************************************************)
EXTENDS AnsibleRunner, SequenceTheorems, TLAPS

Places == {"idle", "playbook", "prepare", "artifacts", "configure", "run", "save", "leave"}
Dirs == TempNames \cup {Home}
Blocks == [dir : TempNames, back : Dirs, cleanup : BOOLEAN, chdir : BOOLEAN]

RunnerTypeOK ==
    /\ caller \in Commands \cup {"none"}
    /\ at \in Places
    /\ cwd \in Dirs
    /\ blocks \in Seq(Blocks)
    /\ disk = [t \in DOMAIN disk |-> disk[t]]
    /\ DOMAIN disk \subseteq TempNames
    /\ \A t \in DOMAIN disk : disk[t] \subseteq Files
    /\ kept \subseteq TempNames
    /\ rc \in ReturnCodes \cup {NoCode}
    /\ error \in Errors

\* Each place has its blocks; the first changed the directory, the second,
\* of the artifacts, did not; each has a directory of its own.
BlocksOK ==
    /\ at = "idle" => blocks = <<>> /\ cwd = Home
    /\ at \in {"playbook", "prepare", "artifacts"} => Len(blocks) = 1
    /\ at = "playbook" => cwd \in TempNames
    /\ at \in {"configure", "run", "save"} => Len(blocks) = 2
    /\ at = "leave" => Len(blocks) \in {1, 2}
    /\ Len(blocks) > 0 => blocks[1].chdir /\ blocks[1].back = Home
    /\ Len(blocks) = 2 =>
          /\ blocks[2].cleanup /\ ~blocks[2].chdir
          /\ blocks[2].dir # blocks[1].dir
    /\ DOMAIN disk = Open \cup kept
    /\ Open \cap kept = {}

\* What was written, returned and raised so far.
OutcomeOK ==
    /\ at \in {"playbook", "prepare", "artifacts", "configure", "run"} =>
          rc = NoCode /\ error = "nothing"
    /\ at = "save" => error \in {"nothing", "exception"} /\ (rc = NoCode <=> error # "nothing")
    /\ at \in {"run", "save"} => "script" \in disk[WorkDir]
    /\ at # "idle" /\ "rc" \in disk[WorkDir] => at = "leave" /\ rc \notin {0, NoCode}
    /\ at = "leave" /\ Len(blocks) = 2 =>
          /\ error # "RuntimeError"
          /\ error = "nothing" =>
                /\ rc \in ReturnCodes
                /\ {"script", "stdout", "status"} \subseteq disk[WorkDir]
                /\ rc # 0 => "rc" \in disk[WorkDir]
    /\ OutcomeReported

RunnerInv == RunnerTypeOK /\ BlocksOK /\ OutcomeOK

----------------------------------------------------------------------------
(* What entering and leaving a block, and writing a file, do *)

LEMMA EnterFacts ==
    ASSUME RunnerTypeOK, BlocksOK, NEW cleanup \in BOOLEAN, NEW chdir \in BOOLEAN,
           Enter(cleanup, chdir)
    PROVE  \E d \in TempNames :
              /\ d \notin DOMAIN disk /\ DOMAIN disk' = DOMAIN disk \cup {d}
              /\ disk' = [t \in DOMAIN disk' |-> disk'[t]]
              /\ disk'[d] = {} /\ \A t \in DOMAIN disk : disk'[t] = disk[t]
              /\ blocks' \in Seq(Blocks) /\ Len(blocks') = Len(blocks) + 1
              /\ \A i \in 1..Len(blocks) : blocks'[i] = blocks[i]
              /\ blocks'[Len(blocks) + 1] = [dir |-> d, back |-> cwd,
                                             cleanup |-> cleanup, chdir |-> chdir]
              /\ Open' = Open \cup {d}
              /\ cwd' = (IF chdir THEN d ELSE cwd) /\ cwd' \in Dirs /\ kept' = kept
<1>1. PICK d \in TempNames \ DOMAIN disk :
        /\ disk' = [t \in DOMAIN disk \cup {d} |-> IF t = d THEN {} ELSE disk[t]]
        /\ blocks' = Append(blocks, [dir |-> d, back |-> cwd,
                                     cleanup |-> cleanup, chdir |-> chdir])
        /\ cwd' = IF chdir THEN d ELSE cwd
        /\ kept' = kept
  BY DEF Enter
<1> DEFINE new == [dir |-> d, back |-> cwd, cleanup |-> cleanup, chdir |-> chdir]
<1>2. new \in Blocks /\ blocks \in Seq(Blocks) /\ cwd \in Dirs
  BY DEF RunnerTypeOK, Blocks, Dirs
<1>3. new.dir = d
  OBVIOUS
<1> HIDE DEF new
<1>4. /\ blocks' \in Seq(Blocks) /\ Len(blocks') = Len(blocks) + 1
      /\ \A i \in 1..Len(blocks) : blocks'[i] = blocks[i]
      /\ blocks'[Len(blocks) + 1] = new
  BY <1>1, <1>2 DEF new
<1>5. Open' = Open \cup {d}
  <2>1. DOMAIN blocks = 1..Len(blocks) /\ DOMAIN blocks' = 1..(Len(blocks) + 1)
        /\ Len(blocks) \in Nat
    BY <1>2, <1>4
  <2>2. \A i \in 1..(Len(blocks) + 1) : i \in 1..Len(blocks) \/ i = Len(blocks) + 1
    BY <2>1
  <2> QED BY <1>3, <1>4, <2>1, <2>2 DEF Open
<1>6. /\ DOMAIN disk' = DOMAIN disk \cup {d}
      /\ disk' = [t \in DOMAIN disk' |-> disk'[t]]
      /\ disk'[d] = {} /\ \A t \in DOMAIN disk : disk'[t] = disk[t]
  BY <1>1
<1>7. cwd' \in Dirs
  BY <1>1, <1>2 DEF Dirs
<1> QED BY <1>1, <1>4, <1>5, <1>6, <1>7 DEF new

LEMMA InnerFacts ==
    ASSUME RunnerTypeOK, BlocksOK, Len(blocks) \in {1, 2}
    PROVE  /\ Inner = blocks[Len(blocks)] /\ Inner \in Blocks /\ blocks[1] \in Blocks
           /\ Inner.dir \in Open /\ WorkDir \in Open
           /\ Open = {Inner.dir, WorkDir}
           /\ WorkDir \in DOMAIN disk
           /\ Len(blocks) = 2 => Inner.dir # WorkDir
<1>1. blocks \in Seq(Blocks) /\ DOMAIN blocks = 1..Len(blocks)
  BY DEF RunnerTypeOK
<1>2. CASE Len(blocks) = 1
  BY <1>1, <1>2 DEF Inner, Open, WorkDir, BlocksOK
<1>3. CASE Len(blocks) = 2
  <2>1. 1..2 = {1, 2}
    OBVIOUS
  <2>2. Open = {blocks[1].dir, blocks[2].dir}
    BY <1>1, <1>3, <2>1 DEF Open
  <2> QED BY <1>1, <1>3, <2>2 DEF Inner, WorkDir, BlocksOK
<1> QED BY <1>2, <1>3

LEMMA LeaveSets ==
    ASSUME NEW open, NEW left, NEW x \in open, open \cap left = {}
    PROVE  /\ (open \cup left) \ {x} = (open \ {x}) \cup left
           /\ (open \ {x}) \cap left = {}
           /\ open \cup left = (open \ {x}) \cup (left \cup {x})
           /\ (open \ {x}) \cap (left \cup {x}) = {}
  OBVIOUS

LEMMA LeaveFacts ==
    ASSUME RunnerTypeOK, BlocksOK, Len(blocks) \in {1, 2}, Leave
    PROVE  /\ blocks' \in Seq(Blocks) /\ Len(blocks') = Len(blocks) - 1
           /\ Len(blocks) = 2 => blocks'[1] = blocks[1]
           /\ Len(blocks) = 1 => blocks' = <<>> /\ Open' = {} /\ cwd' = Home
           /\ Len(blocks) = 2 => Open' = {WorkDir} /\ WorkDir' = WorkDir
           /\ disk' = [t \in DOMAIN disk' |-> disk'[t]]
           /\ DOMAIN disk' \subseteq DOMAIN disk
           /\ \A t \in DOMAIN disk' : disk'[t] = disk[t]
           /\ DOMAIN disk' = Open' \cup kept' /\ Open' \cap kept' = {}
           /\ cwd' \in Dirs /\ kept' \subseteq TempNames
<1>1. /\ Inner = blocks[Len(blocks)] /\ Inner \in Blocks /\ blocks \in Seq(Blocks)
      /\ Open = {Inner.dir, WorkDir}
      /\ Len(blocks) = 2 => Inner.dir # WorkDir
  BY InnerFacts DEF RunnerTypeOK
<1>2. /\ blocks' \in Seq(Blocks) /\ Len(blocks') = Len(blocks) - 1
      /\ \A i \in 1..(Len(blocks) - 1) : blocks'[i] = blocks[i]
  <2>1. 1 \in Int /\ Len(blocks) - 1 \in Int /\ blocks' = SubSeq(blocks, 1, Len(blocks) - 1)
        /\ \A i \in 1..(Len(blocks) - 1) : blocks[i] \in Blocks
    BY <1>1 DEF Leave
  <2>2. /\ SubSeq(blocks, 1, Len(blocks) - 1) \in Seq(Blocks)
        /\ Len(SubSeq(blocks, 1, Len(blocks) - 1)) =
              IF 1 <= Len(blocks) - 1 THEN Len(blocks) - 1 - 1 + 1 ELSE 0
        /\ \A i \in 1..(Len(blocks) - 1 - 1 + 1) :
              SubSeq(blocks, 1, Len(blocks) - 1)[i] = blocks[1 + i - 1]
    BY <2>1, SubSeqProperties
  <2>3. CASE Len(blocks) = 1
    BY <2>1, <2>2, <2>3
  <2>4. CASE Len(blocks) = 2
    BY <2>1, <2>2, <2>4
  <2> QED BY <2>3, <2>4
<1>3. Len(blocks) = 2 => blocks'[1] = blocks[1] /\ WorkDir' = WorkDir
  BY <1>2 DEF WorkDir
<1>4. Len(blocks) = 1 => blocks' = <<>> /\ Open' = {}
  <2>1. ASSUME Len(blocks) = 1 PROVE Len(blocks') = 0 /\ blocks' = <<>>
    BY <1>2, <2>1
  <2> QED BY <2>1 DEF Open
<1>5. Len(blocks) = 2 => Open' = {WorkDir}
  BY <1>2, <1>3 DEF Open, WorkDir
<1>6. DOMAIN disk' = DOMAIN disk \ (IF Inner.cleanup THEN {Inner.dir} ELSE {})
      /\ (\A t \in DOMAIN disk' : disk'[t] = disk[t])
      /\ disk' = [t \in DOMAIN disk' |-> disk'[t]]
  BY DEF Leave
<1>7. kept' = IF Inner.cleanup THEN kept ELSE kept \cup {Inner.dir}
  BY DEF Leave
<1>8. DOMAIN disk = Open \cup kept /\ Open \cap kept = {} /\ kept \subseteq TempNames
  BY DEF BlocksOK, RunnerTypeOK
<1>9. Inner.cleanup \in BOOLEAN /\ Inner.dir \in TempNames
  BY <1>1 DEF Blocks
<1>10. Open' = Open \ {Inner.dir}
  <2>1. CASE Len(blocks) = 1
    <3>1. Inner.dir = WorkDir
      BY <1>1, <2>1 DEF WorkDir
    <3> QED BY <1>1, <1>4, <2>1, <3>1
  <2>2. CASE Len(blocks) = 2
    <3>1. Open' = {WorkDir} /\ Inner.dir # WorkDir /\ Open = {Inner.dir, WorkDir}
      BY <1>1, <1>5, <2>2
    <3> QED BY <3>1
  <2> QED BY <2>1, <2>2
<1>11. DOMAIN disk' = Open' \cup kept' /\ Open' \cap kept' = {}
  <2>1. Inner.dir \in Open
    BY <1>1
  <2>2. CASE Inner.cleanup
    <3>1. DOMAIN disk' = (Open \cup kept) \ {Inner.dir} /\ kept' = kept
      BY <1>6, <1>7, <1>8, <2>2
    <3> QED BY <1>8, <1>10, <2>1, <3>1, LeaveSets
  <2>3. CASE ~Inner.cleanup
    <3>1. DOMAIN disk' = Open \cup kept /\ kept' = kept \cup {Inner.dir}
      BY <1>6, <1>7, <1>8, <2>3
    <3> QED BY <1>8, <1>10, <2>1, <3>1, LeaveSets
  <2> QED BY <2>2, <2>3
<1>12. kept' \subseteq TempNames
  BY <1>7, <1>8, <1>9
<1>13. cwd' \in Dirs /\ (Len(blocks) = 1 => cwd' = Home)
  <2>1. cwd' = IF Inner.chdir THEN Inner.back ELSE cwd
    BY DEF Leave
  <2>2. Inner.back \in Dirs /\ cwd \in Dirs
    BY <1>1 DEF RunnerTypeOK, Blocks
  <2>3. Len(blocks) = 1 => Inner.chdir /\ Inner.back = Home
    BY <1>1 DEF BlocksOK
  <2> QED BY <2>1, <2>2, <2>3
<1>14. disk' = [t \in DOMAIN disk' |-> disk'[t]] /\ DOMAIN disk' \subseteq DOMAIN disk
       /\ \A t \in DOMAIN disk' : disk'[t] = disk[t]
  BY <1>6
<1> QED BY <1>2, <1>3, <1>4, <1>5, <1>11, <1>12, <1>13, <1>14

Written(n) == {Writes[at][i] : i \in 1..n}

\* what a step writes: only the last one writes the return code, and only
\* one that tells of a failure
LEMMA WrittenFacts ==
    ASSUME at \in DOMAIN Writes, NEW n \in 0..Len(Writes[at])
    PROVE  /\ Written(n) \subseteq Files
           /\ "rc" \in Written(n) => at = "save" /\ rc \notin {0, NoCode}
           /\ at = "configure" /\ n = Len(Writes[at]) => "script" \in Written(n)
           /\ at = "save" /\ n = Len(Writes[at]) =>
                 /\ {"stdout", "status"} \subseteq Written(n)
                 /\ rc \notin {0, NoCode} => "rc" \in Written(n)
<1>1. at \in {"playbook", "prepare", "artifacts", "configure", "save"}
  BY DEF Writes
<1>2. CASE at = "save"
  <2>1. CASE rc \in {0, NoCode}
    <3>1. Writes[at] = <<"stdout", "status">>
      BY <1>2, <2>1 DEF Writes
    <3>2. Written(n) \subseteq {"stdout", "status"}
          /\ (n = 2 => {"stdout", "status"} \subseteq Written(n))
      BY <3>1 DEF Written
    <3> QED BY <1>2, <2>1, <3>1, <3>2 DEF Files
  <2>2. CASE rc \notin {0, NoCode}
    <3>1. Writes[at] = <<"stdout", "status">> \o <<"rc">>
      BY <1>2, <2>2 DEF Writes
    <3>2. <<"stdout", "status">> \in Seq(Files) /\ <<"rc">> \in Seq(Files)
      BY DEF Files
    <3>3. Len(Writes[at]) = 3 /\ Writes[at][1] = "stdout" /\ Writes[at][2] = "status"
          /\ Writes[at][3] = "rc"
      BY <3>1, <3>2, ConcatProperties
    <3>4. Written(n) \subseteq {"stdout", "status", "rc"}
          /\ (n = 3 => {"stdout", "status", "rc"} \subseteq Written(n))
      BY <3>3 DEF Written
    <3> QED BY <1>2, <2>2, <3>3, <3>4 DEF Files
  <2> QED BY <2>1, <2>2
<1>3. CASE at = "artifacts"
  BY <1>3 DEF Writes, Written
<1>4. CASE at \in {"playbook", "prepare", "configure"}
  <2>1. Writes[at] = IF at = "playbook" THEN <<"playbook">>
                     ELSE IF at = "prepare" THEN <<"env">> ELSE <<"script">>
    BY <1>4 DEF Writes
  <2>2. Len(Writes[at]) = 1
    BY <2>1
  <2>3. Written(n) \subseteq {Writes[at][1]} /\ (n = 1 => Writes[at][1] \in Written(n))
    BY <2>2 DEF Written
  <2>4. Writes[at][1] = IF at = "playbook" THEN "playbook"
                        ELSE IF at = "prepare" THEN "env" ELSE "script"
    BY <2>1
  <2> QED BY <1>4, <2>2, <2>3, <2>4 DEF Files
<1> QED BY <1>1, <1>2, <1>3, <1>4

LEMMA WriteFacts ==
    ASSUME RunnerInv, at \in DOMAIN Writes, NEW n \in 0..Len(Writes[at]), Write(n),
           blocks' = blocks
    PROVE  /\ disk' = [t \in DOMAIN disk' |-> disk'[t]] /\ DOMAIN disk' = DOMAIN disk
           /\ \A t \in DOMAIN disk' : disk'[t] \subseteq Files
           /\ WorkDir' = WorkDir /\ Open' = Open
           /\ disk'[WorkDir] = disk[WorkDir] \cup Written(n)
<1>1. Len(blocks) \in {1, 2}
  <2>1. at \in {"playbook", "prepare", "artifacts", "configure", "save"}
    BY DEF Writes
  <2> QED BY <2>1 DEF RunnerInv, BlocksOK
<1>2. WorkDir \in DOMAIN disk
  BY <1>1, InnerFacts DEF RunnerInv
<1>3. disk' = [disk EXCEPT ![WorkDir] = disk[WorkDir] \cup Written(n)]
  BY DEF Write, Written
<1>4. Written(n) \subseteq Files /\ \A t \in DOMAIN disk : disk[t] \subseteq Files
  BY WrittenFacts DEF RunnerInv, RunnerTypeOK
<1> HIDE DEF Written
<1>5. /\ DOMAIN disk' = DOMAIN disk
      /\ disk'[WorkDir] = disk[WorkDir] \cup Written(n)
      /\ \A t \in DOMAIN disk : t # WorkDir => disk'[t] = disk[t]
      /\ disk' = [t \in DOMAIN disk' |-> disk'[t]]
  BY <1>2, <1>3
<1>6. \A t \in DOMAIN disk' : disk'[t] \subseteq Files
  BY <1>2, <1>4, <1>5
<1> QED BY <1>5, <1>6 DEF WorkDir, Open

----------------------------------------------------------------------------
(* The steps *)

LEMMA RunnerInit == Init => RunnerInv
<1> SUFFICES ASSUME Init PROVE RunnerInv
  OBVIOUS
<1>1. blocks = <<>> /\ Len(blocks) = 0 /\ Open = {}
  BY DEF Init, Open
<1>2. DOMAIN disk = {} /\ disk = [t \in DOMAIN disk |-> disk[t]] /\ kept = {}
  BY DEF Init
<1>3. RunnerTypeOK
  BY <1>1, <1>2 DEF Init, RunnerTypeOK, Places, Dirs, Errors, ReturnCodes
<1>4. BlocksOK
  BY <1>1, <1>2 DEF Init, BlocksOK
<1>5. OutcomeOK
  BY DEF Init, OutcomeOK, OutcomeReported
<1> QED BY <1>3, <1>4, <1>5 DEF RunnerInv

LEMMA CallInv ==
    ASSUME RunnerInv, NEW command \in Commands, Call(command)
    PROVE  RunnerInv'
<1>1. /\ at = "idle" /\ at' = "playbook" /\ caller' = command
      /\ rc' = NoCode /\ error' = "nothing" /\ Enter(command # "update", TRUE)
  BY DEF Call
<1>2. RunnerTypeOK /\ BlocksOK /\ blocks = <<>> /\ cwd = Home /\ Len(blocks) = 0 /\ Open = {}
  BY <1>1 DEF RunnerInv, BlocksOK, Open
<1>3. PICK d \in TempNames :
        /\ d \notin DOMAIN disk /\ DOMAIN disk' = DOMAIN disk \cup {d}
        /\ disk' = [t \in DOMAIN disk' |-> disk'[t]]
        /\ disk'[d] = {} /\ \A t \in DOMAIN disk : disk'[t] = disk[t]
        /\ blocks' \in Seq(Blocks) /\ Len(blocks') = Len(blocks) + 1
        /\ blocks'[Len(blocks) + 1] = [dir |-> d, back |-> cwd,
                                       cleanup |-> (command # "update"), chdir |-> TRUE]
        /\ Open' = Open \cup {d}
        /\ cwd' = d /\ cwd' \in Dirs /\ kept' = kept
  <2>1. (command # "update") \in BOOLEAN /\ TRUE \in BOOLEAN
    OBVIOUS
  <2> QED BY <1>1, <1>2, <2>1, EnterFacts
<1>4. Len(blocks') = 1 /\ blocks'[1].dir = d /\ blocks'[1].chdir /\ blocks'[1].back = Home
      /\ WorkDir' = d
  BY <1>2, <1>3 DEF WorkDir
<1>5. RunnerTypeOK'
  BY <1>1, <1>2, <1>3 DEF RunnerTypeOK, Places, Errors
<1>6. BlocksOK'
  <2>1. DOMAIN disk = kept
    BY <1>2 DEF BlocksOK
  <2>2. DOMAIN disk' = Open' \cup kept' /\ Open' \cap kept' = {}
    BY <1>2, <1>3, <2>1
  <2>3. cwd' \in TempNames
    BY <1>3
  <2> QED BY <1>1, <1>4, <2>2, <2>3 DEF BlocksOK
<1>7. OutcomeOK'
  BY <1>1, <1>3, <1>4 DEF OutcomeOK, OutcomeReported
<1> QED BY <1>5, <1>6, <1>7 DEF RunnerInv

\* a step that writes all or, when it fails, some of its files
LEMMA WritingInv ==
    ASSUME RunnerInv, at \in DOMAIN Writes, NEW n \in 0..Len(Writes[at]), Write(n),
           UNCHANGED <<caller, cwd, blocks, kept, rc>>,
           \/ n = Len(Writes[at]) /\ error' = error
              /\ <<at, at'>> \in {<<"playbook", "prepare">>, <<"prepare", "artifacts">>,
                                  <<"configure", "run">>, <<"save", "leave">>}
           \/ error' = "exception" /\ at' = "leave"
    PROVE  RunnerInv'
<1>1. /\ disk' = [t \in DOMAIN disk' |-> disk'[t]] /\ DOMAIN disk' = DOMAIN disk
      /\ \A t \in DOMAIN disk' : disk'[t] \subseteq Files
      /\ WorkDir' = WorkDir /\ Open' = Open
      /\ disk'[WorkDir] = disk[WorkDir] \cup Written(n)
  BY WriteFacts
<1>2. /\ "rc" \in Written(n) => at = "save" /\ rc \notin {0, NoCode}
      /\ at = "configure" /\ n = Len(Writes[at]) => "script" \in Written(n)
      /\ at = "save" /\ n = Len(Writes[at]) =>
            /\ {"stdout", "status"} \subseteq Written(n)
            /\ rc \notin {0, NoCode} => "rc" \in Written(n)
  BY WrittenFacts
<1>3. at \in {"playbook", "prepare", "artifacts", "configure", "save"}
  BY DEF Writes
<1>4. at' \in {"prepare", "artifacts", "run", "leave"} /\ at' # at
  BY <1>3
<1>5. RunnerTypeOK'
  BY <1>1, <1>4 DEF RunnerInv, RunnerTypeOK, Places, Errors
<1>6. BlocksOK'
  BY <1>1, <1>3 DEF RunnerInv, BlocksOK
<1>7. "rc" \notin disk[WorkDir] /\ rc \in ReturnCodes \cup {NoCode}
  BY <1>3 DEF RunnerInv, OutcomeOK, RunnerTypeOK
<1>8. OutcomeOK'
  <2>1. CASE error' = "exception" /\ at' = "leave"
    BY <1>1, <1>2, <1>7, <2>1 DEF OutcomeOK, OutcomeReported
  <2>2. CASE /\ n = Len(Writes[at]) /\ error' = error
             /\ at \in {"playbook", "prepare"} /\ at' \in {"prepare", "artifacts"}
    BY <1>1, <1>2, <1>7, <2>2 DEF RunnerInv, OutcomeOK, OutcomeReported
  <2>3. CASE n = Len(Writes[at]) /\ error' = error /\ at = "configure" /\ at' = "run"
    BY <1>1, <1>2, <1>7, <2>3 DEF RunnerInv, OutcomeOK, OutcomeReported
  <2>4. CASE n = Len(Writes[at]) /\ error' = error /\ at = "save" /\ at' = "leave"
    <3>1. /\ error \in {"nothing", "exception"} /\ (rc = NoCode <=> error # "nothing")
          /\ "script" \in disk[WorkDir] /\ Len(blocks) = 2
      BY <2>4 DEF RunnerInv, OutcomeOK, BlocksOK
    <3>2. error = "nothing" => rc \in ReturnCodes /\ (rc # 0 => rc \notin {0, NoCode})
      BY <1>7, <3>1
    <3> QED BY <1>1, <1>2, <1>7, <2>4, <3>1, <3>2 DEF OutcomeOK, OutcomeReported
  <2> QED BY <2>1, <2>2, <2>3, <2>4
<1> QED BY <1>5, <1>6, <1>8 DEF RunnerInv

\* steps that only tell how far it is, and what was returned or raised
LEMMA ControlInv ==
    ASSUME RunnerInv, UNCHANGED <<caller, cwd, blocks, disk, kept>>,
           \/ at = "playbook" /\ error' = "IOError" /\ at' = "leave" /\ rc' = rc
           \/ at = "run" /\ rc' \in ReturnCodes /\ at' = "save" /\ error' = error
           \/ at = "run" /\ rc' = rc /\ at' = "save" /\ error' = "exception"
    PROVE  RunnerInv'
<1>1. WorkDir' = WorkDir /\ Open' = Open
  BY DEF WorkDir, Open
<1>2. RunnerTypeOK'
  BY DEF RunnerInv, RunnerTypeOK, Places, Errors
<1>3. BlocksOK'
  BY <1>1 DEF RunnerInv, BlocksOK
<1>4. OutcomeOK'
  BY <1>1 DEF RunnerInv, BlocksOK, OutcomeOK, OutcomeReported, ReturnCodes, NoCode
<1> QED BY <1>2, <1>3, <1>4 DEF RunnerInv

LEMMA EnterArtifactsInv ==
    ASSUME RunnerInv, EnterArtifacts
    PROVE  RunnerInv'
<1>1. /\ at = "artifacts" /\ at' = "configure" /\ Enter(TRUE, FALSE)
      /\ caller' = caller /\ rc' = rc /\ error' = error
  BY DEF EnterArtifacts
<1>2. RunnerTypeOK /\ BlocksOK /\ Len(blocks) = 1
  BY <1>1 DEF RunnerInv, BlocksOK
<1>3. PICK d \in TempNames :
        /\ d \notin DOMAIN disk /\ DOMAIN disk' = DOMAIN disk \cup {d}
        /\ disk' = [t \in DOMAIN disk' |-> disk'[t]]
        /\ disk'[d] = {} /\ \A t \in DOMAIN disk : disk'[t] = disk[t]
        /\ blocks' \in Seq(Blocks) /\ Len(blocks') = Len(blocks) + 1
        /\ \A i \in 1..Len(blocks) : blocks'[i] = blocks[i]
        /\ blocks'[Len(blocks) + 1] = [dir |-> d, back |-> cwd,
                                       cleanup |-> TRUE, chdir |-> FALSE]
        /\ Open' = Open \cup {d}
        /\ cwd' \in Dirs /\ kept' = kept
  BY <1>1, <1>2, EnterFacts
<1>4. /\ WorkDir \in DOMAIN disk /\ WorkDir' = WorkDir /\ d # WorkDir
      /\ blocks'[1] = blocks[1] /\ Len(blocks') = 2
      /\ blocks'[2].dir = d /\ blocks'[2].cleanup /\ ~blocks'[2].chdir
  BY <1>2, <1>3, InnerFacts DEF WorkDir
<1>5. RunnerTypeOK'
  BY <1>1, <1>2, <1>3 DEF RunnerTypeOK, Places
<1>6. BlocksOK'
  <2>1. DOMAIN disk = Open \cup kept /\ Open \cap kept = {}
    BY <1>2 DEF BlocksOK
  <2>2. DOMAIN disk' = Open' \cup kept' /\ Open' \cap kept' = {}
    BY <1>3, <2>1
  <2>3. blocks'[1].chdir /\ blocks'[1].back = Home /\ blocks'[2].dir # blocks'[1].dir
    BY <1>2, <1>4 DEF BlocksOK, WorkDir
  <2> QED BY <1>1, <1>4, <2>2, <2>3 DEF BlocksOK
<1>7. OutcomeOK'
  BY <1>1, <1>3, <1>4 DEF RunnerInv, OutcomeOK, OutcomeReported
<1> QED BY <1>5, <1>6, <1>7 DEF RunnerInv

LEMMA LeaveArtifactsInv ==
    ASSUME RunnerInv, LeaveArtifacts
    PROVE  RunnerInv'
<1>1. /\ at = "leave" /\ at' = "leave" /\ Len(blocks) = 2 /\ Leave
      /\ error' = IF error = "nothing" /\ rc # 0 THEN "RuntimeError" ELSE error
      /\ caller' = caller /\ rc' = rc
  BY DEF LeaveArtifacts
<1>2. RunnerTypeOK /\ BlocksOK /\ OutcomeOK
  BY DEF RunnerInv
<1>3. /\ blocks' \in Seq(Blocks) /\ Len(blocks') = 1 /\ blocks'[1] = blocks[1]
      /\ Open' = {WorkDir} /\ WorkDir' = WorkDir
      /\ disk' = [t \in DOMAIN disk' |-> disk'[t]] /\ DOMAIN disk' \subseteq DOMAIN disk
      /\ \A t \in DOMAIN disk' : disk'[t] = disk[t]
      /\ DOMAIN disk' = Open' \cup kept' /\ Open' \cap kept' = {}
      /\ cwd' \in Dirs /\ kept' \subseteq TempNames
  BY <1>1, <1>2, LeaveFacts
<1>4. disk'[WorkDir] = disk[WorkDir]
  BY <1>3
<1>5. RunnerTypeOK'
  <2>1. error' \in Errors
    BY <1>1, <1>2 DEF RunnerTypeOK, Errors
  <2>2. DOMAIN disk' \subseteq TempNames /\ \A t \in DOMAIN disk' : disk'[t] \subseteq Files
    BY <1>2, <1>3 DEF RunnerTypeOK
  <2> QED BY <1>1, <1>2, <1>3, <2>1, <2>2 DEF RunnerTypeOK
<1>6. BlocksOK'
  BY <1>1, <1>2, <1>3 DEF BlocksOK
<1>7. OutcomeOK'
  <2>1. CASE error = "nothing"
    BY <1>1, <1>2, <1>3, <1>4, <2>1 DEF OutcomeOK, OutcomeReported
  <2>2. CASE error # "nothing"
    BY <1>1, <1>2, <1>3, <1>4, <2>2 DEF OutcomeOK, OutcomeReported
  <2> QED BY <2>1, <2>2
<1> QED BY <1>5, <1>6, <1>7 DEF RunnerInv

LEMMA ReturnInv ==
    ASSUME RunnerInv, Return
    PROVE  RunnerInv'
<1>1. /\ at' = "idle" /\ Len(blocks) = 1 /\ Leave
      /\ caller' = "none" /\ rc' = NoCode /\ error' = "nothing"
  BY DEF Return
<1>2. RunnerTypeOK /\ BlocksOK /\ OutcomeOK
  BY DEF RunnerInv
<1>3. /\ blocks' \in Seq(Blocks) /\ Len(blocks') = 0 /\ blocks' = <<>>
      /\ Open' = {} /\ cwd' = Home
      /\ disk' = [t \in DOMAIN disk' |-> disk'[t]] /\ DOMAIN disk' \subseteq DOMAIN disk
      /\ \A t \in DOMAIN disk' : disk'[t] = disk[t]
      /\ DOMAIN disk' = Open' \cup kept' /\ Open' \cap kept' = {}
      /\ cwd' \in Dirs /\ kept' \subseteq TempNames
  BY <1>1, <1>2, LeaveFacts
<1>4. RunnerTypeOK'
  <2>1. DOMAIN disk' \subseteq TempNames /\ \A t \in DOMAIN disk' : disk'[t] \subseteq Files
    BY <1>2, <1>3 DEF RunnerTypeOK
  <2> QED BY <1>1, <1>3, <2>1 DEF RunnerTypeOK, Places, Errors
<1>5. BlocksOK'
  BY <1>1, <1>3 DEF BlocksOK
<1>6. OutcomeOK'
  BY <1>1 DEF OutcomeOK, OutcomeReported
<1> QED BY <1>4, <1>5, <1>6 DEF RunnerInv

LEMMA RunPlaybookInv ==
    ASSUME RunnerInv, RunPlaybook
    PROVE  RunnerInv'
<1>1. CASE Prepare
  <2>1. at \in DOMAIN Writes /\ Len(Writes[at]) \in 0..Len(Writes[at])
    BY <1>1 DEF Prepare, WriteStep, Writes
  <2> QED BY <1>1, <2>1, WritingInv DEF Prepare, WriteStep
<1>2. CASE EnterArtifacts
  BY <1>2, EnterArtifactsInv
<1>3. CASE Configure
  <2>1. at \in DOMAIN Writes /\ Len(Writes[at]) \in 0..Len(Writes[at])
    BY <1>3 DEF Configure, WriteStep, Writes
  <2> QED BY <1>3, <2>1, WritingInv DEF Configure, WriteStep
<1>4. ASSUME NEW code \in ReturnCodes, Run(code) PROVE RunnerInv'
  BY <1>4, ControlInv DEF Run
<1>5. CASE RunRaises
  BY <1>5, ControlInv DEF RunRaises
<1>6. CASE Save
  <2>1. at \in DOMAIN Writes /\ Len(Writes[at]) \in Nat
    <3>1. at = "save"
      BY <1>6 DEF Save, WriteStep
    <3>2. <<"stdout", "status">> \in Seq(Files) /\ <<"rc">> \in Seq(Files)
          /\ <<>> \in Seq(Files)
      BY DEF Files
    <3>3. Writes[at] \in Seq(Files)
      <4>1. Writes["save"] = <<"stdout", "status">> \o IF rc \in {0, NoCode} THEN <<>> ELSE <<"rc">>
        BY DEF Writes
      <4> QED BY <3>1, <3>2, <4>1, ConcatProperties
    <3> QED BY <3>1, <3>3 DEF Writes
  <2>2. Len(Writes[at]) \in 0..Len(Writes[at])
    BY <2>1
  <2> QED BY <1>6, <2>1, <2>2, WritingInv DEF Save, WriteStep
<1>7. CASE LeaveArtifacts
  BY <1>7, LeaveArtifactsInv
<1> QED BY <1>1, <1>2, <1>3, <1>4, <1>5, <1>6, <1>7 DEF RunPlaybook

LEMMA FailInv ==
    ASSUME RunnerInv, Fail
    PROVE  RunnerInv'
<1>1. PICK n \in 0..Len(Writes[at]) : Write(n)
  BY DEF Fail
<1> QED BY <1>1, WritingInv DEF Fail

LEMMA RunnerNextInv ==
    ASSUME RunnerInv, [Next]_runnerVars
    PROVE  RunnerInv'
<1>1. ASSUME NEW command \in Commands, Call(command) PROVE RunnerInv'
  BY <1>1, CallInv
<1>2. CASE WritePlaybook
  <2>1. at \in DOMAIN Writes /\ Len(Writes[at]) \in 0..Len(Writes[at])
    BY <1>2 DEF WritePlaybook, WriteStep, Writes
  <2> QED BY <1>2, <2>1, WritingInv DEF WritePlaybook, WriteStep
<1>3. CASE NoExtraConfig
  BY <1>3, ControlInv DEF NoExtraConfig
<1>4. CASE RunPlaybook
  BY <1>4, RunPlaybookInv
<1>5. CASE Fail
  BY <1>5, FailInv
<1>6. CASE Return
  BY <1>6, ReturnInv
<1>7. CASE UNCHANGED runnerVars
  BY <1>7 DEF runnerVars, RunnerInv, RunnerTypeOK, BlocksOK, OutcomeOK, OutcomeReported,
              Open, WorkDir
<1> QED BY <1>1, <1>2, <1>3, <1>4, <1>5, <1>6, <1>7 DEF Next

----------------------------------------------------------------------------
(* The theorems *)

(***************************************************************************)
(* Every reachable state of the runner is well-formed: each place of a     *)
(* command (utils.py:406-553) has the TempDirs blocks open there, and what *)
(* was written, returned and raised fits.                                  *)
(***************************************************************************)
THEOREM RunnerInvariant == Spec => []RunnerInv
<1>1. Init => RunnerInv
  BY RunnerInit
<1>2. RunnerInv /\ [Next]_runnerVars => RunnerInv'
  BY RunnerNextInv
<1> QED BY <1>1, <1>2, PTL DEF Spec

(***************************************************************************)
(* No command leaves a temporary directory behind that the log did not say *)
(* is kept, and none leaves the process in one, whatever a step raised     *)
(* (utils.py:46-117).                                                      *)
(***************************************************************************)
THEOREM RunnerLeavesNothing == Spec => []NothingLeft
<1>1. RunnerInv => NothingLeft
  BY DEF RunnerInv, BlocksOK, NothingLeft
<1> QED BY <1>1, RunnerInvariant, PTL

(***************************************************************************)
(* A command goes on only after a playbook that succeeded, and reports a   *)
(* failure with all it says of it on disk (utils.py:517-553).              *)
(***************************************************************************)
THEOREM RunnerReports == Spec => []OutcomeReported
<1>1. RunnerInv => OutcomeReported
  BY DEF RunnerInv, OutcomeOK
<1> QED BY <1>1, RunnerInvariant, PTL
=============================================================================
