--------------------------- MODULE SetConfigsProofs ---------------------------
(***************************************************************************)
(* Proofs about SetConfigs: CfgInv is inductive, a running service has a   *)
(* complete configuration, and COPY_ONCE copies once.                      *)
(***************************************************************************)
EXTENDS SetConfigs, FiniteSetTheorems, TLAPS

\* A config is a sequence of entries, so its entries are 1 to its length.
LEMMA ConfigIsSequence ==
    ASSUME config \in Configs
    PROVE  Len(config) \in Nat /\ \A i \in Entries : config[i] \in ConfigEntry
BY ConfigsAssumption DEF Entries

\* The initial states satisfy the invariant: nothing was copied.
LEMMA InitEstablishes == Init => CfgInv
<1> SUFFICES ASSUME Init PROVE CfgInv
  OBVIOUS
<1>1. Len(config) \in Nat
  BY ConfigIsSequence DEF Init
<1>2. TypeOK
  <2>1. entry \in 1..(Len(config) + 1)
    BY <1>1 DEF Init
  <2>2. crashes \in 0..MaxCrashes /\ changes \in 0..MaxChanges
    BY CfgBoundsAssumption DEF Init
  <2> QED BY <2>1, <2>2 DEF TypeOK, Init, Nothing
<1> QED BY <1>2 DEF Init, CfgInv, Copying, ConfiguredIsComplete

\* The steps that only move between the parts of the script.
LEMMA BeginStep == CfgInv /\ Begin => CfgInv'
<1> SUFFICES ASSUME CfgInv, Begin PROVE CfgInv'
  OBVIOUS
<1>1. Len(config) \in Nat
  BY ConfigIsSequence DEF CfgInv, TypeOK
<1>2. TypeOK'
  BY <1>1 DEF CfgInv, TypeOK, Begin, inputVars, srcVars, diskVars, Nothing, Entries
<1>3. ~configured
  BY DEF CfgInv, ConfiguredIsComplete, Begin
<1>4. \A i \in Entries : Untouched(i)'
  BY DEF Begin, Untouched
<1> QED BY <1>1, <1>2, <1>3, <1>4
        DEF CfgInv, Begin, Copying, ConfiguredIsComplete, Entries, inputVars, diskVars

LEMMA AlreadyConfiguredStep == CfgInv /\ AlreadyConfigured => CfgInv'
<1> SUFFICES ASSUME CfgInv, AlreadyConfigured PROVE CfgInv'
  OBVIOUS
<1>1. TypeOK'
  BY DEF CfgInv, TypeOK, AlreadyConfigured, inputVars, srcVars, readVars, diskVars, copyVars, Entries
<1>2. \A i \in Entries : Complete(i)' <=> Complete(i)
  BY DEF AlreadyConfigured, Complete, inputVars, readVars, diskVars, copyVars, Entries
<1> QED BY <1>1, <1>2
        DEF CfgInv, AlreadyConfigured, Copying, ConfiguredIsComplete, Entries, inputVars, readVars, diskVars, copyVars

\* A start that ends early keeps what /configured stands for.
LEMMA FailStep ==
    ASSUME CfgInv, Fail, TypeOK',
           ConfiguredIsComplete'
    PROVE  CfgInv'
BY DEF CfgInv, Fail, Copying

LEMMA FailsWithoutTouching ==
    ASSUME CfgInv, Fail, UNCHANGED <<inputVars, srcVars, diskVars, entry, readVars>>,
           crashes' \in 0..MaxCrashes, changes' \in 0..MaxChanges
    PROVE  CfgInv'
<1>1. TypeOK'
  BY DEF CfgInv, TypeOK, Fail, inputVars, srcVars, readVars, diskVars, Entries
<1>2. ConfiguredIsComplete'
  BY DEF CfgInv, ConfiguredIsComplete, Complete, inputVars, readVars, diskVars, Entries
<1> QED BY <1>1, <1>2, FailStep

\* Copying the entries.
LEMMA SkipOptionalStep == CfgInv /\ SkipOptional => CfgInv'
<1> SUFFICES ASSUME CfgInv, SkipOptional PROVE CfgInv'
  OBVIOUS
<1>1. Len(config) \in Nat /\ entry \in Entries /\ entry' \in 1..(Len(config) + 1)
  BY ConfigIsSequence DEF CfgInv, TypeOK, SkipOptional, Entries
<1>2. TypeOK'
  BY <1>1 DEF CfgInv, TypeOK, SkipOptional, inputVars, srcVars, readVars, diskVars, Entries
<1>3. Complete(entry)
  BY <1>1 DEF CfgInv, SkipOptional, Complete, Untouched
<1>4. \A i \in Entries : (Complete(i)' <=> Complete(i)) /\ (Untouched(i)' <=> Untouched(i))
  BY DEF SkipOptional, Complete, Untouched, inputVars, readVars, diskVars, Entries
<1>5. ~configured /\ ~configured'
  BY DEF CfgInv, Copying, SkipOptional, diskVars
<1>6. \A i \in Entries : i < entry' => i < entry \/ i = entry
  BY <1>1 DEF SkipOptional, Entries
<1>7. \A i \in Entries : i >= entry' => i > entry
  BY <1>1 DEF SkipOptional, Entries
<1> QED BY <1>1, <1>2, <1>3, <1>4, <1>5, <1>6, <1>7
        DEF CfgInv, SkipOptional, Copying, ConfiguredIsComplete, Entries, inputVars, diskVars

\* The other entries are not touched while one is copied.
LEMMA OthersStayComplete ==
    ASSUME CfgInv, Copying, entry \in Entries, UNCHANGED <<config, entry>>,
           \A i \in Entries : i # entry =>
               /\ dst'[i] = dst[i] /\ props'[i] = props[i]
               /\ (i \in found' <=> i \in found) /\ listed'[i] = listed[i] /\ seen'[i] = seen[i]
    PROVE  /\ \A i \in Entries : i < entry => Complete(i)'
           /\ \A i \in Entries : i > entry => Untouched(i)'
<1>1. Len(config) \in Nat
  BY ConfigIsSequence DEF CfgInv, TypeOK
<1>2. \A i \in Entries : i < entry => Complete(i)'
  BY <1>1 DEF CfgInv, Complete, Entries
<1>3. \A i \in Entries : i > entry => Untouched(i)'
  BY <1>1 DEF CfgInv, Untouched, Entries
<1> QED BY <1>2, <1>3

LEMMA FindSourceStep == CfgInv /\ FindSource => CfgInv'
<1> SUFFICES ASSUME CfgInv, FindSource PROVE CfgInv'
  OBVIOUS
<1>1. /\ entry \in Entries /\ pc = "copy" /\ pc' = "found" /\ found' = found \cup {entry}
      /\ UNCHANGED <<config, strategy, entry, todo, open, listed, seen, dst, props,
                     run_command, configured>>
  BY DEF FindSource, inputVars, diskVars, copyVars
<1>2. TypeOK'
  BY <1>1 DEF CfgInv, TypeOK, FindSource, srcVars, Entries
<1>3. /\ \A i \in Entries : i < entry => Complete(i)'
      /\ \A i \in Entries : i > entry => Untouched(i)'
  BY <1>1, OthersStayComplete DEF Copying
<1>4. ~configured /\ strategy \in {"COPY_ALWAYS", "COPY_ONCE"} /\ open = <<>>
  BY <1>1 DEF CfgInv, Copying
<1> QED BY <1>1, <1>2, <1>3, <1>4 DEF CfgInv, Copying, ConfiguredIsComplete, Entries

LEMMA DeleteOldStep == \A f \in Files : CfgInv /\ DeleteOld(f) => CfgInv'
<1> SUFFICES ASSUME NEW f \in Files, CfgInv, DeleteOld(f) PROVE CfgInv'
  OBVIOUS
<1>1. /\ entry \in Entries \cap found /\ pc = "found" /\ pc' = "found"
      /\ UNCHANGED <<config, strategy, entry, todo, open, found, listed, seen, props,
                     run_command, configured>>
  BY DEF CfgInv, DeleteOld, inputVars, copyVars, readVars
<1>2. TypeOK'
  BY <1>1 DEF CfgInv, TypeOK, DeleteOld, srcVars, Entries
<1>3. \A i \in Entries : i # entry => dst'[i] = dst[i]
  BY <1>1 DEF CfgInv, TypeOK, DeleteOld
<1>4. /\ \A i \in Entries : i < entry => Complete(i)'
      /\ \A i \in Entries : i > entry => Untouched(i)'
  BY <1>1, <1>3, OthersStayComplete DEF Copying
<1>5. ~configured /\ strategy \in {"COPY_ALWAYS", "COPY_ONCE"} /\ open = <<>>
  BY <1>1 DEF CfgInv, Copying
<1> QED BY <1>1, <1>2, <1>4, <1>5 DEF CfgInv, Copying, ConfiguredIsComplete, Entries

LEMMA ListSourceStep == CfgInv /\ ListSource => CfgInv'
<1> SUFFICES ASSUME CfgInv, ListSource PROVE CfgInv'
  OBVIOUS
<1>1. /\ entry \in Entries \cap found /\ pc = "found" /\ pc' = "files"
      /\ todo' = Present(entry) /\ listed' = [listed EXCEPT ![entry] = Present(entry)]
      /\ UNCHANGED <<config, strategy, entry, open, found, seen, dst, props,
                     run_command, configured>>
  BY DEF CfgInv, ListSource, inputVars, diskVars
<1>2. Present(entry) \subseteq Files
  BY DEF Present
<1>3. TypeOK'
  BY <1>1, <1>2 DEF CfgInv, TypeOK, ListSource, srcVars, Entries
<1>4. listed'[entry] = todo' /\ \A i \in Entries : i # entry => listed'[i] = listed[i]
  BY <1>1 DEF CfgInv, TypeOK
<1>5. ~config[entry].merge => \A f \in Files : dst[entry][f] = Absent
  BY DEF ListSource, Cleared, Nothing
<1>6. CurrentEntry'
  BY <1>1, <1>4, <1>5 DEF CurrentEntry
<1>7. /\ \A i \in Entries : i < entry => Complete(i)'
      /\ \A i \in Entries : i > entry => Untouched(i)'
  BY <1>1, <1>4, OthersStayComplete DEF Copying
<1>8. ~configured /\ strategy \in {"COPY_ALWAYS", "COPY_ONCE"} /\ open = <<>>
  BY <1>1 DEF CfgInv, Copying
<1> QED BY <1>1, <1>3, <1>6, <1>7, <1>8 DEF CfgInv, Copying, ConfiguredIsComplete, Entries

LEMMA SourceVanishedStep == CfgInv /\ SourceVanished => CfgInv'
<1> SUFFICES ASSUME CfgInv, SourceVanished PROVE CfgInv'
  OBVIOUS
<1>1. entry \in Entries /\ Fail /\ ~configured'
  BY DEF CfgInv, SourceVanished, Copying
<1>2. dst' \in [Entries -> [Files -> Versions \cup {Absent, Partial}]]
  BY <1>1 DEF CfgInv, TypeOK, SourceVanished, Nothing
<1>3. TypeOK'
  BY <1>1, <1>2 DEF CfgInv, TypeOK, SourceVanished, Fail, inputVars, srcVars, readVars, Entries
<1> QED BY <1>1, <1>3, FailStep DEF ConfiguredIsComplete

LEMMA EndEntryStep == CfgInv /\ EndEntry => CfgInv'
<1> SUFFICES ASSUME CfgInv, EndEntry PROVE CfgInv'
  OBVIOUS
<1>1. Len(config) \in Nat /\ entry \in Entries /\ entry' \in 1..(Len(config) + 1)
  BY ConfigIsSequence DEF CfgInv, TypeOK, EndEntry, Entries
<1>2. TypeOK'
  BY <1>1 DEF CfgInv, TypeOK, EndEntry, inputVars, srcVars, readVars, diskVars, Entries
<1>3. Complete(entry)
  <2>1. CurrentEntry /\ pc = "files" /\ open = <<>> /\ todo = {}
    BY DEF CfgInv, EndEntry
  <2> QED BY <1>1, <2>1 DEF CurrentEntry, Complete
<1>4. \A i \in Entries : (Complete(i)' <=> Complete(i)) /\ (Untouched(i)' <=> Untouched(i))
  BY DEF EndEntry, Complete, Untouched, inputVars, readVars, diskVars, Entries
<1>5. ~configured /\ ~configured'
  BY DEF CfgInv, Copying, EndEntry, diskVars
<1>6. \A i \in Entries : i < entry' => i < entry \/ i = entry
  BY <1>1 DEF EndEntry, Entries
<1>7. \A i \in Entries : i >= entry' => i > entry
  BY <1>1 DEF EndEntry, Entries
<1> QED BY <1>1, <1>2, <1>3, <1>4, <1>5, <1>6, <1>7
        DEF CfgInv, EndEntry, Copying, ConfiguredIsComplete, Entries, inputVars, readVars, diskVars

\* Copying the files of an entry.
LEMMA OpenFileStep == \A f \in Files : CfgInv /\ OpenFile(f) => CfgInv'
<1> SUFFICES ASSUME NEW f \in Files, CfgInv, OpenFile(f) PROVE CfgInv'
  OBVIOUS
<1>1. /\ entry \in Entries /\ pc = "files" /\ pc' = "files" /\ f \in todo /\ open = <<>>
      /\ UNCHANGED <<config, strategy, entry, todo, found, listed, seen, run_command, configured>>
      /\ CurrentEntry
  BY DEF CfgInv, OpenFile, inputVars, readVars
<1>2. open' = <<f, src[entry][f]>> /\ src[entry][f] \in Versions
  BY <1>1 DEF CfgInv, TypeOK, OpenFile
<1>3. TypeOK'
  <2>1. /\ dst' \in [Entries -> [Files -> Versions \cup {Absent, Partial}]]
        /\ props' \in [Entries -> [Files -> {"new", "wanted", "other"}]]
    BY <1>1 DEF CfgInv, TypeOK, OpenFile
  <2>2. open' \in Files \X Versions
    BY <1>2
  <2>3. UNCHANGED <<mounted, src, crashes, changes>>
    BY DEF OpenFile, srcVars
  <2> QED BY <1>1, <2>1, <2>2, <2>3 DEF CfgInv, TypeOK, Entries
<1>4. \A g \in Files : g # f => dst'[entry][g] = dst[entry][g] /\ props'[entry][g] = props[entry][g]
  BY <1>1 DEF CfgInv, TypeOK, OpenFile
<1>5. \A i \in Entries : i # entry => dst'[i] = dst[i] /\ props'[i] = props[i]
  BY <1>1 DEF CfgInv, TypeOK, OpenFile
<1>6. listed[entry] \subseteq Files
  BY <1>1 DEF CfgInv, TypeOK
<1>7. CurrentEntry'
  BY <1>1, <1>4, <1>6 DEF CurrentEntry
<1>8. /\ \A i \in Entries : i < entry => Complete(i)'
      /\ \A i \in Entries : i > entry => Untouched(i)'
  BY <1>1, <1>5, OthersStayComplete DEF Copying
<1>9. ~configured /\ strategy \in {"COPY_ALWAYS", "COPY_ONCE"}
  BY <1>1 DEF CfgInv, Copying
<1> QED BY <1>1, <1>2, <1>3, <1>7, <1>8, <1>9 DEF CfgInv, Copying, ConfiguredIsComplete, Entries

LEMMA FinishFileStep == CfgInv /\ FinishFile => CfgInv'
<1> SUFFICES ASSUME CfgInv, FinishFile PROVE CfgInv'
  OBVIOUS
<1>1. /\ entry \in Entries /\ pc = "files" /\ pc' = "props" /\ open # <<>>
      /\ UNCHANGED <<config, strategy, entry, todo, open, found, listed, props,
                     run_command, configured>>
      /\ CurrentEntry
  BY DEF CfgInv, FinishFile, inputVars, copyVars
<1>2. open \in Files \X Versions /\ open[1] \in todo
  BY <1>1 DEF CfgInv, TypeOK
<1>3. TypeOK'
  BY <1>1, <1>2 DEF CfgInv, TypeOK, FinishFile, srcVars, Entries
<1>4. \A g \in Files : g # open[1] => dst'[entry][g] = dst[entry][g] /\ seen'[entry][g] = seen[entry][g]
  BY <1>1, <1>2 DEF CfgInv, TypeOK, FinishFile
<1>5. dst'[entry][open[1]] = open[2] /\ seen'[entry][open[1]] = open[2]
  BY <1>1, <1>2 DEF CfgInv, TypeOK, FinishFile
<1>6. \A i \in Entries : i # entry => dst'[i] = dst[i] /\ seen'[i] = seen[i]
  BY <1>1 DEF CfgInv, TypeOK, FinishFile
<1>7. listed[entry] \subseteq Files
  BY <1>1 DEF CfgInv, TypeOK
<1>8. CurrentEntry'
  BY <1>1, <1>2, <1>4, <1>7 DEF CurrentEntry
<1>9. /\ \A i \in Entries : i < entry => Complete(i)'
      /\ \A i \in Entries : i > entry => Untouched(i)'
  BY <1>1, <1>6, OthersStayComplete DEF Copying
<1>10. ~configured /\ strategy \in {"COPY_ALWAYS", "COPY_ONCE"}
  BY <1>1 DEF CfgInv, Copying
<1> QED BY <1>1, <1>2, <1>3, <1>5, <1>8, <1>9, <1>10 DEF CfgInv, Copying, ConfiguredIsComplete, Entries

LEMMA SetPropsStep == CfgInv /\ SetProps => CfgInv'
<1> SUFFICES ASSUME CfgInv, SetProps PROVE CfgInv'
  OBVIOUS
<1>1. /\ entry \in Entries /\ pc = "props" /\ pc' = "files"
      /\ todo' = todo \ {open[1]} /\ open' = <<>>
      /\ UNCHANGED <<config, strategy, entry, found, listed, seen, dst, run_command, configured>>
      /\ CurrentEntry /\ open # <<>>
      /\ seen[entry][open[1]] = open[2] /\ dst[entry][open[1]] = open[2]
  BY DEF CfgInv, SetProps, inputVars, readVars
<1>2. open \in Files \X Versions
  BY <1>1 DEF CfgInv, TypeOK
<1>3. PICK p \in {"wanted", "other"} : props' = [props EXCEPT ![entry][open[1]] = p]
  BY DEF SetProps
<1>4. TypeOK'
  BY <1>1, <1>2, <1>3 DEF CfgInv, TypeOK, SetProps, srcVars, Entries
<1>5. \A g \in Files : g # open[1] => props'[entry][g] = props[entry][g]
  BY <1>1, <1>2, <1>3 DEF CfgInv, TypeOK
<1>6. props'[entry][open[1]] # "new"
  BY <1>1, <1>2, <1>3 DEF CfgInv, TypeOK
<1>7. \A i \in Entries : i # entry => props'[i] = props[i]
  BY <1>1, <1>3 DEF CfgInv, TypeOK
<1>8. seen[entry][open[1]] # Absent
  BY <1>1, <1>2, ValuesAssumption DEF Absent
<1>9. listed[entry] \subseteq Files
  BY <1>1 DEF CfgInv, TypeOK
<1>10. CurrentEntry'
  BY <1>1, <1>2, <1>5, <1>6, <1>8, <1>9 DEF CurrentEntry
<1>11. /\ \A i \in Entries : i < entry => Complete(i)'
       /\ \A i \in Entries : i > entry => Untouched(i)'
  BY <1>1, <1>7, OthersStayComplete DEF Copying
<1>12. ~configured /\ strategy \in {"COPY_ALWAYS", "COPY_ONCE"}
  BY <1>1 DEF CfgInv, Copying
<1> QED BY <1>1, <1>4, <1>10, <1>11, <1>12 DEF CfgInv, Copying, ConfiguredIsComplete, Entries

LEMMA FileVanishedStep == \A f \in Files : CfgInv /\ FileVanished(f) => CfgInv'
<1> SUFFICES ASSUME NEW f \in Files, CfgInv, FileVanished(f) PROVE CfgInv'
  OBVIOUS
<1>1. entry \in Entries /\ Fail /\ ~configured'
  BY DEF CfgInv, FileVanished, Copying
<1>2. TypeOK'
  BY <1>1 DEF CfgInv, TypeOK, FileVanished, Fail, inputVars, srcVars, readVars, Entries
<1> QED BY <1>1, <1>2, FailStep DEF ConfiguredIsComplete

\* The end of the copying, and the command.
LEMMA TruncateCommandStep == CfgInv /\ TruncateCommand => CfgInv'
<1> SUFFICES ASSUME CfgInv, TruncateCommand PROVE CfgInv'
  OBVIOUS
<1>1. TypeOK'
  BY DEF CfgInv, TypeOK, TruncateCommand, inputVars, srcVars, readVars, copyVars, Entries
<1>2. \A i \in Entries : Complete(i)' <=> Complete(i)
  BY DEF TruncateCommand, Complete, inputVars, readVars, copyVars, Entries
<1>3. ~configured'
  BY DEF CfgInv, Copying, TruncateCommand
<1> QED BY <1>1, <1>2, <1>3
        DEF CfgInv, TruncateCommand, Copying, ConfiguredIsComplete, Entries, inputVars, readVars, copyVars

LEMMA WriteCommandStep == CfgInv /\ WriteCommand => CfgInv'
<1> SUFFICES ASSUME CfgInv, WriteCommand PROVE CfgInv'
  OBVIOUS
<1>1. TypeOK'
  BY DEF CfgInv, TypeOK, WriteCommand, inputVars, srcVars, readVars, copyVars, Entries
<1>2. \A i \in Entries : Complete(i)' <=> Complete(i)
  BY DEF WriteCommand, Complete, inputVars, readVars, copyVars, Entries
<1>3. ~configured'
  BY DEF CfgInv, Copying, WriteCommand
<1> QED BY <1>1, <1>2, <1>3
        DEF CfgInv, WriteCommand, Copying, ConfiguredIsComplete, Entries, inputVars, readVars, copyVars

LEMMA MarkStep == CfgInv /\ Mark => CfgInv'
<1> SUFFICES ASSUME CfgInv, Mark PROVE CfgInv'
  OBVIOUS
<1>1. TypeOK'
  BY DEF CfgInv, TypeOK, Mark, inputVars, srcVars, readVars, copyVars, Entries
<1>2. \A i \in Entries : Complete(i)' <=> Complete(i)
  BY DEF Mark, Complete, inputVars, readVars, copyVars, Entries
<1>3. \A i \in Entries : Complete(i)
  <2>1. entry = Len(config) + 1 /\ Len(config) \in Nat
    BY ConfigIsSequence DEF CfgInv, TypeOK, Mark
  <2>2. \A i \in Entries : i < entry
    BY <2>1 DEF Entries
  <2> QED BY <2>2 DEF CfgInv, Copying, Mark
<1>4. run_command' = "whole" /\ ~configured
  BY DEF CfgInv, Copying, Mark
<1>5. ConfiguredIsComplete'
  BY <1>2, <1>3, <1>4 DEF ConfiguredIsComplete, Mark, inputVars, readVars, Entries
<1>6. open' = <<>>
  BY DEF CfgInv, Mark, copyVars
<1> QED BY <1>1, <1>2, <1>3, <1>4, <1>5, <1>6
        DEF CfgInv, Mark, Copying, Entries, inputVars, readVars

LEMMA ExecStep == CfgInv /\ Exec => CfgInv'
<1> SUFFICES ASSUME CfgInv, Exec PROVE CfgInv'
  OBVIOUS
<1>1. TypeOK'
  BY DEF CfgInv, TypeOK, Exec, inputVars, srcVars, readVars, diskVars, copyVars, Entries
<1>2. \A i \in Entries : Complete(i)' <=> Complete(i)
  BY DEF Exec, Complete, inputVars, readVars, diskVars, copyVars, Entries
<1> QED BY <1>1, <1>2
        DEF CfgInv, Exec, Copying, ConfiguredIsComplete, Entries, inputVars, readVars, diskVars, copyVars

\* The world around: the invariant does not speak of the sources.
LEMMA ChangeSourceStep == \A i \in Entries : CfgInv /\ ChangeSource(i) => CfgInv'
<1> SUFFICES ASSUME NEW i \in Entries, CfgInv, ChangeSource(i) PROVE CfgInv'
  OBVIOUS
<1>0. PICK here \in BOOLEAN : \E s \in Contents(config[i], here) :
          /\ mounted' = IF here THEN mounted \cup {i} ELSE mounted \ {i}
          /\ src' = [src EXCEPT ![i] = s]
  BY DEF ChangeSource
<1>1. PICK s \in Contents(config[i], here) :
          /\ mounted' = IF here THEN mounted \cup {i} ELSE mounted \ {i}
          /\ src' = [src EXCEPT ![i] = s]
  BY <1>0
<1>2. s \in [Files -> Versions \cup {Absent}]
  BY <1>1 DEF Contents
<1>3. changes' \in 0..MaxChanges
  BY CfgBoundsAssumption DEF CfgInv, TypeOK, ChangeSource
<1>4. TypeOK'
  <2>1. UNCHANGED <<config, strategy, dst, props, run_command, configured, pc, entry, todo, open,
                    found, listed, seen, crashes>>
    BY DEF ChangeSource, inputVars, diskVars, copyVars, readVars
  <2>2. /\ mounted' \subseteq Entries
        /\ src' \in [Entries -> [Files -> Versions \cup {Absent}]]
    BY <1>1, <1>2 DEF CfgInv, TypeOK
  <2>3. ASSUME NEW j \in Entries
        PROVE  src'[j] \in Contents(config[j], j \in mounted')
    <3>1. CASE j = i
      <4>1. src'[j] = s /\ (j \in mounted') = here
        BY <1>1, <3>1 DEF CfgInv, TypeOK
      <4> QED BY <1>1, <3>1, <4>1
    <3>2. CASE j # i
      <4>1. src'[j] = src[j] /\ (j \in mounted') = (j \in mounted)
        BY <1>1, <3>2 DEF CfgInv, TypeOK
      <4> QED BY <4>1 DEF CfgInv, TypeOK
    <3> QED BY <3>1, <3>2
  <2> QED BY <1>3, <2>1, <2>2, <2>3 DEF CfgInv, TypeOK, Entries
<1>5. \A j \in Entries : Complete(j)' <=> Complete(j)
  BY DEF ChangeSource, Complete, inputVars, readVars, diskVars, copyVars, Entries
<1>6. CurrentEntry' <=> CurrentEntry
  BY DEF ChangeSource, CurrentEntry, inputVars, readVars, diskVars, copyVars
<1> QED BY <1>4, <1>5, <1>6
        DEF CfgInv, ChangeSource, Copying, Untouched, ConfiguredIsComplete, Entries, inputVars, readVars, diskVars, copyVars

LEMMA StutterStep == CfgInv /\ UNCHANGED cfgVars => CfgInv'
<1> SUFFICES ASSUME CfgInv, UNCHANGED cfgVars PROVE CfgInv'
  OBVIOUS
<1>1. TypeOK'
  BY DEF CfgInv, TypeOK, cfgVars, inputVars, srcVars, readVars, diskVars, copyVars, Entries
<1>2. \A j \in Entries : Complete(j)' <=> Complete(j)
  BY DEF Complete, cfgVars, inputVars, readVars, diskVars, copyVars, Entries
<1>3. CurrentEntry' <=> CurrentEntry
  BY DEF CurrentEntry, cfgVars, inputVars, readVars, diskVars, copyVars
<1> QED BY <1>1, <1>2, <1>3
        DEF CfgInv, Copying, Untouched, ConfiguredIsComplete, Entries, cfgVars, inputVars, readVars, diskVars, copyVars

LEMMA FailingSteps ==
    ASSUME CfgInv,
           NoStrategy \/ MissingSource \/ BadPermission \/ Crash
    PROVE  CfgInv'
<1>1. crashes' \in 0..MaxCrashes /\ changes' \in 0..MaxChanges
  BY CfgBoundsAssumption DEF CfgInv, TypeOK, NoStrategy, MissingSource, BadPermission, Crash
<1> QED BY <1>1, FailsWithoutTouching DEF NoStrategy, MissingSource, BadPermission, Crash

\* Every step preserves the invariant.
LEMMA NextPreserves == CfgInv /\ [Next]_cfgVars => CfgInv'
<1> SUFFICES ASSUME CfgInv, [Next]_cfgVars PROVE CfgInv'
  OBVIOUS
<1>1. CASE Step
  <2>1. CASE Begin BY <2>1, BeginStep
  <2>2. CASE AlreadyConfigured BY <2>2, AlreadyConfiguredStep
  <2>3. CASE NoStrategy \/ MissingSource \/ BadPermission BY <2>3, FailingSteps
  <2>4. CASE SkipOptional BY <2>4, SkipOptionalStep
  <2>5. CASE FindSource \/ ListSource \/ SourceVanished
    BY <2>5, FindSourceStep, ListSourceStep, SourceVanishedStep
  <2>6. CASE \E f \in Files : DeleteOld(f) \/ OpenFile(f) \/ FileVanished(f)
    BY <2>6, DeleteOldStep, OpenFileStep, FileVanishedStep
  <2>7. CASE FinishFile BY <2>7, FinishFileStep
  <2>8. CASE SetProps BY <2>8, SetPropsStep
  <2>9. CASE EndEntry BY <2>9, EndEntryStep
  <2>10. CASE TruncateCommand BY <2>10, TruncateCommandStep
  <2>11. CASE WriteCommand BY <2>11, WriteCommandStep
  <2>12. CASE Mark BY <2>12, MarkStep
  <2>13. CASE Exec BY <2>13, ExecStep
  <2> QED BY <1>1, <2>1, <2>2, <2>3, <2>4, <2>5, <2>6, <2>7, <2>8, <2>9, <2>10, <2>11, <2>12, <2>13
          DEF Step
<1>2. CASE Crash BY <1>2, FailingSteps
<1>3. CASE \E i \in Entries : ChangeSource(i) BY <1>3, ChangeSourceStep
<1>4. CASE Running \/ UNCHANGED cfgVars BY <1>4, StutterStep DEF Running
<1> QED BY <1>1, <1>2, <1>3, <1>4 DEF Next

(***************************************************************************)
(* The inductive invariant holds in every reachable state, for any number  *)
(* of entries, files, versions, crashes and changes.                       *)
(***************************************************************************)
THEOREM CfgInvariance == Spec => []CfgInv
BY InitEstablishes, NextPreserves, PTL DEF Spec

(***************************************************************************)
(* A running service has a complete configuration (start.sh:8-9): what one *)
(* listing of each source returned, although glob, the deletion of the     *)
(* destination, the listing and the copies are separate steps.             *)
(***************************************************************************)
THEOREM StartIsComplete == Spec => []RunsComplete
<1>1. CfgInv => RunsComplete
  BY DEF CfgInv, RunsComplete
<1> QED BY <1>1, CfgInvariance, PTL

(***************************************************************************)
(* /configured stands for a complete configuration (set_configs.py:384).   *)
(***************************************************************************)
THEOREM ConfiguredStaysComplete == Spec => []ConfiguredIsComplete
<1>1. CfgInv => ConfiguredIsComplete
  BY DEF CfgInv
<1> QED BY <1>1, CfgInvariance, PTL

(***************************************************************************)
(* With COPY_ONCE the configuration is copied once (set_configs.py:377).   *)
(***************************************************************************)
THEOREM CopiesOnce == Spec => CopiedOnce
<1>1. CfgInv /\ [Next]_cfgVars => [configured => UNCHANGED diskVars]_cfgVars
  <2> SUFFICES ASSUME CfgInv, [Next]_cfgVars, configured PROVE UNCHANGED diskVars
    OBVIOUS
  <2>1. strategy = "COPY_ONCE" /\ ~Copying
    BY DEF CfgInv, ConfiguredIsComplete
  <2>2. CASE Step
    BY <2>1, <2>2 DEF Step, Copying, Begin, AlreadyConfigured, NoStrategy, MissingSource, SkipOptional,
        FindSource, DeleteOld, ListSource, SourceVanished,
         OpenFile, FileVanished, FinishFile, SetProps, BadPermission, EndEntry,
        TruncateCommand, WriteCommand, Mark, Exec
  <2>3. CASE Crash \/ (\E i \in Entries : ChangeSource(i)) \/ Running \/ UNCHANGED cfgVars
    BY <2>3 DEF Crash, ChangeSource, Running, cfgVars
  <2> QED BY <2>2, <2>3 DEF Next
<1> QED BY <1>1, CfgInvariance, PTL DEF Spec, CopiedOnce

----------------------------------------------------------------------------
(* How far a start gets: what keeps it from failing, and the number of its *)
(* steps.  It is the part of ServiceStarts that needs no fairness.         *)

LEMMA PerEntryNat == PerEntry \in Nat /\ PerEntry = 4 * Cardinality(Files) + 3
BY FS_CardinalityType, FilesAssumption DEF PerEntry

\* the files still to copy are counted
LEMMA TodoNat ==
    ASSUME CfgInv
    PROVE  IsFiniteSet(todo) /\ Cardinality(todo) \in 0..Cardinality(Files)
<1>1. todo \subseteq Files
  BY DEF CfgInv, TypeOK
<1> QED BY <1>1, FS_Subset, FS_CardinalityType, FilesAssumption

\* and so are the old ones still to delete
LEMMA OldNat ==
    \A i : IsFiniteSet(Old(i)) /\ Cardinality(Old(i)) \in 0..Cardinality(Files)
<1>1. \A i : Old(i) \subseteq Files
  BY DEF Old
<1> QED BY <1>1, FS_Subset, FS_CardinalityType, FilesAssumption

\* an entry is left less, or none
LEMMA EntriesLeft ==
    ASSUME NEW n \in Nat, n # 0
    PROVE  n * PerEntry = (n - 1) * PerEntry + PerEntry /\ (n - 1) * PerEntry \in Nat
<1>1. \A c \in Nat : n * c = (n - 1) * c + c /\ (n - 1) * c \in Nat
  OBVIOUS
<1> QED BY <1>1, PerEntryNat

LEMMA EntriesNat == ASSUME NEW n \in Nat PROVE n * PerEntry \in Nat
<1>1. \A c \in Nat : n * c \in Nat
  OBVIOUS
<1> QED BY <1>1, PerEntryNat

LEMMA EntriesBounded ==
    ASSUME NEW k \in Nat, NEW n \in 0..k
    PROVE  n * PerEntry \in 0..(k * PerEntry)
<1>1. \A c \in Nat : n * c \in Nat /\ (k - n) * c \in Nat /\ k * c = n * c + (k - n) * c
  OBVIOUS
<1> DEFINE a == n * PerEntry
           b == (k - n) * PerEntry
<1>2. a \in Nat /\ b \in Nat /\ k * PerEntry = a + b
  BY <1>1, PerEntryNat
<1> HIDE DEF a, b
<1>3. a \in 0..(k * PerEntry)
  BY <1>2
<1> QED BY <1>3 DEF a

\* StepsLeft, part by part
LEMMA StepsLeftCases ==
    /\ pc = "down"    => StepsLeft = Len(config) * PerEntry + 5
    /\ pc = "copy"    => StepsLeft = (Len(config) + 1 - entry) * PerEntry + 4
    /\ pc = "found"   => StepsLeft = (Len(config) - entry) * PerEntry + Cardinality(Old(entry))
                                      + 3 * Cardinality(Files) + 6
    /\ pc = "files"   => StepsLeft = (Len(config) - entry) * PerEntry + 3 * Cardinality(todo)
                                      + (IF open = <<>> THEN 5 ELSE 4)
    /\ pc = "props"   => StepsLeft = (Len(config) - entry) * PerEntry + 3 * Cardinality(todo) + 3
    /\ pc = "write"   => StepsLeft = 3
    /\ pc = "mark"    => StepsLeft = 2
    /\ pc = "shell"   => StepsLeft = 1
    /\ pc = "running" => StepsLeft = 0
BY DEF StepsLeft

LEMMA NextStepsLeftCases ==
    /\ pc' = "copy"    => StepsLeft' = (Len(config') + 1 - entry') * PerEntry + 4
    /\ pc' = "found"   => StepsLeft' = (Len(config') - entry') * PerEntry
                                       + Cardinality(Old(entry)') + 3 * Cardinality(Files) + 6
    /\ pc' = "files"   => StepsLeft' = (Len(config') - entry') * PerEntry + 3 * Cardinality(todo')
                                       + (IF open' = <<>> THEN 5 ELSE 4)
    /\ pc' = "props"   => StepsLeft' = (Len(config') - entry') * PerEntry + 3 * Cardinality(todo') + 3
    /\ pc' = "write"   => StepsLeft' = 3
    /\ pc' = "mark"    => StepsLeft' = 2
    /\ pc' = "shell"   => StepsLeft' = 1
    /\ pc' = "running" => StepsLeft' = 0
BY DEF StepsLeft, PerEntry

\* what every step needs
LEMMA StartFacts ==
    ASSUME CfgInv, Undisturbed, Step
    PROVE  /\ Len(config) \in Nat /\ entry \in 1..(Len(config) + 1)
           /\ UNCHANGED <<config, strategy, srcVars>>
           /\ Startable'
           /\ pc \in {"found", "files", "props"} => entry \in Entries
<1>1. UNCHANGED <<config, strategy, srcVars>>
  BY DEF Step, Begin, AlreadyConfigured, NoStrategy, MissingSource, SkipOptional,
         FindSource, DeleteOld, ListSource, SourceVanished,
         OpenFile, FileVanished, FinishFile, SetProps, BadPermission, EndEntry,
         TruncateCommand, WriteCommand, Mark, Exec, inputVars, readVars
<1>2. Len(config) \in Nat
  BY ConfigIsSequence DEF CfgInv, TypeOK
<1>3. Startable'
  BY <1>1 DEF Undisturbed, Startable, Entries, srcVars
<1> QED BY <1>1, <1>2, <1>3 DEF CfgInv, TypeOK

\* the steps at which a start fails are not possible
LEMMA NoFailure ==
    ASSUME CfgInv, Undisturbed
    PROVE  /\ ~NoStrategy /\ ~MissingSource /\ ~SourceVanished /\ ~BadPermission
           /\ \A f \in Files : ~FileVanished(f)
<1>1. ~NoStrategy
  BY DEF Undisturbed, Startable, NoStrategy
<1>2. ~MissingSource /\ ~SourceVanished
  BY DEF Undisturbed, Startable, MissingSource, SourceVanished
<1>3. ~BadPermission
  BY DEF CfgInv, Undisturbed, Startable, BadPermission
<1>4. \A f \in Files : ~FileVanished(f)
  BY DEF Undisturbed, FileVanished, Present
<1> QED BY <1>1, <1>2, <1>3, <1>4

\* the part of a start before and between the entries
LEMMA BetweenEntries ==
    ASSUME CfgInv, Undisturbed, Step, Begin \/ AlreadyConfigured \/ SkipOptional \/ EndEntry
    PROVE  Undisturbed' /\ pc' # "down" /\ StepsLeft' < StepsLeft
<1>1. /\ Len(config) \in Nat /\ entry \in 1..(Len(config) + 1) /\ config' = config
      /\ Startable'
  BY StartFacts
<1>2. PerEntry \in Nat /\ Len(config) * PerEntry \in Nat
  <2>1. \A a, b \in Nat : a * b \in Nat
    OBVIOUS
  <2> QED BY <1>1, <2>1, PerEntryNat
<1>3. CASE Begin
  <2>1. pc = "down" /\ pc' = "copy" /\ entry' = 1
    BY <1>3 DEF Begin
  <2>2. StepsLeft = Len(config) * PerEntry + 5 /\ StepsLeft' = Len(config) * PerEntry + 4
    <3>1. Len(config') + 1 - entry' = Len(config)
      BY <1>1, <2>1
    <3> QED BY <2>1, <3>1, StepsLeftCases, NextStepsLeftCases
  <2> QED BY <1>1, <1>2, <2>1, <2>2 DEF Undisturbed
<1>4. CASE AlreadyConfigured
  <2>1. pc = "down" /\ pc' = "shell"
    BY <1>4 DEF AlreadyConfigured
  <2>2. StepsLeft = Len(config) * PerEntry + 5 /\ StepsLeft' = 1
    BY <2>1, StepsLeftCases, NextStepsLeftCases
  <2> QED BY <1>1, <1>2, <2>1, <2>2 DEF Undisturbed
<1>5. CASE SkipOptional
  <2>1. pc = "copy" /\ pc' = "copy" /\ entry' = entry + 1 /\ entry \in Entries
    BY <1>5 DEF SkipOptional
  <2> DEFINE n == Len(config) + 1 - entry
  <2>2. n \in Nat /\ n # 0 /\ Len(config') + 1 - entry' = n - 1
    BY <1>1, <2>1 DEF Entries
  <2>3. StepsLeft = n * PerEntry + 4 /\ StepsLeft' = (n - 1) * PerEntry + 4
    BY <2>1, <2>2, StepsLeftCases, NextStepsLeftCases
  <2>4. n * PerEntry = (n - 1) * PerEntry + PerEntry /\ (n - 1) * PerEntry \in Nat
    BY <2>2, EntriesLeft
  <2>5. PerEntry > 0
    BY PerEntryNat, FS_CardinalityType, FilesAssumption
  <2> HIDE DEF n
  <2>6. StepsLeft' < StepsLeft
    BY <1>2, <2>3, <2>4, <2>5
  <2> QED BY <1>1, <2>1, <2>6 DEF Undisturbed
<1>6. CASE EndEntry
  <2>1. pc = "files" /\ pc' = "copy" /\ entry' = entry + 1 /\ open = <<>> /\ todo = {}
    BY <1>6 DEF EndEntry
  <2>2. Len(config') + 1 - entry' = Len(config) - entry /\ Len(config) - entry \in Nat
    BY <1>1, <2>1, StartFacts DEF Entries
  <2>3. Cardinality(todo) = 0
    BY <2>1, FS_EmptySet
  <2>4. StepsLeft = (Len(config) - entry) * PerEntry + 5
    BY <1>2, <2>1, <2>3, StepsLeftCases, <2>2, EntriesNat
  <2>5. StepsLeft' = (Len(config) - entry) * PerEntry + 4
    BY <2>1, <2>2, NextStepsLeftCases
  <2>6. (Len(config) - entry) * PerEntry \in Nat
    BY <2>2, EntriesNat
  <2> QED BY <1>1, <2>1, <2>4, <2>5, <2>6 DEF Undisturbed
<1> QED BY <1>3, <1>4, <1>5, <1>6

\* the copying of an entry
LEMMA WithinEntry ==
    ASSUME CfgInv, Undisturbed, Step,
           \/ FindSource \/ ListSource \/ FinishFile \/ SetProps
           \/ \E f \in Files : DeleteOld(f) \/ OpenFile(f)
    PROVE  Undisturbed' /\ pc' # "down" /\ StepsLeft' < StepsLeft
<1>1. /\ Len(config) \in Nat /\ entry \in Entries /\ config' = config
      /\ src' = src /\ mounted' = mounted
      /\ entry' = entry /\ Startable' /\ Len(config) - entry \in Nat
  <2>1. entry \in Entries /\ entry' = entry
    BY DEF CfgInv, FindSource, DeleteOld, ListSource, OpenFile, FinishFile, SetProps, copyVars
  <2> QED BY <2>1, StartFacts DEF Entries, srcVars
<1> DEFINE rest == (Len(config) - entry) * PerEntry
<1>2. rest \in Nat /\ IsFiniteSet(todo) /\ Cardinality(todo) \in 0..Cardinality(Files)
      /\ Cardinality(Files) \in Nat
  BY <1>1, EntriesNat, TodoNat, FS_CardinalityType, FilesAssumption
<1>3. CASE FindSource
  <2>1. pc = "copy" /\ pc' = "found" /\ dst' = dst /\ entry \in mounted
    BY <1>3 DEF FindSource, diskVars
  <2>2. Cardinality(Old(entry)') \in 0..Cardinality(Files)
    <3>1. Old(entry)' = Old(entry)
      BY <1>1, <2>1 DEF Old
    <3> QED BY <3>1, OldNat
  <2>3. StepsLeft = rest + PerEntry + 4
    <3> DEFINE n == Len(config) + 1 - entry
    <3>1. n \in Nat /\ n # 0 /\ n - 1 = Len(config) - entry
      BY <1>1 DEF Entries
    <3>2. n * PerEntry = (n - 1) * PerEntry + PerEntry
      BY <3>1, EntriesLeft
    <3>3. StepsLeft = n * PerEntry + 4
      BY <2>1, StepsLeftCases
    <3> QED BY <3>1, <3>2, <3>3
  <2>4. StepsLeft' = rest + Cardinality(Old(entry)') + 3 * Cardinality(Files) + 6
    BY <1>1, <2>1, NextStepsLeftCases
  <2>5. StepsLeft' < StepsLeft
    <3> HIDE DEF rest
    <3> QED BY <1>2, <2>2, <2>3, <2>4, PerEntryNat
  <2>6. Undisturbed'
    BY <1>1, <2>1 DEF Undisturbed
  <2> QED BY <2>1, <2>5, <2>6
<1>7. CASE \E f \in Files : DeleteOld(f)
  <2>1. PICK f \in Files : DeleteOld(f)
    BY <1>7
  <2>2. pc = "found" /\ pc' = "found" /\ dst[entry][f] # Absent
        /\ dst' = [dst EXCEPT ![entry][f] = Absent]
    BY <2>1 DEF DeleteOld
  <2>3. Old(entry)' = Old(entry) \ {f} /\ f \in Old(entry)
    BY <1>1, <2>2 DEF Old, CfgInv, TypeOK
  <2>4. /\ Cardinality(Old(entry)) \in Nat
        /\ Cardinality(Old(entry)') = Cardinality(Old(entry)) - 1
    BY <2>3, OldNat, FS_RemoveElement
  <2>5. /\ StepsLeft = rest + Cardinality(Old(entry)) + 3 * Cardinality(Files) + 6
        /\ StepsLeft' = rest + Cardinality(Old(entry)') + 3 * Cardinality(Files) + 6
    BY <1>1, <2>2, StepsLeftCases, NextStepsLeftCases
  <2>6. StepsLeft' < StepsLeft
    <3> HIDE DEF rest
    <3> QED BY <1>2, <2>4, <2>5
  <2>7. Undisturbed'
    BY <1>1, <2>2 DEF Undisturbed
  <2> QED BY <2>2, <2>6, <2>7
<1>8. CASE ListSource
  <2>1. pc = "found" /\ pc' = "files" /\ todo' = Present(entry) /\ open' = open
    BY <1>8 DEF ListSource
  <2>2. open = <<>>
    BY <2>1 DEF CfgInv
  <2>3. Cardinality(Present(entry)) \in 0..Cardinality(Files)
    BY FS_Subset, FS_CardinalityType, FilesAssumption DEF Present
  <2>4. StepsLeft = rest + Cardinality(Old(entry)) + 3 * Cardinality(Files) + 6
    BY <2>1, StepsLeftCases
  <2>5. StepsLeft' = rest + 3 * Cardinality(Present(entry)) + 5
    BY <1>1, <2>1, <2>2, NextStepsLeftCases
  <2>6. StepsLeft' < StepsLeft
    <3>1. Cardinality(Old(entry)) \in Nat
      BY OldNat
    <3> HIDE DEF rest
    <3> QED BY <1>2, <2>3, <2>4, <2>5, <3>1
  <2>7. Undisturbed'
    BY <1>1, <2>1 DEF Undisturbed, Present
  <2> QED BY <2>1, <2>6, <2>7
<1>4. CASE \E f \in Files : OpenFile(f)
  <2>1. pc = "files" /\ pc' = "files" /\ todo' = todo /\ open = <<>> /\ open' # <<>>
    BY <1>4 DEF OpenFile
  <2>2. StepsLeft = rest + 3 * Cardinality(todo) + 5 /\ StepsLeft' = rest + 3 * Cardinality(todo) + 4
    BY <1>1, <2>1, StepsLeftCases, NextStepsLeftCases
  <2>3. StepsLeft' < StepsLeft
    <3> HIDE DEF rest
    <3> QED BY <1>2, <2>2
  <2>4. Undisturbed'
    BY <1>1, <2>1 DEF Undisturbed, Present
  <2> QED BY <2>1, <2>3, <2>4
<1>5. CASE FinishFile
  <2>1. pc = "files" /\ pc' = "props" /\ todo' = todo /\ open # <<>>
    BY <1>5 DEF FinishFile, copyVars
  <2>2. StepsLeft = rest + 3 * Cardinality(todo) + 4 /\ StepsLeft' = rest + 3 * Cardinality(todo) + 3
    BY <1>1, <2>1, StepsLeftCases, NextStepsLeftCases
  <2>3. StepsLeft' < StepsLeft
    <3> HIDE DEF rest
    <3> QED BY <1>2, <2>2
  <2>4. Undisturbed'
    BY <1>1, <2>1 DEF Undisturbed, Present
  <2> QED BY <2>1, <2>3, <2>4
<1>6. CASE SetProps
  <2>1. pc = "props" /\ pc' = "files" /\ todo' = todo \ {open[1]} /\ open' = <<>>
        /\ open[1] \in todo
    BY <1>6 DEF SetProps, CfgInv
  <2>2. Cardinality(todo') = Cardinality(todo) - 1
    BY <1>2, <2>1, FS_RemoveElement
  <2>3. StepsLeft = rest + 3 * Cardinality(todo) + 3 /\ StepsLeft' = rest + 3 * Cardinality(todo') + 5
    BY <1>1, <2>1, StepsLeftCases, NextStepsLeftCases
  <2>4. StepsLeft' < StepsLeft
    <3> HIDE DEF rest
    <3> QED BY <1>2, <2>2, <2>3
  <2>5. Undisturbed'
    BY <1>1, <2>1 DEF Undisturbed, Present
  <2> QED BY <2>1, <2>4, <2>5
<1> QED BY <1>3, <1>4, <1>5, <1>6, <1>7, <1>8

\* the end of a start
LEMMA AfterEntries ==
    ASSUME CfgInv, Undisturbed, Step, TruncateCommand \/ WriteCommand \/ Mark \/ Exec
    PROVE  Undisturbed' /\ pc' # "down" /\ StepsLeft' < StepsLeft
<1>1. Startable' /\ Len(config) \in Nat
  BY StartFacts
<1>2. CASE TruncateCommand
  <2>1. pc = "copy" /\ pc' = "write" /\ Len(config) + 1 - entry = 0
    BY <1>1, <1>2 DEF TruncateCommand
  <2>2. StepsLeft = 4
    <3>1. 0 * PerEntry = 0
      BY PerEntryNat
    <3> QED BY <2>1, <3>1, StepsLeftCases
  <2> QED BY <1>1, <2>1, <2>2, NextStepsLeftCases DEF Undisturbed
<1>3. CASE WriteCommand
  BY <1>1, <1>3, StepsLeftCases, NextStepsLeftCases DEF Undisturbed, WriteCommand
<1>4. CASE Mark
  BY <1>1, <1>4, StepsLeftCases, NextStepsLeftCases DEF Undisturbed, Mark
<1>5. CASE Exec
  <2>1. pc = "shell" /\ pc' = "running"
    BY <1>5 DEF Exec, CfgInv
  <2> QED BY <1>1, <2>1, StepsLeftCases, NextStepsLeftCases DEF Undisturbed
<1> QED BY <1>2, <1>3, <1>4, <1>5

(***************************************************************************)
(* A start does not fail while it is undisturbed, in whatever state a      *)
(* killed one left the files, and each of its steps leaves fewer of them   *)
(* to the running service (start.sh:8-22).  Only a change of the sources   *)
(* disturbs it.                                                            *)
(***************************************************************************)
THEOREM StartSucceeds ==
    Spec => /\ [][Step /\ Undisturbed => pc' # "down" /\ StepsLeft' < StepsLeft]_cfgVars
            /\ [][Undisturbed /\ UNCHANGED srcVars => Undisturbed']_cfgVars
<1>1. ASSUME CfgInv, Step, Undisturbed
      PROVE  Undisturbed' /\ pc' # "down" /\ StepsLeft' < StepsLeft
  BY <1>1, NoFailure, BetweenEntries, WithinEntry, AfterEntries DEF Step
<1>2. ASSUME CfgInv, [Next]_cfgVars, Undisturbed, UNCHANGED srcVars
      PROVE  Undisturbed'
  <2>1. CASE Step
    BY <1>1, <1>2, <2>1
  <2>2. CASE Crash
    <3>1. UNCHANGED <<config, strategy, srcVars>> /\ pc' = "down"
      BY <2>2 DEF Crash, Fail, inputVars
    <3> QED BY <1>2, <3>1 DEF Undisturbed, Startable, Entries, srcVars
  <2>3. CASE (\E i \in Entries : ChangeSource(i)) \/ Running \/ UNCHANGED cfgVars
    <3>1. UNCHANGED <<config, strategy, pc, entry, todo>>
      BY <1>2, <2>3 DEF ChangeSource, Running, inputVars, copyVars, cfgVars
    <3> QED BY <1>2, <3>1 DEF Undisturbed, Startable, Entries, Present, srcVars
  <2> QED BY <1>2, <2>1, <2>2, <2>3 DEF Next
<1>3. CfgInv /\ [Next]_cfgVars =>
         [Step /\ Undisturbed => pc' # "down" /\ StepsLeft' < StepsLeft]_cfgVars
  BY <1>1
<1>4. CfgInv /\ [Next]_cfgVars => [Undisturbed /\ UNCHANGED srcVars => Undisturbed']_cfgVars
  BY <1>2
<1> QED BY <1>3, <1>4, CfgInvariance, PTL DEF Spec

(***************************************************************************)
(* What is left of a start is bounded by the number of entries and files,  *)
(* so that it cannot go on for ever.                                       *)
(***************************************************************************)
THEOREM StartIsBounded == Spec => [](StepsLeft \in 0..(Len(config) * PerEntry + 5))
<1>1. ASSUME CfgInv PROVE StepsLeft \in 0..(Len(config) * PerEntry + 5)
  <2>1. /\ Len(config) \in Nat /\ entry \in 1..(Len(config) + 1)
        /\ pc \in {"down", "copy", "found", "files", "props", "write", "mark", "shell", "running"}
        /\ pc \in {"found", "files", "props"} => entry \in Entries
    BY <1>1, ConfigIsSequence DEF CfgInv, TypeOK
  <2>2. Cardinality(todo) \in 0..Cardinality(Files) /\ Cardinality(Files) \in Nat
    BY <1>1, TodoNat, FS_CardinalityType, FilesAssumption
  <2>3. Len(config) * PerEntry \in Nat
    BY <2>1, EntriesNat
  <2>4. CASE pc = "copy"
    <3>1. Len(config) + 1 - entry \in 0..Len(config)
      BY <2>1
    <3>2. (Len(config) + 1 - entry) * PerEntry \in 0..(Len(config) * PerEntry)
      BY <2>1, <3>1, EntriesBounded
    <3> QED BY <2>3, <2>4, <3>2, StepsLeftCases
  <2>5. CASE pc \in {"found", "files", "props"}
    <3>1. Len(config) - entry \in 0..(Len(config) - 1) /\ Len(config) # 0
      BY <2>1, <2>5 DEF Entries
    <3>2. (Len(config) - entry) * PerEntry \in 0..((Len(config) - 1) * PerEntry)
      BY <2>1, <3>1, EntriesBounded
    <3>3. Len(config) * PerEntry = (Len(config) - 1) * PerEntry + PerEntry
          /\ (Len(config) - 1) * PerEntry \in Nat
      BY <2>1, <3>1, EntriesLeft
    <3>4. /\ pc = "found" => StepsLeft = (Len(config) - entry) * PerEntry
                      + Cardinality(Old(entry)) + 3 * Cardinality(Files) + 6
          /\ pc # "found" => StepsLeft = (Len(config) - entry) * PerEntry + 3 * Cardinality(todo)
                      + (IF pc = "props" THEN 3 ELSE IF open = <<>> THEN 5 ELSE 4)
      BY <2>5, StepsLeftCases
    <3> DEFINE rest == (Len(config) - entry) * PerEntry
               less == (Len(config) - 1) * PerEntry
               all == Len(config) * PerEntry
    <3>5. rest \in 0..less /\ less \in Nat /\ all = less + PerEntry
      BY <3>2, <3>3
    <3>6. StepsLeft \in 0..(rest + 4 * Cardinality(Files) + 6)
      <4>1. Cardinality(Old(entry)) \in 0..Cardinality(Files) /\ rest \in Nat
        BY <3>5, OldNat
      <4> HIDE DEF rest
      <4>2. CASE pc = "found"
        BY <2>2, <3>4, <4>1, <4>2 DEF rest
      <4>3. CASE pc # "found"
        BY <2>2, <3>4, <4>1, <4>3 DEF rest
      <4> QED BY <4>2, <4>3
    <3> HIDE DEF rest, less, all
    <3>7. StepsLeft \in 0..(all + 5)
      BY <2>2, <3>5, <3>6, PerEntryNat
    <3> QED BY <3>7 DEF all
  <2>6. CASE pc \in {"down", "write", "mark", "shell", "running"}
    BY <2>3, <2>6, StepsLeftCases
  <2> QED BY <2>1, <2>4, <2>5, <2>6
<1> QED BY <1>1, CfgInvariance, PTL
=============================================================================
