------------------------- MODULE HorizonStartProofs -------------------------
(***************************************************************************)
(* Proofs about HorizonStart.  StartInv is inductive whatever the settings *)
(* do: a dashboard that is served has the plugins of the environment, and  *)
(* nothing is generated twice.  That it is current, too, needs one of two  *)
(* restrictions, each with an inductive invariant of its own: settings     *)
(* that never go back, or generations that are never cut off.              *)
(***************************************************************************)
EXTENDS HorizonStart, TLAPS

LEMMA StartInit == Init => StartInv /\ hash = NoHash /\ pc = "down"
<1> SUFFICES ASSUME Init PROVE StartInv /\ hash = NoHash /\ pc = "down"
  OBVIOUS
<1>1. TypeOK
  BY HorizonAssumption DEF Init, TypeOK, Plugins, Versions, Absent, Partial, Whole, NoHash
<1> QED BY <1>1, HorizonAssumption DEF Init, StartInv, Generating, NoHash, Versions

\* The steps of the loop over the plugins.
LEMMA StartStep == StartInv /\ Start => StartInv'
<1> SUFFICES ASSUME StartInv, Start PROVE StartInv'
  OBVIOUS
<1>1. TypeOK'
  BY HorizonAssumption DEF StartInv, TypeOK, Start, envVars, diskVars, boundVars, Plugins
<1>2. \A p \in Plugins : AsEnabled(p)' <=> AsEnabled(p)
  BY DEF Start, AsEnabled, envVars, diskVars
<1>3. \A p \in Plugins : ~(p < next')
  BY DEF Start, Plugins
<1> QED BY <1>1, <1>2, <1>3
        DEF StartInv, Start, Generating, Current, envVars, diskVars

LEMMA AsItShouldBeStep == StartInv /\ AsItShouldBe => StartInv'
<1> SUFFICES ASSUME StartInv, AsItShouldBe PROVE StartInv'
  OBVIOUS
<1>1. TypeOK'
  BY HorizonAssumption DEF StartInv, TypeOK, AsItShouldBe, envVars, diskVars, boundVars, Plugins
<1>2. \A p \in Plugins : AsEnabled(p)' <=> AsEnabled(p)
  BY DEF AsItShouldBe, AsEnabled, envVars, diskVars
<1>3. AsEnabled(next)
  BY DEF AsItShouldBe, AsEnabled, ToEnable, ToDisable, Absent
<1>4. \A p \in Plugins : p < next' => p < next \/ p = next
  BY DEF AsItShouldBe, Plugins
<1> QED BY <1>1, <1>2, <1>3, <1>4
        DEF StartInv, AsItShouldBe, Generating, Current, envVars, diskVars

\* A plugin is only copied or removed while there is no checksum.
LEMMA NoChecksumYet ==
    ASSUME StartInv, next \in Plugins, ToEnable(next) \/ ToDisable(next)
    PROVE  hash = NoHash
BY DEF StartInv, AsEnabled, ToEnable, ToDisable

LEMMA BeginCopyStep == StartInv /\ BeginCopy => StartInv'
<1> SUFFICES ASSUME StartInv, BeginCopy PROVE StartInv'
  OBVIOUS
<1>1. TypeOK'
  BY DEF StartInv, TypeOK, BeginCopy, envVars, boundVars, Partial
<1>2. hash = NoHash /\ hash' = NoHash
  BY NoChecksumYet DEF BeginCopy
<1>3. NoHash \notin Versions /\ NoHash # settings
  BY HorizonAssumption DEF NoHash, Versions, StartInv, TypeOK
<1>4. next \in enable
  BY DEF BeginCopy, ToEnable
<1>5. \A p \in Plugins : p < next' => AsEnabled(p)'
  <2> SUFFICES ASSUME NEW p \in Plugins, p < next' PROVE AsEnabled(p)'
    OBVIOUS
  <2>1. enabled'[p] = enabled[p] /\ p < next
    BY DEF StartInv, TypeOK, BeginCopy, Plugins
  <2> QED BY <2>1 DEF StartInv, BeginCopy, AsEnabled, envVars
<1> QED BY <1>1, <1>2, <1>3, <1>4, <1>5
        DEF StartInv, BeginCopy, Generating, Current, envVars

LEMMA EndCopyStep == StartInv /\ EndCopy => StartInv'
<1> SUFFICES ASSUME StartInv, EndCopy PROVE StartInv'
  OBVIOUS
<1>1. next \in Plugins /\ next \in enable /\ hash = NoHash /\ hash' = NoHash
  BY DEF StartInv, TypeOK, EndCopy
<1>2. NoHash \notin Versions /\ NoHash # settings
  BY HorizonAssumption DEF NoHash, Versions, StartInv, TypeOK
<1>3. TypeOK'
  BY <1>1, HorizonAssumption DEF StartInv, TypeOK, EndCopy, envVars, boundVars, Whole, Plugins
<1>4. \A p \in Plugins : p < next' => AsEnabled(p)'
  <2> SUFFICES ASSUME NEW p \in Plugins, p < next' PROVE AsEnabled(p)'
    OBVIOUS
  <2>1. CASE p = next
    BY <1>1, <2>1 DEF StartInv, TypeOK, EndCopy, AsEnabled, envVars, Whole, Absent
  <2>2. CASE p # next
    <3>1. p < next
      BY <1>1, <2>2 DEF EndCopy, Plugins
    <3>2. enabled'[p] = enabled[p]
      BY <2>2 DEF StartInv, TypeOK, EndCopy
    <3> QED BY <3>1, <3>2 DEF StartInv, EndCopy, AsEnabled, envVars
  <2> QED BY <2>1, <2>2
<1> QED BY <1>1, <1>2, <1>3, <1>4
        DEF StartInv, EndCopy, Generating, Current, envVars

LEMMA DisableStep == StartInv /\ Disable => StartInv'
<1> SUFFICES ASSUME StartInv, Disable PROVE StartInv'
  OBVIOUS
<1>1. next \in Plugins /\ hash = NoHash /\ hash' = NoHash
  BY NoChecksumYet DEF Disable
<1>2. NoHash \notin Versions /\ NoHash # settings
  BY HorizonAssumption DEF NoHash, Versions, StartInv, TypeOK
<1>3. TypeOK'
  BY <1>1, HorizonAssumption DEF StartInv, TypeOK, Disable, envVars, boundVars, Absent, Plugins
<1>4. \A p \in Plugins : p < next' => AsEnabled(p)'
  <2> SUFFICES ASSUME NEW p \in Plugins, p < next' PROVE AsEnabled(p)'
    OBVIOUS
  <2>1. CASE p = next
    BY <2>1 DEF StartInv, TypeOK, Disable, AsEnabled, ToDisable, envVars
  <2>2. CASE p # next
    <3>1. p < next
      BY <2>2 DEF Disable, Plugins
    <3>2. enabled'[p] = enabled[p]
      BY <2>2 DEF StartInv, TypeOK, Disable
    <3> QED BY <3>1, <3>2 DEF StartInv, Disable, AsEnabled, envVars
  <2> QED BY <2>1, <2>2
<1> QED BY <1>1, <1>2, <1>3, <1>4
        DEF StartInv, Disable, Generating, Current, envVars

\* The generation.
LEMMA CheckStep == StartInv /\ Check => StartInv'
<1> SUFFICES ASSUME StartInv, Check PROVE StartInv'
  OBVIOUS
<1>1. \A p \in Plugins : p < next
  BY HorizonAssumption DEF StartInv, TypeOK, Check, Plugins
<1>2. \A p \in Plugins : AsEnabled(p)' <=> AsEnabled(p)
  BY DEF Check, AsEnabled, envVars, diskVars
<1>3. TypeOK'
  BY DEF StartInv, TypeOK, Check, envVars, diskVars, boundVars
<1>4. CASE settings_changed
  <2>1. hash # settings \/ force_env
    BY <1>4, HorizonAssumption
    DEF StartInv, TypeOK, Check, settings_changed, NoHash, Versions
  <2> QED BY <1>1, <1>2, <1>3, <1>4, <2>1
          DEF StartInv, Check, Generating, Current, envVars, diskVars
<1>5. CASE ~settings_changed
  <2> QED BY <1>1, <1>2, <1>3, <1>5
          DEF StartInv, Check, Generating, Current, envVars, diskVars
<1> QED BY <1>4, <1>5

LEMMA CollectStaticStep == StartInv /\ CollectStatic => StartInv'
<1> SUFFICES ASSUME StartInv, CollectStatic PROVE StartInv'
  OBVIOUS
<1>1. TypeOK'
  BY DEF StartInv, TypeOK, CollectStatic, envVars, boundVars
<1>2. \A p \in Plugins : AsEnabled(p)' <=> AsEnabled(p)
  BY DEF CollectStatic, AsEnabled, envVars
<1> QED BY <1>1, <1>2
        DEF StartInv, CollectStatic, Generating, Current, envVars

LEMMA CompressStep == StartInv /\ Compress => StartInv'
<1> SUFFICES ASSUME StartInv, Compress PROVE StartInv'
  OBVIOUS
<1>1. TypeOK'
  BY DEF StartInv, TypeOK, Compress, envVars, boundVars
<1>2. \A p \in Plugins : AsEnabled(p)' <=> AsEnabled(p)
  BY DEF Compress, AsEnabled, envVars
<1> QED BY <1>1, <1>2
        DEF StartInv, Compress, Generating, Current, envVars

LEMMA TruncateHashStep == StartInv /\ TruncateHash => StartInv'
<1> SUFFICES ASSUME StartInv, TruncateHash PROVE StartInv'
  OBVIOUS
<1>1. TypeOK'
  BY DEF StartInv, TypeOK, TruncateHash, envVars, boundVars
<1>2. \A p \in Plugins : AsEnabled(p)' <=> AsEnabled(p)
  BY DEF TruncateHash, AsEnabled, envVars
<1>3. hash' \notin Versions /\ hash' # settings'
  BY HorizonAssumption DEF TruncateHash, EmptyHash, Versions, StartInv, TypeOK
<1> QED BY <1>1, <1>2, <1>3
        DEF StartInv, TruncateHash, Generating, Current, envVars

LEMMA WriteHashStep == StartInv /\ WriteHash => StartInv'
<1> SUFFICES ASSUME StartInv, WriteHash PROVE StartInv'
  OBVIOUS
<1>1. TypeOK'
  BY DEF StartInv, TypeOK, WriteHash, envVars, boundVars
<1>2. \A p \in Plugins : AsEnabled(p)' <=> AsEnabled(p)
  BY DEF WriteHash, AsEnabled, envVars
<1> QED BY <1>1, <1>2
        DEF StartInv, WriteHash, Generating, Current, envVars

\* The world around.
LEMMA StopStep == StartInv /\ Stop => StartInv'
<1> SUFFICES ASSUME StartInv, Stop PROVE StartInv'
  OBVIOUS
<1>1. TypeOK'
  BY HorizonAssumption DEF StartInv, TypeOK, Stop, envVars, diskVars
<1>2. \A p \in Plugins : AsEnabled(p)' <=> AsEnabled(p)
  BY DEF Stop, AsEnabled, envVars, diskVars
<1> QED BY <1>1, <1>2
        DEF StartInv, Stop, Generating, Current, envVars, diskVars

\* New settings leave what only the plugins and the checksum are about.
LEMMA ChangeSettingsStep == StartInv /\ ChangeSettings => StartInv'
<1> SUFFICES ASSUME StartInv, ChangeSettings PROVE StartInv'
  OBVIOUS
<1>1. TypeOK'
  BY HorizonAssumption DEF StartInv, TypeOK, ChangeSettings, envVars, diskVars
<1>2. \A p \in Plugins : AsEnabled(p)' <=> AsEnabled(p)
  BY DEF ChangeSettings, AsEnabled, envVars, diskVars
<1> QED BY <1>1, <1>2 DEF StartInv, ChangeSettings, Generating, envVars, diskVars

LEMMA StartInvStep == StartInv /\ [Next]_horizonVars => StartInv'
<1> SUFFICES ASSUME StartInv, [Next]_horizonVars PROVE StartInv'
  OBVIOUS
<1>1. CASE UNCHANGED horizonVars
  <2>1. TypeOK'
    BY <1>1 DEF StartInv, TypeOK, horizonVars, envVars, diskVars, boundVars
  <2>2. \A p \in Plugins : AsEnabled(p)' <=> AsEnabled(p)
    BY <1>1 DEF AsEnabled, horizonVars, envVars, diskVars
  <2> QED BY <1>1, <2>1, <2>2
          DEF StartInv, Generating, Current, horizonVars, envVars, diskVars, boundVars
<1>2. CASE Start \/ AsItShouldBe \/ BeginCopy \/ EndCopy \/ Disable
  BY <1>2, StartStep, AsItShouldBeStep, BeginCopyStep, EndCopyStep, DisableStep
<1>3. CASE Check \/ CollectStatic \/ Compress \/ TruncateHash \/ WriteHash
  BY <1>3, CheckStep, CollectStaticStep, CompressStep, TruncateHashStep, WriteHashStep
<1>4. CASE Stop \/ ChangeSettings
  BY <1>4, StopStep, ChangeSettingsStep
<1>5. CASE Serve
  BY <1>1, <1>5 DEF Serve
<1> QED BY <1>1, <1>2, <1>3, <1>4, <1>5 DEF Next

(***************************************************************************)
(* Whatever is cut off and whatever the settings do, plugins are touched   *)
(* only before the first checksum, and something is generated only for a   *)
(* reason, for any number of plugins, versions, changes and crashes.       *)
(***************************************************************************)
THEOREM StartInvariance == Spec => []StartInv
<1>1. Init => StartInv
  BY StartInit
<1> QED BY <1>1, StartInvStep, PTL DEF Spec

(***************************************************************************)
(* A dashboard that is served has the plugins of the environment           *)
(* (extend_start.sh:33-42), also when settings come back.                  *)
(***************************************************************************)
THEOREM ServedPlugins == Spec => []PluginsAsEnabled
<1>1. StartInv => PluginsAsEnabled
  BY DEF StartInv, PluginsAsEnabled
<1> QED BY <1>1, StartInvariance, PTL

(***************************************************************************)
(* While the checksum matches, nothing is generated again (line 122), also *)
(* when settings come back.                                                *)
(***************************************************************************)
THEOREM GeneratesOnce == Spec => GeneratedOnce
<1>1. StartInv /\ [Next]_horizonVars
        => [hash = settings /\ ~force_env => static' = static]_horizonVars
  <2> SUFFICES ASSUME StartInv, Next, hash = settings, ~force_env
               PROVE  static' = static
    BY DEF horizonVars, diskVars
  <2>1. ~CollectStatic /\ ~Compress
    BY DEF StartInv, Generating, CollectStatic, Compress
  <2> QED BY <2>1 DEF Next, Start, AsItShouldBe, BeginCopy, EndCopy, Disable, Check,
                      TruncateHash, WriteHash, Stop, ChangeSettings, Serve,
                      horizonVars, diskVars
<1> QED BY <1>1, StartInvariance, PTL DEF Spec, GeneratedOnce

----------------------------------------------------------------------------
(* What is served is current *)

\* the steps of a start that touch neither the generated files nor the
\* checksum do not touch a plugin either once there is a checksum
LEMMA PluginSteps ==
    ASSUME StartInv, Start \/ AsItShouldBe \/ BeginCopy \/ EndCopy \/ Disable
    PROVE  /\ UNCHANGED <<settings, static, hash, force_env>>
           /\ hash # NoHash => enabled' = enabled
           /\ pc' \in {"plugins", "copy"} /\ pc \in {"down", "plugins", "copy"}
<1>1. CASE Start \/ AsItShouldBe
  BY <1>1 DEF Start, AsItShouldBe, envVars, diskVars
<1>2. CASE BeginCopy \/ Disable
  BY <1>2, NoChecksumYet DEF BeginCopy, Disable, envVars
<1>3. CASE EndCopy
  BY <1>3 DEF StartInv, EndCopy, envVars
<1> QED BY <1>1, <1>2, <1>3

LEMMA HashNumbers ==
    ASSUME StartInv
    PROVE  /\ settings \in Versions /\ settings \in Nat \ {0} /\ settings # NoHash
           /\ NoHash \notin Versions /\ EmptyHash \notin Versions /\ EmptyHash # settings
           /\ hash \in Versions => hash \in Nat /\ hash # NoHash
           /\ hash \in Versions \/ hash = NoHash \/ hash = EmptyHash
  BY HorizonAssumption DEF StartInv, TypeOK, Versions, NoHash, EmptyHash

LEMMA HorizonStep ==
    HorizonInv /\ [Next]_horizonVars /\ [settings' >= settings]_horizonVars => HorizonInv'
<1> SUFFICES ASSUME HorizonInv, [Next]_horizonVars, [settings' >= settings]_horizonVars
             PROVE  HorizonInv'
  OBVIOUS
<1>1. StartInv /\ StartInv'
  BY StartInvStep DEF HorizonInv
<1>2. CASE UNCHANGED horizonVars
  BY <1>1, <1>2 DEF HorizonInv, Current, CompressedIsCurrent, horizonVars, envVars, diskVars
<1>3. CASE Start \/ AsItShouldBe \/ BeginCopy \/ EndCopy \/ Disable
  <2>1. /\ UNCHANGED <<settings, static, hash, force_env>>
        /\ hash # NoHash => enabled' = enabled
        /\ pc' # "up"
    BY <1>1, <1>3, PluginSteps
  <2> QED BY <1>1, <2>1, HashNumbers DEF HorizonInv, Current, CompressedIsCurrent
<1>4. CASE Check
  <2>1. UNCHANGED <<settings, static, hash, force_env, enabled>>
    BY <1>4 DEF Check, envVars, diskVars
  <2>2. pc' = "up" => hash = settings /\ ~force_env
    BY <1>1, <1>4 DEF StartInv, Check, settings_changed
  <2> QED BY <1>1, <2>1, <2>2 DEF HorizonInv, Current, CompressedIsCurrent
<1>5. CASE CollectStatic \/ Compress
  BY <1>1, <1>5 DEF HorizonInv, StartInv, Generating, Current, CompressedIsCurrent,
                    CollectStatic, Compress, envVars
<1>6. CASE TruncateHash
  BY <1>1, <1>6, HashNumbers DEF HorizonInv, CompressedIsCurrent, TruncateHash, envVars
<1>7. CASE WriteHash
  BY <1>1, <1>7, HashNumbers
     DEF HorizonInv, StartInv, Current, CompressedIsCurrent, WriteHash, envVars
<1>8. CASE Stop
  BY <1>1, <1>8 DEF HorizonInv, Current, CompressedIsCurrent, Stop, envVars, diskVars
<1>9. CASE ChangeSettings
  <2>1. /\ settings' \in Versions /\ settings' # settings
        /\ hash' = hash /\ pc' = "down"
    BY <1>9 DEF ChangeSettings, diskVars
  <2>2. settings' > settings
    <3>1. settings' >= settings
      BY <2>1 DEF horizonVars
    <3> QED BY <1>1, <2>1, <3>1, HashNumbers, HorizonAssumption DEF Versions
  <2>3. hash \in Versions => hash < settings'
    BY <1>1, <2>1, <2>2, HashNumbers, HorizonAssumption DEF HorizonInv, Versions
  <2>4. hash' # settings' /\ (hash' \in Versions => hash' <= settings')
    BY <1>1, <2>1, <2>2, <2>3, HashNumbers, HorizonAssumption DEF Versions
  <2> QED BY <1>1, <2>1, <2>4 DEF HorizonInv, CompressedIsCurrent
<1>10. CASE Serve
  BY <1>2, <1>10 DEF Serve
<1> QED BY <1>2, <1>3, <1>4, <1>5, <1>6, <1>7, <1>8, <1>9, <1>10 DEF Next

LEMMA KeptStep ==
    KeptInv /\ [Next]_horizonVars
    /\ [pc' = "down" => pc \notin {"compress", "checksum"}]_horizonVars => KeptInv'
<1> SUFFICES ASSUME KeptInv, [Next]_horizonVars,
                    [pc' = "down" => pc \notin {"compress", "checksum"}]_horizonVars
             PROVE  KeptInv'
  OBVIOUS
<1>1. StartInv /\ StartInv'
  BY StartInvStep DEF KeptInv
<1>2. CASE UNCHANGED horizonVars
  BY <1>1, <1>2 DEF KeptInv, CompressedIsCurrent, horizonVars, envVars, diskVars
<1>3. CASE Start \/ AsItShouldBe \/ BeginCopy \/ EndCopy \/ Disable
  <2>1. /\ UNCHANGED <<settings, static, hash, force_env>>
        /\ hash # NoHash => enabled' = enabled
        /\ pc' # "up" /\ pc \notin {"compress", "checksum"}
    BY <1>1, <1>3, PluginSteps
  <2> QED BY <1>1, <2>1, HashNumbers DEF KeptInv, CompressedIsCurrent
<1>4. CASE Check
  <2>1. UNCHANGED <<settings, static, hash, enabled>> /\ pc = "plugins"
    BY <1>4 DEF Check, envVars, diskVars
  <2>2. pc' = "up" => hash = settings
    BY <1>4 DEF Check, settings_changed
  <2> QED BY <1>1, <2>1, <2>2, HashNumbers DEF KeptInv, CompressedIsCurrent
<1>5. CASE CollectStatic \/ Compress
  BY <1>1, <1>5 DEF KeptInv, CompressedIsCurrent, CollectStatic, Compress
<1>6. CASE TruncateHash
  BY <1>1, <1>6, HashNumbers DEF KeptInv, CompressedIsCurrent, TruncateHash
<1>7. CASE WriteHash
  BY <1>1, <1>7 DEF KeptInv, StartInv, Current, CompressedIsCurrent, WriteHash
<1>8. CASE Stop
  <2>1. pc \notin {"compress", "checksum"} /\ pc' = "down"
    BY <1>8 DEF Stop, horizonVars
  <2> QED BY <1>1, <1>8, <2>1 DEF KeptInv, CompressedIsCurrent, Stop, diskVars
<1>9. CASE ChangeSettings
  BY <1>1, <1>9 DEF KeptInv, CompressedIsCurrent, ChangeSettings, diskVars
<1>10. CASE Serve
  BY <1>2, <1>10 DEF Serve
<1> QED BY <1>2, <1>3, <1>4, <1>5, <1>6, <1>7, <1>8, <1>9, <1>10 DEF Next

\* both invariants hold of a new container
LEMMA HorizonInit == Init => HorizonInv /\ KeptInv
<1>1. ASSUME StartInv, hash = NoHash, pc = "down" PROVE HorizonInv /\ KeptInv
  BY <1>1, HashNumbers DEF HorizonInv, KeptInv, CompressedIsCurrent
<1> QED BY <1>1, StartInit

(***************************************************************************)
(* When settings never go back, a dashboard that is served is current      *)
(* (extend_start.sh:109-111), wherever earlier starts were cut off.        *)
(***************************************************************************)
THEOREM CurrentIfNeverBack == Spec /\ NeverBack => []HorizonInv
<1>1. Init => HorizonInv
  BY HorizonInit
<1> QED BY <1>1, HorizonStep, PTL DEF Spec, NeverBack

(***************************************************************************)
(* ... and also when they do, if no start is cut off between `collectstatic*)
(* --clear' and the checksum (lines 138-140): nothing else can go wrong.   *)
(***************************************************************************)
THEOREM CurrentIfNoneCutOff == Spec /\ NoneCutOff => []CompressedIsCurrent
<1>1. Init => KeptInv
  BY HorizonInit
<1>2. KeptInv => CompressedIsCurrent
  BY DEF KeptInv
<1> QED BY <1>1, <1>2, KeptStep, PTL DEF Spec, NoneCutOff

(***************************************************************************)
(* When settings never come back, the inductive invariant holds for any    *)
(* number of plugins, versions, changes and crashes.                       *)
(***************************************************************************)
THEOREM HorizonInvariance ==
    ASSUME ~Revert
    PROVE  Spec => []HorizonInv
<1>1. StartInv /\ [Next]_horizonVars => [settings' >= settings]_horizonVars
  <2> SUFFICES ASSUME StartInv, Next PROVE settings' >= settings
    OBVIOUS
  <2>1. settings \in Nat
    BY HashNumbers
  <2>2. CASE ChangeSettings
    BY <2>1, <2>2, HorizonAssumption DEF ChangeSettings, Versions
  <2>3. CASE ~ChangeSettings
    <3>1. settings' = settings
      BY <2>3 DEF Next, Start, AsItShouldBe, BeginCopy, EndCopy, Disable, Check, CollectStatic,
                  Compress, TruncateHash, WriteHash, Stop, Serve, horizonVars
    <3> QED BY <2>1, <3>1
  <2> QED BY <2>2, <2>3
<1>2. Spec => NeverBack
  BY <1>1, StartInvariance, PTL DEF Spec, NeverBack
<1> QED BY <1>2, CurrentIfNeverBack, PTL

(***************************************************************************)
(* A dashboard that is served is current (extend_start.sh:109-111).        *)
(***************************************************************************)
THEOREM ServedIsCurrent ==
    ASSUME ~Revert
    PROVE  Spec => []CompressedIsCurrent
<1>1. Spec => []HorizonInv
  BY HorizonInvariance
<1>2. HorizonInv => CompressedIsCurrent
  BY DEF HorizonInv
<1> QED BY <1>1, <1>2, PTL
=============================================================================
