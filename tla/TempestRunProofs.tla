-------------------------- MODULE TempestRunProofs --------------------------
(***************************************************************************)
(* What run_tempest.sh exits with, for any set of tests and any number of  *)
(* downloads: SuccessIsEarned holds.                                       *)
(***************************************************************************)
EXTENDS TempestRun, TLAPS

Places == {"download", "run", "results", "rerun", "rerun results", "check", "exited"}

TempestTypeOK ==
    /\ at \in Places
    /\ RETURN_VALUE \in {0, 1}
    /\ runs \in Seq(SUBSET Tests)

\* A value of 0 is owed to a last run without a failure, which is the first
\* one or may override it; and the file lists the last run's failures once
\* they are looked at.
Earned ==
    /\ at \in {"download", "run"} => runs = <<>>
    /\ at = "download" => ~TEMPEST_TESTS_RAN
    /\ at \notin {"download", "exited"} => TEMPEST_TESTS_RAN
    /\ at \in {"results", "rerun", "rerun results", "check"} /\ RETURN_VALUE = 0 =>
          /\ runs # <<>>
          /\ LastFailures = {}
          /\ runs[1] # {} => reran = "passed" /\ RERUN_OVERRIDE_STATUS
    /\ at \in {"rerun", "check"} => FAILED_TESTS_FILE = LastFailures
    /\ SuccessIsEarned

TempestInv == TempestTypeOK /\ Earned

----------------------------------------------------------------------------
LEMMA TempestInit == Init => TempestInv
BY DEF Init, TempestInv, TempestTypeOK, Earned, Places, SuccessIsEarned

\* what `tempest run' does to the list of runs
LEMMA RunFacts ==
    ASSUME runs \in Seq(SUBSET Tests), NEW code \in {0, 1}, TempestRun(code)
    PROVE  /\ runs' \in Seq(SUBSET Tests)
           /\ code = 0 => runs' # <<>> /\ LastFailures' = {}
           /\ code = 0 /\ runs # <<>> => runs'[1] = runs[1]
           /\ code = 0 /\ runs = <<>> => runs'[1] = {}
<1>1. CASE UNCHANGED runs /\ code = 1
  BY <1>1
<1>2. ASSUME NEW failures \in SUBSET Tests, runs' = Append(runs, failures),
             code = IF failures = {} THEN 0 ELSE 1
      PROVE  /\ runs' \in Seq(SUBSET Tests)
             /\ code = 0 => runs' # <<>> /\ LastFailures' = {}
             /\ code = 0 /\ runs # <<>> => runs'[1] = runs[1]
             /\ code = 0 /\ runs = <<>> => runs'[1] = {}
  <2>1. /\ runs' \in Seq(SUBSET Tests) /\ Len(runs') = Len(runs) + 1 /\ Len(runs) \in Nat
        /\ runs' # <<>> /\ runs'[Len(runs')] = failures
        /\ runs # <<>> => Len(runs) > 0
        /\ Len(runs) > 0 => runs'[1] = runs[1]
        /\ runs = <<>> => runs'[1] = failures
    BY <1>2
  <2>2. LastFailures' = failures
    BY <2>1 DEF LastFailures
  <2>3. code = 0 => failures = {}
    BY <1>2
  <2> QED BY <2>1, <2>2, <2>3
<1> QED BY <1>1, <1>2 DEF TempestRun

LEMMA TempestNextInv ==
    ASSUME TempestInv, [Next]_tempestVars
    PROVE  TempestInv'
<1> USE DEF TempestInv, TempestTypeOK, Earned, Places, settings
<1>1. CASE Fetched
  BY <1>1 DEF Fetched, LastFailures, SuccessIsEarned
<1>2. CASE FetchFails
  BY <1>2 DEF FetchFails, LastFailures, SuccessIsEarned
<1>3. CASE NeverActive
  BY <1>3 DEF NeverActive, LastFailures, SuccessIsEarned
<1>4. CASE Discover
  BY <1>4 DEF Discover, LastFailures, SuccessIsEarned
<1>5. CASE DiscoverFails
  BY <1>5 DEF DiscoverFails, LastFailures, SuccessIsEarned
<1>6. CASE RunTests
  <2>1. PICK code \in {0, 1} : TempestRun(code) /\ RETURN_VALUE' = code
    BY <1>6 DEF RunTests
  <2>2. /\ runs' \in Seq(SUBSET Tests)
        /\ code = 0 => runs' # <<>> /\ LastFailures' = {}
        /\ code = 0 => runs'[1] = {}
    BY <1>6, <2>1, RunFacts DEF RunTests
  <2> QED BY <1>6, <2>1, <2>2 DEF RunTests, SuccessIsEarned
<1>7. CASE \/ GenerateTestResults("results", "rerun")
           \/ GenerateTestResults("rerun results", "check")
  BY <1>7 DEF GenerateTestResults, LastFailures, SuccessIsEarned
<1>8. CASE Rerun
  <2>1. PICK code \in {0, 1} :
            /\ TempestRun(code)
            /\ reran' = IF code = 0 THEN "passed" ELSE "failed"
            /\ RETURN_VALUE' = IF RERUN_OVERRIDE_STATUS THEN code ELSE RETURN_VALUE
    BY <1>8 DEF Rerun
  <2>2. runs' \in Seq(SUBSET Tests) /\ (code = 0 => runs' # <<>> /\ LastFailures' = {})
    BY <2>1, RunFacts
  <2>3. RETURN_VALUE # 0 /\ at = "rerun" /\ at' = "rerun results"
    BY <1>8 DEF Rerun
  <2>4. RETURN_VALUE' = 0 => code = 0 /\ RERUN_OVERRIDE_STATUS /\ reran' = "passed"
    BY <2>1, <2>3
  <2> QED BY <1>8, <2>1, <2>2, <2>3, <2>4 DEF Rerun, SuccessIsEarned
<1>9. CASE NoRerun
  BY <1>9 DEF NoRerun, LastFailures, SuccessIsEarned
<1>10. CASE CheckExpectedFailures
  <2>1. LastFailures' = LastFailures
    BY <1>10 DEF CheckExpectedFailures, LastFailures
  <2>2. RETURN_VALUE' = 0 => \/ LastFailures # {} /\ LastFailures \subseteq expected
                             \/ RETURN_VALUE = 0
    BY <1>10 DEF CheckExpectedFailures
  <2>3. LastFailures # {} => runs # <<>>
    BY DEF LastFailures
  <2> QED BY <1>10, <2>1, <2>2, <2>3
          DEF CheckExpectedFailures, SuccessIsEarned
<1>11. CASE Exited \/ UNCHANGED tempestVars
  <2>1. /\ UNCHANGED <<RERUN_OVERRIDE_STATUS, expected, at, RETURN_VALUE>>
        /\ UNCHANGED <<TEMPEST_TESTS_RAN, runs, FAILED_TESTS_FILE, reran>>
    BY <1>11 DEF Exited, tempestVars
  <2>2. LastFailures' = LastFailures
    BY <2>1 DEF LastFailures
  <2> QED BY <2>1, <2>2 DEF SuccessIsEarned
<1> QED BY <1>1, <1>2, <1>3, <1>4, <1>5, <1>6, <1>7, <1>8, <1>9, <1>10, <1>11 DEF Next

(***************************************************************************)
(* run_tempest.sh exits with 0 (run_tempest.sh:613) only after a recorded  *)
(* run in which nothing failed but what is expected, and which may         *)
(* override what failed before it.                                         *)
(***************************************************************************)
THEOREM ExitsZeroIfEarned == Spec => []SuccessIsEarned
<1>1. TempestInv => SuccessIsEarned
  BY DEF TempestInv, Earned
<1> QED BY <1>1, TempestInit, TempestNextInv, PTL DEF Spec
=============================================================================
