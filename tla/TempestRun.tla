------------------------------ MODULE TempestRun ------------------------------
(***************************************************************************)
(* run_tempest.sh of the tempest images: the downloads of plugins and      *)
(* images, the configuration, the run of the tests, the second run of      *)
(* those that failed, the list of expected failures, and the value the     *)
(* script exits with, which each of these may set.                         *)
(*                                                                         *)
(* stestr and tempest are external: `stestr failing' lists the failures of *)
(* the last run that was recorded, and `tempest run' returns 0 if and only *)
(* if its run is recorded without a failure.                               *)
(***************************************************************************)
EXTENDS Naturals, Sequences

CONSTANTS
    Tests,       \* the tests there are
    Downloads    \* how many plugins and images are downloaded

ASSUME DownloadsAssumption == Downloads \in Nat

VARIABLES
    RERUN_FAILED_TESTS, RERUN_OVERRIDE_STATUS,
    expected,            \* what TEMPEST_EXPECTED_FAILURES_LIST lists
    at,                  \* where the script is
    download,            \* how many downloads are done
    retry_count,         \* failed attempts of the next one
    RETURN_VALUE,
    TEMPEST_TESTS_RAN,
    runs,                \* the failures of each run stestr recorded
    FAILED_TESTS_FILE,   \* may be there from an earlier step of the workflow
    reran                \* what the second run returned, if there was one

settings == <<RERUN_FAILED_TESTS, RERUN_OVERRIDE_STATUS, expected>>
tempestVars == <<settings, at, download, retry_count, RETURN_VALUE,
                 TEMPEST_TESTS_RAN, runs, FAILED_TESTS_FILE, reran>>

Init ==
    /\ RERUN_FAILED_TESTS \in BOOLEAN
    /\ RERUN_OVERRIDE_STATUS \in BOOLEAN
    /\ expected \in SUBSET Tests
    /\ at = "download"
    /\ download = 0
    /\ retry_count = 0
    /\ RETURN_VALUE = 0
    /\ TEMPEST_TESTS_RAN = FALSE
    /\ runs = <<>>
    /\ FAILED_TESTS_FILE \in SUBSET Tests
    /\ reran = "no"

\* git clone, or curl, of one plugin or image; after three attempts the
\* script exits at once
Fetched ==
    /\ at = "download"
    /\ download < Downloads
    /\ download' = download + 1
    /\ retry_count' = 0
    /\ UNCHANGED <<settings, at, RETURN_VALUE, TEMPEST_TESTS_RAN, runs,
                   FAILED_TESTS_FILE, reran>>

FetchFails ==
    /\ at = "download"
    /\ download < Downloads
    /\ retry_count' = retry_count + 1
    /\ at' = IF retry_count' < 3 THEN at ELSE "exited"
    /\ RETURN_VALUE' = IF retry_count' < 3 THEN RETURN_VALUE ELSE 1
    /\ UNCHANGED <<settings, download, TEMPEST_TESTS_RAN, runs, FAILED_TESTS_FILE, reran>>

\* an image that was uploaded does not become active in time
NeverActive ==
    /\ at = "download"
    /\ download < Downloads
    /\ RETURN_VALUE' = 1
    /\ at' = "exited"
    /\ UNCHANGED <<settings, download, retry_count, TEMPEST_TESTS_RAN, runs,
                   FAILED_TESTS_FILE, reran>>

\* discover_tempest_config
Discover ==
    /\ at = "download"
    /\ download = Downloads
    /\ TEMPEST_TESTS_RAN' = TRUE
    /\ at' = "run"
    /\ UNCHANGED <<settings, download, retry_count, RETURN_VALUE, runs,
                   FAILED_TESTS_FILE, reran>>

\* (mutated form: $? is not kept)
M_DiscoverFails ==
    /\ at = "download"
    /\ download = Downloads
    /\ at' = "exited"
    /\ UNCHANGED <<settings, download, retry_count, RETURN_VALUE, TEMPEST_TESTS_RAN, runs,
                   FAILED_TESTS_FILE, reran>>
DiscoverFails ==
    /\ at = "download"
    /\ download = Downloads
    /\ RETURN_VALUE' = 1
    /\ at' = "exited"
    /\ UNCHANGED <<settings, download, retry_count, TEMPEST_TESTS_RAN, runs,
                   FAILED_TESTS_FILE, reran>>

\* `tempest run' records a run, or fails before it does; code is what it returns
TempestRun(code) ==
    \/ \E failures \in SUBSET Tests :
          /\ runs' = Append(runs, failures)
          /\ code = IF failures = {} THEN 0 ELSE 1
    \/ UNCHANGED runs /\ code = 1

RunTests ==
    /\ at = "run"
    /\ \E code \in {0, 1} : TempestRun(code) /\ RETURN_VALUE' = code
    /\ at' = "results"
    /\ UNCHANGED <<settings, download, retry_count, TEMPEST_TESTS_RAN,
                   FAILED_TESTS_FILE, reran>>

LastFailures == IF runs = <<>> THEN {} ELSE runs[Len(runs)]

GenerateTestResults(from, to) ==
    /\ at = from
    /\ FAILED_TESTS_FILE' = LastFailures
    /\ at' = to
    /\ UNCHANGED <<settings, download, retry_count, RETURN_VALUE, TEMPEST_TESTS_RAN,
                   runs, reran>>

\* The names that failed are given as regular expressions, so tests with
\* longer names run again, too.
\* (mutated form: the second run overrides the value whatever is set)
M_Rerun ==
    /\ at = "rerun"
    /\ RERUN_FAILED_TESTS
    /\ FAILED_TESTS_FILE # {}
    /\ \E code \in {0, 1} :
          /\ TempestRun(code)
          /\ reran' = IF code = 0 THEN "passed" ELSE "failed"
          /\ RETURN_VALUE' = code
    /\ at' = "rerun results"
    /\ UNCHANGED <<settings, download, retry_count, TEMPEST_TESTS_RAN, FAILED_TESTS_FILE>>
Rerun ==
    /\ at = "rerun"
    /\ RERUN_FAILED_TESTS
    /\ FAILED_TESTS_FILE # {}
    /\ \E code \in {0, 1} :
          /\ TempestRun(code)
          /\ reran' = IF code = 0 THEN "passed" ELSE "failed"
          /\ RETURN_VALUE' = IF RERUN_OVERRIDE_STATUS THEN code ELSE RETURN_VALUE
    /\ at' = "rerun results"
    /\ UNCHANGED <<settings, download, retry_count, TEMPEST_TESTS_RAN, FAILED_TESTS_FILE>>

NoRerun ==
    /\ at = "rerun"
    /\ ~RERUN_FAILED_TESTS \/ FAILED_TESTS_FILE = {}
    /\ at' = "check"
    /\ UNCHANGED <<settings, download, retry_count, RETURN_VALUE, TEMPEST_TESTS_RAN,
                   runs, FAILED_TESTS_FILE, reran>>

CheckExpectedFailures ==
    /\ at = "check"
    /\ RETURN_VALUE' =
          IF FAILED_TESTS_FILE # {} /\ FAILED_TESTS_FILE \subseteq expected
          THEN 0 ELSE RETURN_VALUE
    /\ at' = "exited"
    /\ UNCHANGED <<settings, download, retry_count, TEMPEST_TESTS_RAN, runs,
                   FAILED_TESTS_FILE, reran>>

\* exit "${RETURN_VALUE}"
Exited == at = "exited" /\ UNCHANGED tempestVars

Next ==
    \/ Fetched \/ FetchFails \/ NeverActive \/ Discover \/ DiscoverFails \/ RunTests
    \/ GenerateTestResults("results", "rerun")
    \/ GenerateTestResults("rerun results", "check")
    \/ Rerun \/ NoRerun \/ CheckExpectedFailures \/ Exited

Spec == Init /\ [][Next]_tempestVars

----------------------------------------------------------------------------
(* Properties *)

(***************************************************************************)
(* The script succeeds (run_tempest.sh:613) only if a run was recorded     *)
(* and nothing failed in the last one but what is expected; and if the     *)
(* first run had failures, only if all of the last run's are expected      *)
(* ones, or a second run passed and may override the first.                *)
(***************************************************************************)
SuccessIsEarned ==
    at = "exited" /\ RETURN_VALUE = 0 =>
        /\ runs # <<>>
        /\ LastFailures \subseteq expected
        /\ LastFailures = {} /\ runs[1] # {} => reran = "passed" /\ RERUN_OVERRIDE_STATUS
=============================================================================
