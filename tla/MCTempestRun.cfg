\* Every outcome of two runs of three tests, every list of expected failures.
CONSTANTS
    Tests = {t1, t2, t3}
    Downloads = 2
SPECIFICATION Spec
INVARIANT
    SuccessIsEarned
