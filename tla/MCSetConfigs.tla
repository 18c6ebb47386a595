---------------------------- MODULE MCSetConfigs ----------------------------
(* Instances of SetConfigs for TLC. *)
EXTENDS SetConfigs

E(dir, optional, merge, preserve, perm) ==
    [dir |-> dir, optional |-> optional, merge |-> merge,
     preserve |-> preserve, perm |-> perm]

\* a required directory, a directory to merge, an optional file, files whose
\* properties are preserved, and the permissions that are read differently
Plain    == E(TRUE, FALSE, FALSE, FALSE, "octal")
Merged   == E(TRUE, FALSE, TRUE, FALSE, "octal")
Optional == E(FALSE, TRUE, FALSE, FALSE, "octal")
Kept     == E(FALSE, FALSE, FALSE, TRUE, "octal")
Short    == E(FALSE, FALSE, FALSE, FALSE, "decimal")
Sticky   == E(FALSE, FALSE, FALSE, FALSE, "special")
Sealed   == E(TRUE, FALSE, FALSE, FALSE, "special")

MCConfigs ==
    {<<Plain>>, <<Merged>>, <<Plain, Optional>>, <<Optional, Merged>>,
     <<Kept>>, <<Short>>, <<Sticky>>, <<Sealed>>}
FileConfigs == {<<E(FALSE, FALSE, FALSE, FALSE, "octal")>>, <<Plain>>}
=============================================================================
