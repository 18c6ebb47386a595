---------------------------- MODULE OrderedBuild ----------------------------
(***************************************************************************)
(* What `BuildahBuilder.build_all' promises, without threads, batches,     *)
(* retries or timers: images are worked on in any order in which an image  *)
(* comes after its parent, an excluded image is skipped in its turn, and   *)
(* one verdict is given once nobody works any more.                        *)
(* BuildahBuilder implements this specification.                           *)
(***************************************************************************)
CONSTANTS Images, Root

VARIABLES
    parent,    \* the image each image is FROM, or Root
    skip,      \* the excluded images
    status,    \* "waiting", "working", "ready", "skipped" or "failed"
    verdict    \* "none", "success" or "failure"

vars == <<parent, skip, status, verdict>>

Init ==
    /\ parent \in [Images -> Images \cup {Root}]
    /\ skip \in SUBSET Images
    /\ status = [m \in Images |-> "waiting"]
    /\ verdict = "none"

Settled(m) == status[m] \in {"ready", "skipped"}

Turn(m) ==
    /\ verdict = "none"
    /\ status[m] = "waiting"
    /\ parent[m] # Root => Settled(parent[m])

Become(m, s) == status' = [status EXCEPT ![m] = s]

Begin(m) == Turn(m) /\ m \notin skip /\ Become(m, "working") /\ UNCHANGED <<parent, skip, verdict>>

Skip(m) == Turn(m) /\ m \in skip /\ Become(m, "skipped") /\ UNCHANGED <<parent, skip, verdict>>

Complete(m) ==
    /\ status[m] = "working"
    /\ Become(m, "ready") \/ Become(m, "failed")
    /\ UNCHANGED <<parent, skip, verdict>>

Succeed ==
    /\ verdict = "none"
    /\ \A m \in Images : Settled(m)
    /\ verdict' = "success"
    /\ UNCHANGED <<parent, skip, status>>

\* A failure is declared only when nobody is working; a deadline may have
\* passed, so no image need have failed.
GiveUp ==
    /\ verdict = "none"
    /\ \A m \in Images : status[m] # "working"
    /\ verdict' = "failure"
    /\ UNCHANGED <<parent, skip, status>>

Next == (\E m \in Images : Begin(m) \/ Skip(m) \/ Complete(m)) \/ Succeed \/ GiveUp

Spec == Init /\ [][Next]_vars
=============================================================================
