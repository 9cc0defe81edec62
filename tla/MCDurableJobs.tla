--------------------------- MODULE MCDurableJobs ---------------------------
(* Instances of DurableJobs for TLC. *)
EXTENDS DurableJobs, TLC

CONSTANTS j1, j2, c1, c2

OneJob         == {j1}
TwoJobs        == {j1, j2}
OneController  == {c1}
TwoControllers == {c1, c2}

\* Controllers are interchangeable, and so are the ids of jobs not yet made.
ControllerSymmetry == Permutations(TwoControllers)
JobSymmetry        == Permutations(TwoJobs)
=============================================================================
