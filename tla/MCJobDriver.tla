----------------------------- MODULE MCJobDriver -----------------------------
(* JobDriver on small instances. *)
EXTENDS JobDriver

\* The hub has one driver; a second slot is there for it to take wrongly.
MCSlot == {1, 2}
=============================================================================
