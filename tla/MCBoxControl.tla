---------------------------- MODULE MCBoxControl -----------------------------
(* BoxControl on small instances. *)
EXTENDS BoxControl

CONSTANTS c1, c2

MCControllers == {c1, c2}
\* One controller that signs three envelopes, or two that sign one each.
MCBudgets == {[c \in MCControllers |-> IF c = c1 THEN 3 ELSE 0], [c \in MCControllers |-> 1]}
=============================================================================
