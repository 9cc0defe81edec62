--------------------------- MODULE MCMigrateNames ----------------------------
(* MigrateNames on small instances. *)
EXTENDS MigrateNames

Node0 == [dir |-> "legacy", enabled |-> Services, active |-> Services, restored |-> TRUE,
          owned |-> TRUE, mounted |-> FALSE, foreign |-> FALSE, other |-> "none"]
\* The usual node, and nodes that differ from it in what some step asks about.
MCBoxes == {Node0,
            [Node0 EXCEPT !.owned = FALSE, !.restored = FALSE],
            [Node0 EXCEPT !.enabled = {"exec"}, !.active = {"beacon"}],
            [Node0 EXCEPT !.mounted = TRUE, !.foreign = TRUE, !.owned = FALSE],
            [Node0 EXCEPT !.dir = "custom"],
            [Node0 EXCEPT !.other = "soft"],
            [Node0 EXCEPT !.other = "hard", !.active = {}]}
=============================================================================
