--------------------------- MODULE MCRelayStreams ----------------------------
(* RelayStreams on small instances. *)
EXTENDS RelayStreams

CONSTANTS h1, h2, l1

\* Two subscriptions to newHeads and one to logs.
MCSubs == {h1, h2, l1}
MCKind == [s \in MCSubs |-> IF s = l1 THEN "logs" ELSE "newHeads"]
\* One subscription on a chain that grows, forks and fails, or more on one that only grows.
MCBudgets == {[mine |-> 5, retreat |-> 1, fail |-> 0, forks |-> 0, subs |-> {h1}],
              [mine |-> 4, retreat |-> 1, fail |-> 1, forks |-> 0, subs |-> {l1}],
              [mine |-> 3, retreat |-> 0, fail |-> 0, forks |-> 0, subs |-> {h1, l1}],
              [mine |-> 2, retreat |-> 0, fail |-> 0, forks |-> 0, subs |-> MCSubs]}
\* An upstream that abandons no block, but may fail to answer once.
MCQuiet == {[mine |-> 3, retreat |-> 0, fail |-> 1, forks |-> 0, subs |-> {h1}]}
=============================================================================
