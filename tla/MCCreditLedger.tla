--------------------------- MODULE MCCreditLedger ---------------------------
(* Instances of CreditLedger for TLC. *)
EXTENDS CreditLedger, TLC

CONSTANTS r1, r2

OneRelay  == {r1}
TwoRelays == {r1, r2}

\* Relays are interchangeable; only a run without liveness may say so.
RelaySymmetry == Permutations(TwoRelays)
=============================================================================
