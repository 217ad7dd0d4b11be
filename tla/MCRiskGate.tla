------------------------------ MODULE MCRiskGate ------------------------------
(***************************************************************************)
(* An instance of RiskGate small enough for TLC: two slots under a cap of  *)
(* one, two pinned contracts, two passes that overlap.                     *)
(***************************************************************************)
EXTENDS RiskGate

CONSTANTS s1, s2, c1, c2, p1, p2

TwoSlots     == {s1, s2}
TwoContracts == {c1, c2}
TwoPasses    == {p1, p2}
=============================================================================
