--------------------------- MODULE MCRouterFunding ---------------------------
(***************************************************************************)
(* An instance of RouterFunding small enough for TLC: two vaults, and a    *)
(* treasury that can pay for both at the lower price but not at the higher.*)
(***************************************************************************)
EXTENDS RouterFunding

CONSTANTS v1, v2

TwoVaults == {v1, v2}
==============================================================================
