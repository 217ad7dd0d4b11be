-------------------------- MODULE MCRelaySubmission --------------------------
(***************************************************************************)
(* An instance of RelaySubmission small enough for TLC: two engines that   *)
(* send one approval, whose answer and whose row part ways soonest.        *)
(***************************************************************************)
EXTENDS RelaySubmission

CONSTANTS a1, e1, e2

TwoEngines == {e1, e2}
OnlyApproval == {a1}

\* Every lifetime the configured window allows.
Matching == 1..Window
==============================================================================
