--------------------------- MODULE MCManualCustody ---------------------------
(***************************************************************************)
(* Instances of ManualCustody small enough for TLC: one row s1 and two     *)
(* calls p and q it may be proposed with, one poll loop, and one operator  *)
(* at a time, who may be another process for every command.                *)
(***************************************************************************)
EXTENDS ManualCustody

CONSTANTS s1, p, q, e1, o1, t1, t2

OneRow == {s1}
OneCall == {p}
TwoCalls == {p, q}
OneLoop == {e1}
DrivesAll == [e \in Engines |-> Subjects]
OneOperator == {o1}
AnyCommand == [o \in Operators |-> Commands]
OneTx == {t1}
TwoTxs == {t1, t2}
BothCustodies == {"safe", "eoa"}
SafeOnly == {"safe"}
==============================================================================
